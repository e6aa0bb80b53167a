----------------------------- MODULE WebProcess -----------------------------
(* The web UI split across two processes (cmd/main/web_process*.go): mping   *)
(* serves the backend on a socket in a private directory, and `mping __web`  *)
(* serves the browser.  The two share a pipe each way and the directory; any *)
(* of them may be killed.                                                    *)
(*                                                                           *)
(* DropTo is modelled by what it leaves behind: which of the privileges the  *)
(* kernel took away is nondeterministic, the checks are the code's.  On      *)
(* platforms without user IDs the child keeps what it has (identity.keep);   *)
(* that is left out.                                                         *)
EXTENDS Privilege

VARIABLES
    mping,      \* where startSplitWebUI, the run, or Close is
    child,      \* where runWebProcess is
    dir,        \* files present: the directory and the socket in it
    service,    \* the backend: "none", "serving" or "closed"
    stdin,      \* the write end of the child's stdin is open
    out,        \* the line the child wrote on stdout, "empty" before
    line,       \* the line the reader goroutine delivered, "none" before
    left        \* what privileges the child still has

webVars == <<mping, child, dir, service, stdin, out, line, left>>

processVars == <<ids, real, saved, raw, lost, failed,
                 mping, child, dir, service, stdin, out, line, left>>

\* The user and group it runs as, the saved user and the saved group ID, and the
\* capabilities.
Kinds == {"ids", "saved", "group", "caps"}

Alive == child \notin {"none", "exited", "killed"}

Serving == child \in {"reporting", "waiting", "stopping"}

ProcessInit ==
    /\ PrivInit /\ failed = 0
    /\ mping = "token" /\ child = "none" /\ dir = {}
    /\ service = "none" /\ stdin = FALSE
    /\ out = "empty" /\ line = "none" /\ left = Kinds

--------------------------------------------------------------------------
(* mping: startSplitWebUI *)

\* MkdirTemp and Listen; on an error nothing stays.
ListenWebSocket ==
    /\ mping = "token"
    /\ \/ /\ mping' = "serve" /\ dir' = {"dir", "socket"}
          /\ UNCHANGED failed
       \/ mping' = "failed" /\ Fails /\ UNCHANGED dir
    /\ UNCHANGED <<child, service, stdin, out, line, left>>

\* ServeBackend, started unless the token or the socket is refused.
ServeBackend ==
    /\ mping = "serve"
    /\ \/ /\ mping' = "spawn" /\ service' = "serving"
          /\ UNCHANGED <<dir, failed>>
       \/ /\ mping' = "failed" /\ dir' = {} /\ Fails
          /\ UNCHANGED service
    /\ UNCHANGED <<child, stdin, out, line, left>>

\* startUnprivileged: the process is started with a pipe on its stdin.
Spawn ==
    /\ mping = "spawn"
    /\ \/ /\ mping' = "starting" /\ child' = "started" /\ stdin' = TRUE
          /\ UNCHANGED failed
       \/ /\ mping' = "cleanup" /\ Fails /\ UNCHANGED <<child, stdin>>
    /\ UNCHANGED <<dir, service, out, line, left>>

\* The goroutine that reads stdout.  Wait, in another goroutine, closes the
\* pipe once the child is gone, so a line not read by then may be lost.
ReaderDelivers ==
    /\ line = "none" /\ mping # "crashed"
    /\ \/ out # "empty" /\ line' = out
       \/ child \in {"exited", "killed"} /\ line' = "empty"
    /\ UNCHANGED <<mping, child, dir, service, stdin, out, left, failed>>

Ready ==
    /\ mping = "starting" /\ line = "ready"
    /\ mping' = "running"
    /\ UNCHANGED <<child, dir, service, stdin, out, line, left, failed>>

\* A fail that only reports the error.
LeavesRunning == UNCHANGED child

Kills == child' = IF Alive THEN "killed" ELSE child

\* fail: an error line, an early exit or the start timeout.
StartFails ==
    /\ mping = "starting"
    /\ \/ line \in {"error", "empty"}
       \/ line \in {"none", "ready"} /\ Alive
    /\ mping' = "reap"
    /\ stdin' = FALSE
    /\ Kills
    /\ UNCHANGED <<dir, service, out, line, left, failed>>

Reaped ==
    /\ mping = "reap" /\ ~Alive
    /\ mping' = "cleanup"
    /\ UNCHANGED <<child, dir, service, stdin, out, line, left, failed>>

\* startSplitWebUI after the frontend did not start.
CleansUp ==
    /\ mping = "cleanup"
    /\ mping' = "failed"
    /\ service' = "closed" /\ dir' = {}
    /\ UNCHANGED <<child, stdin, out, line, left, failed>>

(* mping: Close, and the end of a killed mping *)

\* The backend is closed before the frontend.
ClosesBackendFirst ==
    /\ mping = "running"
    /\ mping' = "closing" /\ stdin' = FALSE /\ service' = "closed"
    /\ UNCHANGED <<child, dir, out, line, left, failed>>

Closes ==
    /\ mping = "running"
    /\ mping' = "closing"
    /\ stdin' = FALSE
    /\ UNCHANGED <<child, dir, service, out, line, left, failed>>

FrontendGone ==
    /\ mping = "closing" /\ ~Alive
    /\ mping' = "closeBackend"
    /\ UNCHANGED <<child, dir, service, stdin, out, line, left, failed>>

\* The frontend may take the whole grace time and is then killed.
CloseTimesOut ==
    /\ mping = "closing" /\ Alive
    /\ Kills
    /\ UNCHANGED <<mping, dir, service, stdin, out, line, left, failed>>

ClosesBackend ==
    /\ mping = "closeBackend"
    /\ mping' = "removeDir" /\ service' = "closed"
    /\ UNCHANGED <<child, dir, stdin, out, line, left, failed>>

RemovesDir ==
    /\ mping = "removeDir"
    /\ mping' = "closed" /\ dir' = {}
    /\ UNCHANGED <<child, service, stdin, out, line, left, failed>>

\* mping is killed: the kernel closes its pipes, nothing is removed.
Crash ==
    /\ mping \notin {"failed", "closed", "crashed"} /\ Fails
    /\ mping' = "crashed" /\ stdin' = FALSE /\ service' = "closed"
    /\ UNCHANGED <<child, dir, out, line, left>>

(* The child: runWebProcess *)

Says(word) == out' = word /\ UNCHANGED <<mping, dir, service, stdin, line>>

\* DropTo's verdict on what the kernel left.  It does not ask for the saved group.
Dropped(kept) == kept \cap {"ids", "saved", "caps"} = {}

\* root's setgid replaces the saved group too; a setgid installation keeps it.
MayKeep == IF SetGid /\ ~SetUid THEN Kinds ELSE Kinds \ {"group"}

\* A call of DropTo fails, or takes all, or leaves something.
DropTo ==
    /\ child = "started"
    /\ \E kept \in SUBSET MayKeep :
          /\ left' = kept
          /\ IF Dropped(kept)
             THEN child' = "listening" /\ Says(out)
             ELSE child' = "exited" /\ Says("error")
    /\ UNCHANGED failed

StartFrontend ==
    /\ child = "listening"
    /\ \/ child' = "reporting" /\ Says(out) /\ UNCHANGED failed
       \/ child' = "exited" /\ Says("error") /\ Fails
    /\ UNCHANGED left

\* Writing "ready" on the pipe of a dead mping ends the process (SIGPIPE).
Reports ==
    /\ child = "reporting"
    /\ IF mping = "crashed"
       THEN child' = "killed" /\ Says(out)
       ELSE child' = "waiting" /\ Says("ready")
    /\ UNCHANGED <<left, failed>>

SeesEOF ==
    /\ child = "waiting" /\ ~stdin
    /\ child' = "stopping"
    /\ Says(out) /\ UNCHANGED <<left, failed>>

\* srv.Close, within its shutdown timeout.
StopsServing ==
    /\ child = "stopping"
    /\ child' = "removing"
    /\ Says(out) /\ UNCHANGED <<left, failed>>

Removes ==
    /\ child = "removing"
    /\ IF "socket" \in dir
       THEN dir' = dir \ {"socket"} /\ child' = child
       ELSE dir' = {} /\ child' = "exited"
    /\ UNCHANGED <<mping, service, stdin, out, line, left, failed>>

ChildDies ==
    /\ Alive /\ Fails
    /\ child' = "killed"
    /\ Says(out) /\ UNCHANGED left

--------------------------------------------------------------------------

MpingStep ==
    \/ ListenWebSocket \/ ServeBackend \/ Spawn \/ ReaderDelivers \/ Ready
    \/ StartFails \/ Reaped \/ CleansUp
    \/ FrontendGone \/ CloseTimesOut \/ ClosesBackend \/ RemovesDir

ChildStep ==
    \/ DropTo \/ StartFrontend \/ Reports \/ SeesEOF \/ StopsServing \/ Removes

\* The run reads files, writes reports and opens sockets while the web UI is
\* up; a crash takes the callers with it.
ByProcesses(A) == A /\ UNCHANGED privVars
ByCallers(A) == mping # "crashed" /\ A /\ UNCHANGED webVars

ProcessNext ==
    \/ ByProcesses(MpingStep \/ Closes \/ Crash \/ ChildStep \/ ChildDies)
    \/ \E r \in Reals :
          ByCallers((mping = "running" /\ ReadsUser(r)) \/ Lock(r) \/ AsRealUserStep(r))
    \/ \E w \in Raws : ByCallers((mping = "running" /\ RLock(w)) \/ RUnlock(w))

ProcessSpec == ProcessInit /\ [][ProcessNext]_processVars

\* mping's steps and timers are taken, and so are the child's on its way out;
\* Go's mutex is starvation-free.  The child may hang while it starts, and
\* nothing need call AsRealUser or Privileged, close the web UI, crash or die.
ProcessFairSpec ==
    /\ ProcessSpec
    /\ WF_processVars(ByProcesses(MpingStep))
    /\ WF_processVars(ByProcesses(SeesEOF \/ StopsServing \/ Removes))
    /\ \A r \in Reals :
          WF_processVars(ByCallers(AsRealUserStep(r))) /\ SF_processVars(ByCallers(Lock(r)))
    /\ \A w \in Raws : WF_processVars(ByCallers(RUnlock(w)))

--------------------------------------------------------------------------
(* Properties *)

\* The socket is inside the directory.
Dirs == {{}, {"dir"}, {"dir", "socket"}}

WebTypeOK ==
    /\ mping \in {"token", "serve", "spawn", "starting", "reap", "cleanup",
                  "failed", "running", "closing", "closeBackend",
                  "removeDir", "closed", "crashed"}
    /\ child \in {"none", "started", "listening", "reporting", "waiting",
                  "stopping", "removing", "exited", "killed"}
    /\ dir \in Dirs
    /\ service \in {"none", "serving", "closed"}
    /\ stdin \in BOOLEAN /\ out \in {"empty", "ready", "error"}
    /\ line \in {"none", "empty", "ready", "error"}
    /\ left \subseteq Kinds

\* Every variable keeps its type.
ProcessTypeOK == PrivTypeOK /\ WebTypeOK

\* A child that serves kept no privilege: every way DropTo can fail, or the
\* kernel leave something, ends it before it listens (runWebProcess, DropTo).
\* When mping is installed setgid only, the saved group ID may stay.
ServesUnprivileged ==
    Serving => left = {} \/ (left = {"group"} /\ SetGid /\ ~SetUid)

\* While the frontend serves a living mping the backend serves too, so an
\* open stream can fetch the final state (webUI.Close's order).
BackendOutlivesFrontend ==
    Serving /\ mping # "crashed" => service = "serving"

\* A start that failed, or a Close that returned, leaves no child, no
\* directory and no backend, even when "ready" came just as the start timed
\* out or the child hung (spawnWebProcess's fail, startSplitWebUI, Close).
EndLeavesNothing ==
    mping \in {"failed", "closed"} => ~Alive /\ dir = {} /\ service # "serving"

\* Every call of AsRealUser or Privileged returns, whoever else holds or waits
\* for the lock, unless mping is killed.
CallsReturn ==
    /\ \A r \in Reals : real[r] = "wants" ~> real[r] = "idle" \/ mping = "crashed"
    /\ \A w \in Raws : raw[w] = "wants" ~> raw[w] = "idle" \/ mping = "crashed"

\* Starting and closing the web UI end, whatever the child does.
StartAndCloseEnd ==
    mping \in {"starting", "closing"}
        ~> mping \in {"running", "failed", "closed", "crashed"}

\* A child that serves ends when mping is killed, and removes the socket and
\* the directory unless it is killed itself (runWebProcess's EOF on stdin).
CrashIsCleanedUp ==
    (mping = "crashed" /\ child = "waiting")
        ~> (child = "exited" /\ dir = {}) \/ child = "killed"

\* The web process holds no privilege while it serves, is served by mping for
\* as long as it serves, and leaves nothing behind when mping is done with it.
WebProcessIsContained ==
    /\ ProcessTypeOK
    /\ ServesUnprivileged /\ BackendOutlivesFrontend /\ EndLeavesNothing

\* Starting, closing, dying and waiting for the privilege lock all come to an
\* end, whoever hangs or is killed.
ProcessesSettle == CallsReturn /\ StartAndCloseEnd /\ CrashIsCleanedUp
==========================================================================
