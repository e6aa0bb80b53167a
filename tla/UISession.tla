----------------------------- MODULE UISession -----------------------------
(* ui/session.go and run_support.go: the goroutines of one Run.  The event   *)
(* loop never blocks: it hands operations to the worker's queue and gets     *)
(* results, refreshes and log lines back through the mailbox, whose delivery *)
(* a private wake key asks for.                                              *)
(*                                                                           *)
(* tview draws after every event; the screen's own event queue may be full   *)
(* when the wake key is posted, and then holds events that end in a draw.    *)
EXTENDS Naturals, Sequences, FiniteSets

CONSTANTS
    TaskCap,     \* capacity of tasks (sessionQueueSize in the code)
    MailCap,     \* capacity of updates
    MaxDrops     \* bound: wake keys that find the screen's queue full

VARIABLES
    over,        \* session.done is closed
    app,         \* tview's loop: "running", "stopped", "joining", "returned"
    tasks,       \* operations queued for the worker
    worker,      \* "idle", "running", "posting" or "gone"
    job,         \* the operation the worker has
    mail,        \* updates posted for the event loop
    deliver,     \* updates the wake key being handled may still deliver
    wake,        \* a wake key is in the screen's queue
    crowded,     \* the screen's queue is full of other events
    drops,
    refresh,     \* the refresh goroutine: "select", a message it posts, "gone"
    closeAsked,  \* a value is ready on externalCloseCh
    logged       \* a line is ready on externalLogCh

sessionVars == <<over, app, tasks, worker, job, mail, deliver, wake, crowded,
                 drops, refresh, closeAsked, logged>>

NoJob == [op |-> "none", id |-> 0, ok |-> FALSE]

Message(kind) == [op |-> kind, id |-> 0, ok |-> TRUE]

SessionInit ==
    /\ over = FALSE /\ app = "running"
    /\ tasks = <<>> /\ worker = "idle" /\ job = NoJob
    /\ mail = <<>> /\ deliver = 0
    /\ wake = FALSE /\ crowded = FALSE /\ drops = 0
    /\ refresh = "select"
    /\ closeAsked = FALSE /\ logged = FALSE

\* A screen whose queue is full drops the key; what fills it leads to a draw.
PostsWake ==
    \/ wake' = TRUE /\ UNCHANGED <<crowded, drops>>
    \/ /\ drops < MaxDrops /\ drops' = drops + 1
       /\ crowded' = TRUE
       /\ UNCHANGED wake

\* A before-draw hook that does not look at the mailbox.
NotLooked == FALSE

Undelivered == mail # <<>>

\* bind's before-draw hook.
Draws(pending) ==
    IF pending THEN PostsWake ELSE UNCHANGED <<wake, crowded, drops>>

Submits(op, id) == tasks' = Append(tasks, [op |-> op, id |-> id, ok |-> FALSE])

\* Submit: never blocks; refused when the queue is full or the session over.
Submittable == ~over /\ Len(tasks) < TaskCap

--------------------------------------------------------------------------
(* The worker *)

\* done is closed: what is still queued is dropped.
WorkerStops ==
    /\ worker = "idle" /\ over
    /\ worker' = "gone" /\ tasks' = <<>>
    /\ UNCHANGED <<over, app, job, mail, deliver, wake, crowded, drops,
                   refresh, closeAsked, logged>>

WorkerTakes ==
    /\ worker = "idle" /\ ~over /\ tasks # <<>>
    /\ worker' = "running" /\ job' = Head(tasks)
    /\ tasks' = Tail(tasks)
    /\ UNCHANGED <<over, app, mail, deliver, wake, crowded, drops, refresh,
                   closeAsked, logged>>

\* The callback returned: resets report nothing, and neither does adding a
\* host that was accepted.
CallbackReturns(ok) ==
    /\ worker = "running"
    /\ IF job.op = "reset" \/ (job.op = "add" /\ ok)
       THEN worker' = "idle" /\ job' = NoJob
       ELSE worker' = "posting" /\ job' = [job EXCEPT !.ok = ok]
    /\ UNCHANGED <<over, app, tasks, mail, deliver, wake, crowded, drops,
                   refresh, closeAsked, logged>>

(* Post *)

\* Room in the mailbox, or the end of the session, releases the producer.
Posts(m) ==
    IF over THEN UNCHANGED <<mail, wake, crowded, drops>>
    ELSE /\ Len(mail) < MailCap
         /\ mail' = Append(mail, m)
         /\ PostsWake

WorkerPosts ==
    /\ worker = "posting"
    /\ Posts(job)
    /\ worker' = "idle" /\ job' = NoJob
    /\ UNCHANGED <<over, app, tasks, deliver, refresh, closeAsked, logged>>

--------------------------------------------------------------------------
(* The refresh loop: one select over the ticker, the two channels and done *)

\* A tick that redraws, or a reached count, whose update also redraws.
\* Ticks that come once the session is over post nothing and are left out.
Ticks ==
    /\ refresh = "select" /\ ~over
    /\ refresh' = "update"
    /\ UNCHANGED <<over, app, tasks, worker, job, mail, deliver, wake, crowded,
                   drops, closeAsked, logged>>

TakesLog ==
    /\ refresh = "select" /\ ~over /\ logged
    /\ refresh' = "log" /\ logged' = FALSE
    /\ UNCHANGED <<over, app, tasks, worker, job, mail, deliver, wake, crowded,
                   drops, closeAsked>>

SeesClose ==
    /\ refresh = "select" /\ closeAsked
    /\ refresh' = "close"
    /\ UNCHANGED <<over, app, tasks, worker, job, mail, deliver, wake, crowded,
                   drops, closeAsked, logged>>

RefreshPosts ==
    /\ refresh \notin {"select", "gone"}
    /\ Posts(Message(refresh))
    /\ refresh' = IF refresh = "close" THEN "gone" ELSE "select"
    /\ UNCHANGED <<over, app, tasks, worker, job, deliver, closeAsked, logged>>

RefreshStops ==
    /\ refresh = "select" /\ over
    /\ refresh' = "gone"
    /\ UNCHANGED <<over, app, tasks, worker, job, mail, deliver, wake, crowded,
                   drops, closeAsked, logged>>

\* A reload or a deadline asks for the close; log lines come.
Signalled ==
    /\ ~over
    /\ \/ closeAsked' = TRUE /\ UNCHANGED logged
       \/ logged' = TRUE /\ UNCHANGED closeAsked
    /\ UNCHANGED <<over, app, tasks, worker, job, mail, deliver, wake, crowded,
                   drops, refresh>>

--------------------------------------------------------------------------
(* The event loop and Run *)

Handling == app = "running" /\ deliver = 0

\* bind: one wake key delivers what the mailbox held when it came.
Batch == Len(mail)

WakeKey ==
    /\ Handling /\ wake
    /\ deliver' = Batch
    /\ wake' = FALSE
    /\ UNCHANGED <<over, app, tasks, worker, job, mail, crowded, drops, refresh,
                   closeAsked, logged>>

\* The events that crowded the screen's queue are handled, and drawn.
OtherEvent ==
    /\ Handling /\ crowded
    /\ crowded' = FALSE
    /\ wake' = (wake \/ Undelivered)
    /\ UNCHANGED <<over, app, tasks, worker, job, mail, deliver, drops, refresh,
                   closeAsked, logged>>

\* app.Run returned: Run stops the session, and then joins its goroutines.
\* Nobody looks at the mailbox and the screen's queue any more.
EndsSession ==
    /\ app' = "joining" /\ over' = TRUE
    /\ mail' = <<>> /\ deliver' = 0 /\ wake' = FALSE /\ crowded' = FALSE
    /\ closeAsked' = FALSE /\ logged' = FALSE
    /\ UNCHANGED <<tasks, worker, job, drops, refresh>>

AppStopped == app = "stopped" /\ EndsSession

\* Ctrl-C, or a terminal that fails.
TerminalEnds == Handling /\ EndsSession

RunReturns ==
    /\ app = "joining" /\ worker = "gone" /\ refresh = "gone"
    /\ app' = "returned"
    /\ UNCHANGED <<over, tasks, worker, job, mail, deliver, wake, crowded,
                   drops, refresh, closeAsked, logged>>
==========================================================================
