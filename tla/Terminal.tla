----------------------------- MODULE Terminal -----------------------------
(* The TUI of one Run over a supervisor that others change too: the state    *)
(* machine of the stop and restart keys (ui/input_handler.go), the selection *)
(* and the pages and dialogs on top of each other (ui/tui_app.go,            *)
(* delete_dialog.go, report_dialog.go, web_access.go, details.go).           *)
(*                                                                           *)
(* view is what the event loop alone touches; the operators on it are the    *)
(* functions of tui.  Panes other than the table and columns are left out.   *)
EXTENDS UISession, SequencesExt

CONSTANTS
    MaxKeys,     \* bound: keys pressed
    MaxChanges,  \* bound: changes by a browser, a reload or a reached count
    MaxID        \* bound: targets ever added

ASSUME TerminalAssumption ==
    /\ {TaskCap, MailCap} \subseteq Nat \ {0}
    /\ {MaxDrops, MaxKeys, MaxChanges} \subseteq Nat
    /\ MaxID \in Nat /\ MaxID >= 2

VARIABLES
    sup,         \* "running", or "stopped": by a user or because it finished
    live,        \* the supervisor's target list
    lastID,
    state,       \* inputHandler.state
    view,
    keys, changes

uiVars == <<sup, live, lastID, state, view, keys, changes>>

vars == <<over, app, tasks, worker, job, mail, deliver, wake, crowded, drops,
          refresh, closeAsked, logged,
          sup, live, lastID, state, view, keys, changes>>

NoDelete == [open |-> FALSE, id |-> 0, last |-> FALSE, focus |-> "table"]

NoWeb == [open |-> FALSE, focus |-> "table"]

\* No selection yet, nothing open.
NoView(shown) ==
    [shown |-> shown, sel |-> 0, details |-> 0,
     report |-> FALSE, delete |-> NoDelete, web |-> NoWeb,
     page |-> "main", top |-> {}, focus |-> "table"]

\* SwitchToPage hides every other page.
Switch(v, page, focus) == [v EXCEPT !.page = page, !.top = {}, !.focus = focus]

\* The main page, the details of a target, or the save dialog over them.
Init ==
    /\ SessionInit
    /\ sup = "running" /\ live = <<1, 2>> /\ lastID = 2
    /\ state = "running" /\ keys = 0 /\ changes = 0
    /\ LET main == NoView(live)
           details == Switch([main EXCEPT !.sel = 1, !.details = 1],
                             "details", "text")
       IN  view \in {main, details,
                     Switch([details EXCEPT !.report = TRUE], "saveReport", "report")}

--------------------------------------------------------------------------
(* What the event loop does to its widgets *)

DialogOpen(v) == v.report \/ v.delete.open \/ v.web.open

CloseDetails(v) ==
    LET closed == [v EXCEPT !.details = 0]
    IN  IF DialogOpen(v) THEN closed ELSE Switch(closed, "main", "table")

\* tr.update: the list is pulled, the selection kept or moved to the first
\* target, and details of a target that is gone are closed.
Update(v) ==
    LET u == [v EXCEPT !.shown = live,
                       !.sel = IF v.sel \in Range(live) THEN v.sel ELSE Head(live)]
    IN  IF u.details \notin Range(live) \cup {0} THEN CloseDetails(u) ELSE u

OpenDetails(v) ==
    LET u == Update(v) IN Switch([u EXCEPT !.details = u.sel], "details", "text")

Place(id) == CHOOSE i \in DOMAIN live : live[i] = id

\* moveSelection; the index of a target that is gone counts as the first.
Move(v, step) ==
    LET at == IF v.sel \in Range(live) THEN Place(v.sel) ELSE 1
        to == IF at + step \in DOMAIN live THEN at + step ELSE at
    IN  Update([v EXCEPT !.sel = live[to]])

ShowDelete(v, id, last) ==
    IF v.delete.open THEN v
    ELSE [v EXCEPT !.delete = [open |-> TRUE, id |-> id, last |-> last,
                               focus |-> v.focus],
                   !.top = @ \cup {"delete"}, !.focus = "delete"]

\* A deleteSelected that reads the selection after the refresh.
DeleteRefreshed(v) ==
    LET u == Update(v)
        id == IF u.details # 0 THEN u.details ELSE u.sel
    IN  ShowDelete(u, id, Len(u.shown) = 1)

\* deleteSelected: the target is chosen before the list is refreshed.
DeleteSelected(v) ==
    LET u == Update(v)
        chosen == IF v.details # 0 THEN v.details ELSE v.sel
        id == IF chosen = 0 THEN u.sel ELSE chosen
    IN  IF id \in Range(u.shown) THEN ShowDelete(u, id, Len(u.shown) = 1) ELSE u

RestoreFocus(v, focus) ==
    IF v.details = 0 /\ focus = "text" THEN Switch(v, "main", "table")
    ELSE [v EXCEPT !.focus = focus]

CloseDelete(v) ==
    RestoreFocus([v EXCEPT !.delete.open = FALSE, !.top = @ \ {"delete"}],
                 v.delete.focus)

ShowWeb(v) ==
    [v EXCEPT !.web = [open |-> TRUE, focus |-> v.focus],
              !.top = @ \cup {"web"}, !.focus = "web"]

CloseWeb(v) ==
    RestoreFocus([v EXCEPT !.web.open = FALSE, !.top = @ \ {"web"}], v.web.focus)

ShowReport(v) == Switch([v EXCEPT !.report = TRUE], "saveReport", "report")

CloseReport(v) ==
    LET c == [v EXCEPT !.report = FALSE]
    IN  IF v.details # 0 THEN Switch(c, "details", "text")
        ELSE Switch(c, "main", "table")

--------------------------------------------------------------------------
(* Keys.  Each is one event: handled, then drawn. *)

Pressed == Handling /\ ~over /\ keys < MaxKeys /\ keys' = keys + 1

\* What a key leaves alone in the session, apart from the task queue.
KeyOnly == /\ Draws(Undelivered)
           /\ UNCHANGED <<worker, job, mail, deliver, refresh, closeAsked,
                          logged, sup, live, lastID, changes>>

Stays == UNCHANGED <<over, app>>

Dialog == DialogOpen(view)

Typing == view.focus = "add"

\* handle: the state follows the supervisor unless an operation is queued.
Synced == IF state \in {"running", "stopped"}
          THEN IF sup = "running" THEN "running" ELSE "stopped"
          ELSE state

\* An operation is queued, or refused and only logged.
Asks(op, id) ==
    IF Submittable THEN Submits(op, id) ELSE UNCHANGED tasks

Quits == over' = TRUE /\ app' = "stopped" /\ UNCHANGED tasks

\* 'a', and Enter or Escape in the input field.
AddKey ==
    /\ Pressed /\ ~Dialog /\ Stays
    /\ \/ /\ ~Typing /\ view.details = 0
          /\ view' = [view EXCEPT !.focus = "add"]
          /\ UNCHANGED tasks
       \/ /\ Typing
          /\ view' = [view EXCEPT !.focus = "table"]
          /\ Asks("add", 0) \/ UNCHANGED tasks
    /\ state' = Synced /\ KeyOnly

\* Enter, the arrows, 'd', 'b', 'w' and Escape outside a dialog.
ViewKey ==
    /\ Pressed /\ ~Dialog /\ ~Typing /\ Stays
    /\ \/ view' = ShowWeb(view) /\ UNCHANGED state
       \/ view' = ShowReport(view) /\ UNCHANGED state
       \/ view' = DeleteSelected(view)
          /\ state' = IF view.details = 0 THEN Synced ELSE state
       \/ view.details # 0 /\ view' = CloseDetails(view) /\ UNCHANGED state
       \/ view.details = 0 /\ view' = OpenDetails(view) /\ state' = Synced
       \/ /\ view.details = 0 /\ state' = Synced
          /\ \E step \in {-1, 1} : view' = Move(view, step)
    /\ UNCHANGED tasks /\ KeyOnly

\* Keys of the delete dialog: confirm (when not the last host), cancel, and
\* 'q' on the last host.
DeleteDialogKey ==
    /\ Pressed /\ view.delete.open
    /\ \/ /\ ~view.delete.last
          /\ view' = CloseDelete(view)
          /\ Asks("delete", view.delete.id) /\ Stays
       \/ view' = CloseDelete(view) /\ Stays /\ UNCHANGED tasks
       \/ view.delete.last /\ Quits /\ UNCHANGED view
    /\ UNCHANGED state /\ KeyOnly

\* Keys of the save and the access dialogs, when no delete dialog is on top;
\* a save the queue refuses leaves its dialog open.
OtherDialogKey ==
    /\ Pressed /\ ~view.delete.open /\ Stays
    /\ \/ /\ view.report
          /\ view' = IF Submittable THEN CloseReport(view) ELSE view
          /\ Asks("save", 0)
       \/ view.report /\ view' = CloseReport(view) /\ UNCHANGED tasks
       \/ ~view.report /\ view.web.open /\ view' = CloseWeb(view) /\ UNCHANGED tasks
    /\ UNCHANGED state /\ KeyOnly

\* 's', only from running.
StopKey ==
    /\ Pressed /\ ~Dialog /\ ~Typing /\ Stays
    /\ IF Synced = "running" /\ Submittable
       THEN state' = "stopping" /\ Submits("stop", 0)
       ELSE state' = Synced /\ UNCHANGED tasks
    /\ UNCHANGED view /\ KeyOnly

\* 'S', from stopped, or behind a stop that is still in progress.
RestartKey ==
    /\ Pressed /\ ~Dialog /\ ~Typing /\ Stays
    /\ IF Synced \in {"stopping", "stopped"} /\ Submittable
       THEN state' = "restarting" /\ Submits("restart", 0)
       ELSE state' = Synced /\ UNCHANGED tasks
    /\ UNCHANGED view /\ KeyOnly

ResetKey ==
    /\ Pressed /\ ~Dialog /\ ~Typing /\ Stays
    /\ state' = Synced /\ Asks("reset", 0)
    /\ UNCHANGED view /\ KeyOnly

QuitKey ==
    /\ Pressed /\ ~Dialog /\ ~Typing
    /\ Quits /\ state' = Synced
    /\ UNCHANGED view /\ KeyOnly

--------------------------------------------------------------------------
(* Updates delivered by the wake key *)

\* The result of a stop, delivered after a restart was asked for.
StopDoneAlways(m) == "stopped"

StopDone(m) == IF state = "stopping" THEN "stopped" ELSE state

Result(m) ==
    CASE m.op = "stop"    -> StopDone(m)
      [] m.op = "restart" -> IF m.ok THEN "running" ELSE "stopped"
      [] OTHER            -> state

\* A deletion refused because the target is the last one is explained.
Shows(m) ==
    LET u == Update(view)
    IN  CASE m.op = "update" -> u
          [] m.op = "delete" ->
               IF ~m.ok /\ u.shown = <<m.id>> THEN ShowDelete(u, m.id, TRUE) ELSE u
          [] OTHER -> view

Deliver ==
    /\ app = "running" /\ deliver > 0 /\ mail # <<>>
    /\ LET m == Head(mail)
       IN  /\ mail' = Tail(mail)
           /\ deliver' = IF m.op = "close" THEN 0 ELSE deliver - 1
           /\ state' = Result(m) /\ view' = Shows(m)
           /\ over' = (m.op = "close")
           /\ app' = IF m.op = "close" THEN "stopped" ELSE app
    /\ Draws(deliver' = 0 /\ mail' # <<>> /\ ~over')
    /\ UNCHANGED <<tasks, worker, job, refresh, closeAsked, logged,
                   sup, live, lastID, keys, changes>>

--------------------------------------------------------------------------
(* The callbacks, and what others do to the supervisor.  Whether a save     *)
(* succeeded only changes what is said about it.                            *)

AddsHost == lastID < MaxID /\ lastID' = lastID + 1 /\ live' = Append(live, lastID')

RemovesHost(id) ==
    id \in Range(live) /\ Len(live) > 1 /\ live' = RemoveAt(live, Place(id))

CallbackRuns ==
    /\ \/ /\ job.op = "stop" /\ sup' = "stopped" /\ UNCHANGED <<live, lastID>>
          /\ CallbackReturns(TRUE)
       \/ /\ job.op = "restart" /\ UNCHANGED <<live, lastID>>
          /\ \E ok \in BOOLEAN :
                /\ sup' = IF ok THEN "running" ELSE sup
                /\ CallbackReturns(ok)
       \/ /\ job.op = "add" /\ UNCHANGED sup
          /\ \/ AddsHost /\ CallbackReturns(TRUE)
             \/ UNCHANGED <<live, lastID>> /\ CallbackReturns(FALSE)
       \/ /\ job.op = "delete" /\ UNCHANGED <<sup, lastID>>
          /\ IF job.id \in Range(live) /\ Len(live) > 1
             THEN RemovesHost(job.id) /\ CallbackReturns(TRUE)
             ELSE UNCHANGED live /\ CallbackReturns(FALSE)
       \/ /\ job.op \in {"reset", "save"} /\ UNCHANGED <<sup, live, lastID>>
          /\ CallbackReturns(TRUE)
    /\ UNCHANGED <<state, view, keys, changes>>

\* A browser or a reload edits the list, stops or restarts; a count is reached.
OthersChange ==
    /\ changes < MaxChanges /\ changes' = changes + 1 /\ ~over
    /\ \/ sup' \in {"running", "stopped"} \ {sup} /\ UNCHANGED <<live, lastID>>
       \/ AddsHost /\ UNCHANGED sup
       \/ \E id \in Range(live) : RemovesHost(id) /\ UNCHANGED <<sup, lastID>>
    /\ UNCHANGED <<state, view, keys>> /\ UNCHANGED sessionVars

--------------------------------------------------------------------------

Key == \/ AddKey \/ ViewKey \/ DeleteDialogKey \/ OtherDialogKey
       \/ StopKey \/ RestartKey \/ ResetKey \/ QuitKey

\* With the loop its widgets are gone.
UIGone ==
    /\ AppStopped \/ TerminalEnds
    /\ view' = NoView(live) /\ state' = "running"
    /\ keys' = MaxKeys /\ changes' = MaxChanges
    /\ UNCHANGED <<sup, live, lastID>>

LoopStep == WakeKey \/ OtherEvent \/ RunReturns

WorkerStep == WorkerStops \/ WorkerTakes \/ WorkerPosts

Next ==
    \/ Key \/ Deliver \/ CallbackRuns \/ OthersChange \/ UIGone
    \/ /\ \/ LoopStep \/ WorkerStep \/ Signalled
          \/ Ticks \/ TakesLog \/ SeesClose \/ RefreshPosts \/ RefreshStops
       /\ UNCHANGED uiVars

Spec == Init /\ [][Next]_vars

\* Goroutines are scheduled, callbacks return, a channel serves the senders
\* that wait for it in turn, and the refresh loop's select is fair among its
\* ready channels.  Nobody need press a key.
FairSpec ==
    /\ Spec
    /\ WF_vars(LoopStep /\ UNCHANGED uiVars) /\ WF_vars(Deliver)
    /\ WF_vars(UIGone /\ app = "stopped")
    /\ WF_vars((WorkerStops \/ WorkerTakes) /\ UNCHANGED uiVars)
    /\ WF_vars(CallbackRuns)
    /\ SF_vars(WorkerPosts /\ UNCHANGED uiVars)
    /\ WF_vars((RefreshPosts \/ RefreshStops) /\ UNCHANGED uiVars)
    /\ SF_vars(SeesClose /\ UNCHANGED uiVars)

--------------------------------------------------------------------------
(* Properties *)

Operations == {"stop", "restart", "add", "delete", "save", "reset"}
Jobs == [op : Operations, id : Nat, ok : BOOLEAN]
Messages == [op : Operations \cup {"update", "log", "close"}, id : Nat, ok : BOOLEAN]

Focuses == {"table", "text", "add", "delete", "web", "report"}
Views ==
    [shown : Seq(Nat), sel : Nat, details : Nat, report : BOOLEAN,
     delete : [open : BOOLEAN, id : Nat, last : BOOLEAN, focus : Focuses],
     web : [open : BOOLEAN, focus : Focuses],
     page : {"main", "details", "saveReport"}, top : SUBSET {"delete", "web"},
     focus : Focuses]

TypeOK ==
    /\ over \in BOOLEAN /\ wake \in BOOLEAN /\ crowded \in BOOLEAN
    /\ app \in {"running", "stopped", "joining", "returned"}
    /\ tasks \in Seq(Jobs) /\ Len(tasks) <= TaskCap
    /\ mail \in Seq(Messages) /\ Len(mail) <= MailCap /\ deliver \in Nat
    /\ worker \in {"idle", "running", "posting", "gone"}
    /\ job \in IF worker \in {"running", "posting"} THEN Jobs ELSE {NoJob}
    /\ state \in {"running", "stopping", "stopped", "restarting"}
    /\ refresh \in {"select", "update", "log", "close", "gone"}
    /\ live \in Seq(1 .. MaxID) /\ live # <<>> /\ lastID \in 2 .. MaxID
    /\ view \in Views

\* The operations in progress, oldest first: those whose results wait for
\* delivery, the running one, and the queued ones.
InFlight == IF worker \in {"running", "posting"} THEN <<job>> ELSE <<>>
Line == mail \o InFlight \o tasks
Underway(op) == {i \in DOMAIN Line : Line[i].op = op}

\* The handler waits for an operation only while it is on its way, a restart
\* is never overtaken by the stop it follows, and an idle handler has nothing
\* pending; whether the queue was full, whatever was pressed in between
\* (input_handler.go: stop, restart, and their results).
StateFollowsOperations ==
    LET stops == Underway("stop")
        restarts == Underway("restart")
    IN  ~over =>
        \/ state = "stopping" /\ restarts = {} /\ \E i \in stops : stops = {i}
        \/ /\ state = "restarting"
           /\ \E j \in restarts : restarts = {j} /\ \A i \in stops : i < j
           /\ stops = {} \/ \E i \in stops : stops = {i}
        \/ state \in {"running", "stopped"} /\ stops = {} /\ restarts = {}

\* The wake handler never waits on an empty mailbox (bind's bounded delivery).
DeliveryNeverBlocks == app = "running" => deliver <= Len(mail)

\* Keys go to what the user sees: an open dialog is on top and has the focus,
\* and without one the focus is on the page that is showing, also when the
\* target of the details page disappears under a dialog (closeDetails,
\* restoreFocus, handleKey).
KeysGoWhereShown ==
    CASE view.delete.open -> "delete" \in view.top /\ view.focus = "delete"
      [] ~view.delete.open /\ view.report ->
           view.page = "saveReport" /\ view.focus = "report"
      [] ~view.delete.open /\ ~view.report /\ view.web.open ->
           "web" \in view.top /\ view.focus = "web"
      [] OTHER -> IF view.details # 0
                  THEN view.page = "details" /\ view.focus = "text"
                  ELSE view.page = "main" /\ view.focus \in {"table", "add"}

\* A delete dialog opened by a key names the target that was highlighted, or
\* whose details were open, when the key was pressed, even if the refresh the
\* key does replaces the selection (deleteSelected).
DialogNamesHighlighted ==
    [][keys' # keys /\ ~view.delete.open /\ view'.delete.open =>
         view'.delete.id = IF view.details # 0 THEN view.details
                           ELSE IF view.sel # 0 THEN view.sel ELSE Head(live)]_vars

\* An operation that was accepted is carried out and its result reaches the
\* handler, also when the wake key is dropped or the mailbox is full, unless
\* the session ends.
OperationsSettle ==
    state \in {"stopping", "restarting"} ~> state \in {"running", "stopped"} \/ over

\* A Run that is stopped, or asked to close by a reload, returns: neither a
\* full mailbox nor a callback in progress holds a goroutine back.
RunEnds == (over \/ closeAsked) ~> app = "returned"

\* The handler's state and the session's queues agree, and the focus is where the
\* user sees it, in every interleaving of keys, callbacks and deliveries.
StateIsConsistent ==
    /\ TypeOK
    /\ StateFollowsOperations /\ DeliveryNeverBlocks
    /\ KeysGoWhereShown

\* What was asked for is done or the session ends, and then it ends altogether.
SessionSettles == OperationsSettle /\ RunEnds
==========================================================================
