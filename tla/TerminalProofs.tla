--------------------------- MODULE TerminalProofs ---------------------------
(***************************************************************************)
(* Theorems of Terminal, for every capacity of its queues, every number of *)
(* keys, targets and changes by others.                                    *)
(***************************************************************************)
EXTENDS Terminal, SequenceTheorems, TLAPS

-----------------------------------------------------------------------------
(* The invariant: where the keys go.                                       *)

\* What has the focus when no delete dialog is open.
OnTop(v, f) ==
    /\ v.report => v.page = "saveReport" /\ f = "report"
    /\ v.web.open => "web" \in v.top /\ f = "web"
    /\ ~v.report /\ ~v.web.open =>
         IF v.details # 0 THEN v.page = "details" /\ f = "text"
         ELSE v.page = "main" /\ f \in {"table", "add"}

\* The page under a dialog may show a target that was removed meanwhile.
Orphaned(v, f) == v.details = 0 /\ f = "text"
Under(v, f) ==
    \/ Orphaned(v, f)
    \/ IF v.details # 0 THEN v.page = "details" /\ f = "text"
       ELSE v.page = "main" /\ f \in {"table", "add"}

Seen(v) ==
    /\ ~(v.report /\ v.web.open)
    /\ ~v.delete.open => OnTop(v, v.focus)
    /\ v.delete.open =>
         /\ "delete" \in v.top /\ v.focus = "delete"
         /\ OnTop(v, v.delete.focus) \/
              (~v.report /\ ~v.web.open /\ Orphaned(v, v.delete.focus))
    /\ v.web.open => Under(v, v.web.focus)

\* A view that is well formed.
Good(v) == v \in Views /\ Seen(v)

-----------------------------------------------------------------------------
(* What the event loop does to its widgets.                                *)

Listed == live \in Seq(1 .. MaxID) /\ live # <<>>

LEMMA HostsAre ==
    ASSUME Listed
    PROVE  /\ Range(live) \subseteq 1 .. MaxID /\ Range(live) # {} /\ MaxID \in Nat
           /\ Head(live) \in Range(live) /\ \A i \in DOMAIN live : live[i] \in Range(live)
<1>1. MaxID \in Nat
  BY TerminalAssumption
<1>2. Len(live) \in Nat \ {0} /\ DOMAIN live = 1 .. Len(live)
  BY DEF Listed
<1>3. \A i \in DOMAIN live : live[i] \in 1 .. MaxID
  BY <1>2, ElementOfSeq DEF Listed
<1>4. Head(live) = live[1] /\ 1 \in DOMAIN live
  BY <1>2 DEF Listed
<1> QED BY <1>1, <1>2, <1>3, <1>4 DEF Range

LEMMA DetailsClosed ==
    ASSUME NEW v, Good(v)
    PROVE  CloseDetails(v) \in Views /\ Seen(CloseDetails(v)) /\ CloseDetails(v).delete = v.delete
<1> DEFINE c == [v EXCEPT !.details = 0]
<1>1. v \in Views /\ Seen(v)
  BY DEF Good
<1>2. /\ c \in Views /\ c.details = 0 /\ c.report = v.report /\ c.web = v.web /\ c.delete = v.delete
      /\ c.page = v.page /\ c.top = v.top /\ c.focus = v.focus
  BY <1>1 DEF Views
<1>3. CASE DialogOpen(v)
  <2>1. CloseDetails(v) = c
    BY <1>3 DEF CloseDetails
  <2>2. Seen(c)
    BY <1>1, <1>2, <1>3 DEF Seen, OnTop, Under, Orphaned, DialogOpen
  <2> QED BY <1>2, <2>1, <2>2
<1>4. CASE ~DialogOpen(v)
  <2> DEFINE d == Switch(c, "main", "table")
  <2>1. CloseDetails(v) = d
    BY <1>4 DEF CloseDetails
  <2>2. /\ d \in Views /\ d.details = 0 /\ d.report = c.report /\ d.web = c.web /\ d.delete = c.delete
        /\ d.page = "main" /\ d.focus = "table"
    BY <1>2 DEF Switch, Views, Focuses
  <2>3. Seen(d)
    BY <1>2, <1>4, <2>2 DEF Seen, OnTop, DialogOpen
  <2> QED BY <1>2, <2>1, <2>2, <2>3
<1> QED BY <1>3, <1>4

LEMMA Updated ==
    ASSUME Listed, NEW v, Good(v)
    PROVE  /\ Update(v) \in Views /\ Seen(Update(v)) /\ Update(v).delete = v.delete
           /\ Update(v).sel = (IF v.sel \in Range(live) THEN v.sel ELSE Head(live))
           /\ v.details = 0 => Update(v).details = 0 /\ Update(v).report = v.report
                               /\ Update(v).web = v.web /\ Update(v).focus = v.focus
<1> DEFINE sel == IF v.sel \in Range(live) THEN v.sel ELSE Head(live)
<1> DEFINE u == [v EXCEPT !.shown = live, !.sel = sel]
<1>1. v \in Views /\ Seen(v)
  BY DEF Good
<1>2. sel \in Nat /\ live \in Seq(Nat) /\ 0 \notin Range(live)
  <2>1. /\ Range(live) \subseteq 1 .. MaxID /\ MaxID \in Nat /\ Head(live) \in Range(live)
    BY HostsAre
  <2>2. sel \in Nat /\ 0 \notin Range(live)
    BY <2>1
  <2>3. live \in Seq(Nat)
    <3>1. Len(live) \in Nat /\ live \in [1 .. Len(live) -> 1 .. MaxID]
      BY LenProperties DEF Listed
    <3>2. live \in [1 .. Len(live) -> Nat]
      BY <2>1, <3>1
    <3> QED BY <3>1, <3>2, SeqDef
  <2> QED BY <2>2, <2>3
<1> HIDE DEF sel
<1>3. /\ u \in Views /\ u.sel = sel /\ u.details = v.details /\ u.report = v.report /\ u.web = v.web
      /\ u.delete = v.delete /\ u.page = v.page /\ u.top = v.top /\ u.focus = v.focus
  BY <1>1, <1>2 DEF Views
<1>4. Seen(u)
  BY <1>1, <1>3 DEF Seen, OnTop, Under, Orphaned
<1>5. Update(v) = IF u.details \notin Range(live) \cup {0} THEN CloseDetails(u) ELSE u
  BY DEF Update, sel
<1> HIDE DEF u
<1>6. CASE u.details \notin Range(live) \cup {0}
  <2>1. Update(v) = CloseDetails(u)
    BY <1>5, <1>6
  <2>2. CloseDetails(u) \in Views /\ Seen(CloseDetails(u)) /\ CloseDetails(u).delete = u.delete
    BY <1>3, <1>4, DetailsClosed DEF Good
  <2>3. CloseDetails(u).sel = u.sel
    BY <1>3 DEF CloseDetails, Switch, Views
  <2>4. v.details # 0
    BY <1>3, <1>6
  <2> QED BY <1>3, <2>1, <2>2, <2>3, <2>4 DEF sel
<1>7. CASE u.details \in Range(live) \cup {0}
  <2>1. Update(v) = u
    BY <1>5, <1>7
  <2> QED BY <1>3, <1>4, <2>1 DEF sel
<1> QED BY <1>6, <1>7

LEMMA DetailsOpened ==
    ASSUME Listed, NEW v, Good(v), ~DialogOpen(v), v.details = 0
    PROVE  Good(OpenDetails(v)) /\ OpenDetails(v).delete = v.delete
<1> DEFINE u == Update(v)
<1>1. /\ u \in Views /\ u.report = v.report /\ u.web = v.web /\ u.delete = v.delete
      /\ u.sel = (IF v.sel \in Range(live) THEN v.sel ELSE Head(live))
  BY Updated
<1>2. u.sel # 0
  BY <1>1, HostsAre
<1>3. OpenDetails(v) = Switch([u EXCEPT !.details = u.sel], "details", "text")
  BY DEF OpenDetails
<1> HIDE DEF u
<1> DEFINE o == Switch([u EXCEPT !.details = u.sel], "details", "text")
<1>4. /\ o \in Views /\ o.details = u.sel /\ o.report = u.report /\ o.web = u.web /\ o.delete = u.delete
      /\ o.page = "details" /\ o.focus = "text"
  BY <1>1 DEF Views, Focuses, Switch
<1>5. ~o.report /\ ~o.web.open /\ ~o.delete.open
  BY <1>1, <1>4 DEF DialogOpen
<1>6. Seen(o)
  BY <1>2, <1>4, <1>5 DEF Seen, OnTop
<1> QED BY <1>1, <1>3, <1>4, <1>6 DEF Good

LEMMA Moved ==
    ASSUME Listed, NEW v, Good(v), NEW step \in {-1, 1}
    PROVE  Good(Move(v, step)) /\ Move(v, step).delete = v.delete
<1> DEFINE at == IF v.sel \in Range(live) THEN Place(v.sel) ELSE 1
<1> DEFINE to == IF at + step \in DOMAIN live THEN at + step ELSE at
<1>1. at \in DOMAIN live
  <2>1. 1 \in DOMAIN live
    BY DEF Listed
  <2>2. v.sel \in Range(live) => Place(v.sel) \in DOMAIN live
    BY DEF Place, Range
  <2> QED BY <2>1, <2>2
<1> HIDE DEF at
<1>2. to \in DOMAIN live
  BY <1>1
<1> HIDE DEF to
<1>3. live[to] \in Nat
  BY <1>2, HostsAre
<1> DEFINE m == [v EXCEPT !.sel = live[to]]
<1>4. Move(v, step) = Update(m)
  BY DEF Move, at, to
<1>5. /\ m \in Views /\ m.details = v.details /\ m.report = v.report /\ m.web = v.web
      /\ m.delete = v.delete /\ m.page = v.page /\ m.top = v.top /\ m.focus = v.focus
  BY <1>3 DEF Good, Views
<1>6. Good(m)
  BY <1>5 DEF Good, Seen, OnTop, Under, Orphaned
<1> HIDE DEF m
<1>7. Update(m) \in Views /\ Seen(Update(m)) /\ Update(m).delete = m.delete
  BY <1>6, Updated
<1> QED BY <1>4, <1>5, <1>7 DEF Good

LEMMA DeleteShown ==
    ASSUME NEW v, Good(v), ~v.delete.open, NEW id \in Nat, NEW last \in BOOLEAN
    PROVE  Good(ShowDelete(v, id, last)) /\ ShowDelete(v, id, last).delete.open
           /\ ShowDelete(v, id, last).delete.id = id
<1> DEFINE d == [open |-> TRUE, id |-> id, last |-> last, focus |-> v.focus]
<1> DEFINE w == [v EXCEPT !.delete = d, !.top = @ \cup {"delete"}, !.focus = "delete"]
<1>1. v \in Views /\ Seen(v)
  BY DEF Good
<1>2. ShowDelete(v, id, last) = w
  BY DEF ShowDelete
<1>3. d \in [open : BOOLEAN, id : Nat, last : BOOLEAN, focus : Focuses] /\ d.open /\ d.id = id /\ d.focus = v.focus
  BY <1>1 DEF Views
<1> HIDE DEF d
<1>4. /\ w \in Views /\ w.delete = d /\ w.focus = "delete" /\ w.top = v.top \cup {"delete"}
      /\ w.report = v.report /\ w.web = v.web /\ w.details = v.details /\ w.page = v.page
  BY <1>1, <1>3 DEF Views, Focuses
<1>5. Seen(w)
  BY <1>1, <1>3, <1>4 DEF Seen, OnTop, Under, Orphaned
<1> QED BY <1>2, <1>3, <1>4, <1>5 DEF Good

LEMMA DeleteChosen ==
    ASSUME Listed, NEW v, Good(v), ~DialogOpen(v)
    PROVE  /\ Good(DeleteSelected(v))
           /\ DeleteSelected(v).delete.open =>
                DeleteSelected(v).delete.id = IF v.details # 0 THEN v.details
                                              ELSE IF v.sel # 0 THEN v.sel ELSE Head(live)
<1> DEFINE u == Update(v)
<1> DEFINE chosen == IF v.details # 0 THEN v.details ELSE v.sel
<1> DEFINE id == IF chosen = 0 THEN u.sel ELSE chosen
<1> DEFINE last == Len(u.shown) = 1
<1>1. /\ u \in Views /\ Seen(u) /\ u.delete = v.delete
      /\ u.sel = (IF v.sel \in Range(live) THEN v.sel ELSE Head(live))
  BY Updated
<1>2. v \in Views /\ ~v.delete.open
  BY DEF Good, DialogOpen
<1>3. 0 \notin Range(live)
  BY HostsAre
<1>4. id = IF v.details # 0 THEN v.details ELSE IF v.sel # 0 THEN v.sel ELSE Head(live)
  BY <1>1, <1>3
<1>5. id \in Nat
  BY <1>1, <1>2 DEF Views
<1>6. DeleteSelected(v) = IF id \in Range(u.shown) THEN ShowDelete(u, id, last) ELSE u
  BY DEF DeleteSelected
<1>7. last \in BOOLEAN
  OBVIOUS
<1> HIDE DEF u, id, last
<1>8. Good(ShowDelete(u, id, last)) /\ ShowDelete(u, id, last).delete.id = id
  BY <1>1, <1>2, <1>5, <1>7, DeleteShown DEF Good
<1> QED BY <1>1, <1>2, <1>4, <1>6, <1>8 DEF Good

LEMMA FocusRestored ==
    ASSUME NEW v, v \in Views, ~v.delete.open, ~(v.report /\ v.web.open), NEW f \in Focuses,
           OnTop(v, f) \/ (~v.report /\ ~v.web.open /\ Under(v, f)),
           v.web.open => Under(v, v.web.focus)
    PROVE  Good(RestoreFocus(v, f)) /\ RestoreFocus(v, f).delete = v.delete
<1>1. CASE v.details = 0 /\ f = "text"
  <2> DEFINE w == Switch(v, "main", "table")
  <2>1. RestoreFocus(v, f) = w
    BY <1>1 DEF RestoreFocus
  <2>2. ~v.report /\ ~v.web.open
    BY <1>1 DEF OnTop
  <2>3. /\ w \in Views /\ w.details = 0 /\ w.report = v.report /\ w.web = v.web /\ w.delete = v.delete
        /\ w.page = "main" /\ w.focus = "table"
    BY <1>1 DEF Views, Focuses, Switch
  <2>4. Seen(w)
    BY <2>2, <2>3 DEF Seen, OnTop
  <2> QED BY <2>1, <2>3, <2>4 DEF Good
<1>2. CASE ~(v.details = 0 /\ f = "text")
  <2> DEFINE w == [v EXCEPT !.focus = f]
  <2>1. RestoreFocus(v, f) = w
    BY <1>2 DEF RestoreFocus
  <2>2. /\ w \in Views /\ w.details = v.details /\ w.report = v.report /\ w.web = v.web /\ w.delete = v.delete
        /\ w.page = v.page /\ w.top = v.top /\ w.focus = f
    BY DEF Views
  <2>3. Seen(w)
    BY <1>2, <2>2 DEF Seen, OnTop, Under, Orphaned
  <2> QED BY <2>1, <2>2, <2>3 DEF Good
<1> QED BY <1>1, <1>2

LEMMA DeleteClosed ==
    ASSUME NEW v, Good(v), v.delete.open
    PROVE  Good(CloseDelete(v)) /\ ~CloseDelete(v).delete.open
<1> DEFINE c == [v EXCEPT !.delete.open = FALSE, !.top = @ \ {"delete"}]
<1>1. v \in Views /\ Seen(v)
  BY DEF Good
<1>2. /\ c \in Views /\ ~c.delete.open /\ c.report = v.report /\ c.web = v.web /\ c.details = v.details
      /\ c.page = v.page /\ c.top = v.top \ {"delete"}
  BY <1>1 DEF Views
<1>3. v.delete.focus \in Focuses
  BY <1>1 DEF Views
<1>4. CloseDelete(v) = RestoreFocus(c, v.delete.focus)
  BY DEF CloseDelete
<1> HIDE DEF c
<1>5. ~(c.report /\ c.web.open) /\ (c.web.open => Under(c, c.web.focus))
  BY <1>1, <1>2 DEF Seen, Under, Orphaned
<1>6. OnTop(c, v.delete.focus) \/ (~c.report /\ ~c.web.open /\ Under(c, v.delete.focus))
  BY <1>1, <1>2 DEF Seen, OnTop, Under, Orphaned
<1>7. Good(RestoreFocus(c, v.delete.focus)) /\ RestoreFocus(c, v.delete.focus).delete = c.delete
  BY <1>2, <1>3, <1>5, <1>6, FocusRestored
<1> QED BY <1>2, <1>4, <1>7

LEMMA WebShown ==
    ASSUME NEW v, Good(v), ~DialogOpen(v)
    PROVE  Good(ShowWeb(v)) /\ ShowWeb(v).delete = v.delete
<1> DEFINE w == [v EXCEPT !.web = [open |-> TRUE, focus |-> v.focus],
                          !.top = @ \cup {"web"}, !.focus = "web"]
<1>1. v \in Views /\ Seen(v)
  BY DEF Good
<1>2. /\ w \in Views /\ w.web.open /\ w.web.focus = v.focus /\ w.delete = v.delete /\ w.report = v.report
      /\ w.details = v.details /\ w.page = v.page /\ "web" \in w.top /\ w.focus = "web"
  BY <1>1 DEF Views, Focuses
<1>3. ShowWeb(v) = w
  BY DEF ShowWeb
<1>4. Seen(w)
  BY <1>1, <1>2 DEF Seen, OnTop, Under, DialogOpen
<1> QED BY <1>2, <1>3, <1>4 DEF Good

LEMMA WebClosed ==
    ASSUME NEW v, Good(v), v.web.open, ~v.delete.open
    PROVE  Good(CloseWeb(v)) /\ CloseWeb(v).delete = v.delete
<1> DEFINE c == [v EXCEPT !.web.open = FALSE, !.top = @ \ {"web"}]
<1>1. v \in Views /\ Seen(v)
  BY DEF Good
<1>2. /\ c \in Views /\ ~c.web.open /\ c.report = v.report /\ c.delete = v.delete /\ c.details = v.details
      /\ c.page = v.page
  BY <1>1 DEF Views
<1>3. v.web.focus \in Focuses
  BY <1>1 DEF Views
<1>4. CloseWeb(v) = RestoreFocus(c, v.web.focus)
  BY DEF CloseWeb
<1> HIDE DEF c
<1>5. ~c.report /\ ~c.delete.open /\ Under(c, v.web.focus)
  BY <1>1, <1>2 DEF Seen, Under, Orphaned
<1>6. Good(RestoreFocus(c, v.web.focus)) /\ RestoreFocus(c, v.web.focus).delete = c.delete
  BY <1>2, <1>3, <1>5, FocusRestored
<1> QED BY <1>2, <1>4, <1>6

LEMMA ReportShown ==
    ASSUME NEW v, Good(v), ~DialogOpen(v)
    PROVE  Good(ShowReport(v)) /\ ShowReport(v).delete = v.delete
<1> DEFINE w == Switch([v EXCEPT !.report = TRUE], "saveReport", "report")
<1>1. v \in Views /\ Seen(v)
  BY DEF Good
<1>2. /\ w \in Views /\ w.report /\ w.web = v.web /\ w.delete = v.delete
      /\ w.page = "saveReport" /\ w.focus = "report"
  BY <1>1 DEF Views, Focuses, Switch
<1>3. ShowReport(v) = w
  BY DEF ShowReport
<1>4. Seen(w)
  BY <1>2 DEF Seen, OnTop, DialogOpen
<1> QED BY <1>2, <1>3, <1>4 DEF Good

LEMMA ReportClosed ==
    ASSUME NEW v, Good(v), v.report, ~v.delete.open
    PROVE  Good(CloseReport(v)) /\ CloseReport(v).delete = v.delete
<1> DEFINE c == [v EXCEPT !.report = FALSE]
<1>1. v \in Views /\ Seen(v)
  BY DEF Good
<1>2. /\ c \in Views /\ ~c.report /\ c.web = v.web /\ c.delete = v.delete /\ c.details = v.details
      /\ ~c.web.open
  BY <1>1 DEF Views, Seen
<1>3. CloseReport(v) = IF v.details # 0 THEN Switch(c, "details", "text") ELSE Switch(c, "main", "table")
  BY DEF CloseReport
<1> HIDE DEF c
<1>4. ASSUME NEW w, NEW page \in {"main", "details", "saveReport"}, NEW f \in Focuses,
             w = Switch(c, page, f)
      PROVE  /\ w \in Views /\ ~w.report /\ ~w.web.open /\ w.delete = v.delete /\ w.details = v.details
             /\ w.page = page /\ w.focus = f
  BY <1>2, <1>4 DEF Views, Switch
<1>5. CASE v.details # 0
  <2> DEFINE w == Switch(c, "details", "text")
  <2>1. /\ w \in Views /\ ~w.report /\ ~w.web.open /\ w.delete = v.delete /\ w.details = v.details
        /\ w.page = "details" /\ w.focus = "text"
    BY <1>4 DEF Focuses
  <2>2. Seen(w)
    BY <1>5, <2>1 DEF Seen, OnTop
  <2> QED BY <1>3, <1>5, <2>1, <2>2 DEF Good
<1>6. CASE v.details = 0
  <2> DEFINE w == Switch(c, "main", "table")
  <2>1. /\ w \in Views /\ ~w.report /\ ~w.web.open /\ w.delete = v.delete /\ w.details = v.details
        /\ w.page = "main" /\ w.focus = "table"
    BY <1>4 DEF Focuses
  <2>2. Seen(w)
    BY <1>6, <2>1 DEF Seen, OnTop
  <2> QED BY <1>3, <1>6, <2>1, <2>2 DEF Good
<1> QED BY <1>5, <1>6
-----------------------------------------------------------------------------
(* The invariant: which operations are under way.                          *)

\* The stops and restarts a sequence of operations holds, as one word.
Awaited == {"stop", "restart"}
Words == {"none", "stop", "restart", "both"}
Word(op) == IF op \in Awaited THEN op ELSE "none"
Then(a, b) == IF a = "none" THEN b ELSE IF b = "none" THEN a
              ELSE IF a = "stop" /\ b = "restart" THEN "both" ELSE "other"

Tells(s, w) ==
    /\ w = "none" => \A k \in DOMAIN s : s[k].op \notin Awaited
    /\ w \in Awaited => \E i \in DOMAIN s : /\ s[i].op = w
                                            /\ \A k \in DOMAIN s : s[k].op \in Awaited => k = i
    /\ w = "both" => \E i \in DOMAIN s, j \in DOMAIN s :
                        /\ i < j /\ s[i].op = "stop" /\ s[j].op = "restart"
                        /\ \A k \in DOMAIN s : s[k].op \in Awaited => k = i \/ k = j

LEMMA OneTold ==
    ASSUME NEW s, NEW w \in Awaited
    PROVE  Tells(s, w) <=> \E i \in DOMAIN s : /\ s[i].op = w
                                               /\ \A k \in DOMAIN s : s[k].op \in Awaited => k = i
BY DEF Tells, Awaited

LEMMA BothTold ==
    ASSUME NEW s
    PROVE  Tells(s, "both") <=> \E i \in DOMAIN s, j \in DOMAIN s :
                                  /\ i < j /\ s[i].op = "stop" /\ s[j].op = "restart"
                                  /\ \A k \in DOMAIN s : s[k].op \in Awaited => k = i \/ k = j
BY DEF Tells, Awaited

Awaits(st) == IF st = "stopping" THEN {"stop"}
              ELSE IF st = "restarting" THEN {"restart", "both"} ELSE {"none"}

Follows ==
    ~over => \E a \in Words, c \in Words :
                /\ Tells(mail, a) /\ Tells(tasks, c)
                /\ Then(Then(a, Word(job.op)), c) \in Awaits(state)

-----------------------------------------------------------------------------
(* Words.                                                                  *)

LEMMA Associates ==
    ASSUME NEW a \in Words, NEW b \in Words, NEW c \in Words
    PROVE  /\ Then(Then(a, b), c) = Then(a, Then(b, c))
           /\ Then(a, "none") = a /\ Then("none", a) = a
           /\ Then(a, b) \in Words \cup {"other"}
           /\ Then(Then(a, b), c) # "other" => Then(a, b) \in Words /\ Then(b, c) \in Words
BY DEF Words, Then

LEMMA WordIs ==
    ASSUME NEW op
    PROVE  Word(op) \in Words /\ (Word(op) = "none" <=> op \notin Awaited)
           /\ (Word(op) # "none" => Word(op) = op)
BY DEF Word, Words, Awaited

LEMMA ConcatTells ==
    ASSUME NEW s \in Seq(Messages), NEW t \in Seq(Messages), NEW a \in Words, NEW b \in Words,
           Tells(s, a), Tells(t, b), Then(a, b) \in Words
    PROVE  Tells(s \o t, Then(a, b))
<1> DEFINE n == Len(s)
           m == Len(t)
           u == s \o t
<1>1. /\ n \in Nat /\ m \in Nat /\ DOMAIN s = 1 .. n /\ DOMAIN t = 1 .. m /\ DOMAIN u = 1 .. (n + m)
      /\ \A k \in 1 .. n : u[k] = s[k]
      /\ \A k \in 1 .. m : u[k + n] = t[k]
  OBVIOUS
<1>2. \A k \in 1 .. (n + m) : k \in 1 .. n \/ (k - n \in 1 .. m /\ u[k] = t[k - n])
  <2> SUFFICES ASSUME NEW k \in 1 .. (n + m), k \notin 1 .. n
               PROVE  k - n \in 1 .. m /\ u[k] = t[k - n]
    OBVIOUS
  <2>1. k - n \in 1 .. m /\ (k - n) + n = k
    BY <1>1
  <2> QED BY <1>1, <2>1
<1> HIDE DEF n, m, u
<1>3. CASE a = "none"
  <2>1. Then(a, b) = b /\ \A k \in 1 .. n : u[k].op \notin Awaited
    BY <1>1, <1>3 DEF Then, Tells
  <2>2. \A k \in 1 .. m : k + n \in DOMAIN u /\ u[k + n] = t[k]
    BY <1>1
  <2>3. \A k \in DOMAIN u : u[k].op \in Awaited => k - n \in 1 .. m /\ u[k] = t[k - n] /\ k \in Nat
    BY <1>1, <1>2, <2>1
  <2>4. CASE b = "none"
    BY <1>1, <2>1, <2>3, <2>4 DEF Tells, Awaited, u
  <2>5. CASE b \in Awaited
    <3>1. PICK i \in 1 .. m : t[i].op = b /\ \A k \in 1 .. m : t[k].op \in Awaited => k = i
      <4>1. \E i \in DOMAIN t : t[i].op = b /\ \A k \in DOMAIN t : t[k].op \in Awaited => k = i
        BY <2>5, OneTold
      <4> QED BY <1>1, <4>1
    <3>2. i + n \in DOMAIN u /\ u[i + n].op = b /\ \A k \in DOMAIN u : u[k].op \in Awaited => k = i + n
      BY <1>1, <2>2, <2>3, <3>1
    <3> QED BY <2>1, <2>5, <3>2 DEF Tells, Awaited, u
  <2>6. CASE b = "both"
    <3>1. PICK i \in 1 .. m, j \in 1 .. m :
            /\ i < j /\ t[i].op = "stop" /\ t[j].op = "restart"
            /\ \A k \in 1 .. m : t[k].op \in Awaited => k = i \/ k = j
      <4>1. \E i \in DOMAIN t, j \in DOMAIN t :
              /\ i < j /\ t[i].op = "stop" /\ t[j].op = "restart"
              /\ \A k \in DOMAIN t : t[k].op \in Awaited => k = i \/ k = j
        BY <2>6, BothTold
      <4>2. DOMAIN t = 1 .. m
        BY <1>1
      <4> QED BY <4>1, <4>2, Zenon
    <3>2. /\ i + n \in DOMAIN u /\ j + n \in DOMAIN u /\ i + n < j + n
          /\ u[i + n].op = "stop" /\ u[j + n].op = "restart"
          /\ \A k \in DOMAIN u : u[k].op \in Awaited => k = i + n \/ k = j + n
      <4>1. /\ i + n \in DOMAIN u /\ j + n \in DOMAIN u
            /\ u[i + n].op = "stop" /\ u[j + n].op = "restart"
        BY <2>2, <3>1
      <4>2. i \in Nat /\ j \in Nat /\ n \in Nat
        BY <1>1
      <4>3. ASSUME NEW k \in DOMAIN u, u[k].op \in Awaited
            PROVE  k = i + n \/ k = j + n
        <5>1. k - n \in 1 .. m /\ t[k - n].op \in Awaited /\ k \in Nat
          BY <2>3, <4>3
        <5>2. k - n = i \/ k - n = j
          BY <3>1, <5>1
        <5> QED BY <4>2, <5>1, <5>2
      <4> QED BY <3>1, <4>1, <4>2, <4>3
    <3>3. \E x \in DOMAIN u, y \in DOMAIN u :
            /\ x < y /\ u[x].op = "stop" /\ u[y].op = "restart"
            /\ \A k \in DOMAIN u : u[k].op \in Awaited => k = x \/ k = y
      BY <3>2
    <3> QED BY <2>1, <2>6, <3>3, BothTold DEF u
  <2> QED BY <2>4, <2>5, <2>6 DEF Words, Awaited
<1>4. CASE a # "none" /\ b = "none"
  <2>1. Then(a, b) = a /\ \A k \in 1 .. m : t[k].op \notin Awaited
    BY <1>1, <1>4 DEF Then, Tells
  <2>2. \A k \in DOMAIN u : u[k].op \in Awaited => k \in 1 .. n /\ u[k] = s[k]
    BY <1>1, <1>2, <2>1
  <2>3. \A k \in 1 .. n : k \in DOMAIN u /\ u[k] = s[k]
    BY <1>1
  <2>4. CASE a \in Awaited
    <3>1. PICK i \in 1 .. n : s[i].op = a /\ \A k \in 1 .. n : s[k].op \in Awaited => k = i
      <4>1. \E i \in DOMAIN s : s[i].op = a /\ \A k \in DOMAIN s : s[k].op \in Awaited => k = i
        BY <2>4, OneTold
      <4> QED BY <1>1, <4>1
    <3>2. i \in DOMAIN u /\ u[i].op = a /\ \A k \in DOMAIN u : u[k].op \in Awaited => k = i
      BY <2>2, <2>3, <3>1
    <3> QED BY <2>1, <2>4, <3>2 DEF Tells, Awaited, u
  <2>5. CASE a = "both"
    <3>1. PICK i \in 1 .. n, j \in 1 .. n :
            /\ i < j /\ s[i].op = "stop" /\ s[j].op = "restart"
            /\ \A k \in 1 .. n : s[k].op \in Awaited => k = i \/ k = j
      <4>1. \E i \in DOMAIN s, j \in DOMAIN s :
              /\ i < j /\ s[i].op = "stop" /\ s[j].op = "restart"
              /\ \A k \in DOMAIN s : s[k].op \in Awaited => k = i \/ k = j
        BY <2>5, BothTold
      <4>2. DOMAIN s = 1 .. n
        BY <1>1
      <4> QED BY <4>1, <4>2, Zenon
    <3>2. /\ i \in DOMAIN u /\ j \in DOMAIN u /\ u[i].op = "stop" /\ u[j].op = "restart"
          /\ \A k \in DOMAIN u : u[k].op \in Awaited => k = i \/ k = j
      BY <2>2, <2>3, <3>1
    <3>3. \E x \in DOMAIN u, y \in DOMAIN u :
            /\ x < y /\ u[x].op = "stop" /\ u[y].op = "restart"
            /\ \A k \in DOMAIN u : u[k].op \in Awaited => k = x \/ k = y
      BY <3>1, <3>2
    <3> QED BY <2>1, <2>5, <3>3, BothTold DEF u
  <2> QED BY <1>4, <2>4, <2>5 DEF Words, Awaited
<1>5. CASE a # "none" /\ b # "none"
  <2>1. a = "stop" /\ b = "restart" /\ Then(a, b) = "both"
    BY <1>5 DEF Then, Words
  <2>2. PICK i \in 1 .. n : s[i].op = "stop" /\ \A k \in 1 .. n : s[k].op \in Awaited => k = i
    BY <1>1, <2>1 DEF Tells, Awaited
  <2>3. PICK j \in 1 .. m : t[j].op = "restart" /\ \A k \in 1 .. m : t[k].op \in Awaited => k = j
    BY <1>1, <2>1 DEF Tells, Awaited
  <2>4. /\ i \in DOMAIN u /\ j + n \in DOMAIN u /\ i < j + n /\ u[i].op = "stop" /\ u[j + n].op = "restart"
    BY <1>1, <2>2, <2>3
  <2>5. \A k \in DOMAIN u : u[k].op \in Awaited => k = i \/ k = j + n
    <3> SUFFICES ASSUME NEW k \in 1 .. (n + m), u[k].op \in Awaited
                 PROVE  k = i \/ k = j + n
      BY <1>1
    <3>1. CASE k \in 1 .. n
      BY <1>1, <2>2, <3>1
    <3>2. CASE k - n \in 1 .. m /\ u[k] = t[k - n]
      <4>1. k - n = j
        BY <2>3, <3>2
      <4> QED BY <1>1, <4>1
    <3> QED BY <1>2, <3>1, <3>2
  <2> QED BY <2>1, <2>4, <2>5 DEF Tells, Awaited, u
<1> QED BY <1>3, <1>4, <1>5

LEMMA OneTells ==
    ASSUME NEW m \in Messages
    PROVE  <<m>> \in Seq(Messages) /\ Tells(<<m>>, Word(m.op))
<1> DEFINE s == <<m>>
<1>1. s \in Seq(Messages) /\ DOMAIN s = {1} /\ s[1] = m
  OBVIOUS
<1> HIDE DEF s
<1>2. Tells(s, Word(m.op))
  BY <1>1 DEF Tells, Word, Awaited
<1> QED BY <1>1, <1>2 DEF s

LEMMA AppendTells ==
    ASSUME NEW s \in Seq(Messages), NEW a \in Words, Tells(s, a), NEW m \in Messages,
           Then(a, Word(m.op)) \in Words
    PROVE  Tells(Append(s, m), Then(a, Word(m.op)))
<1>1. Append(s, m) = s \o <<m>>
  OBVIOUS
<1>2. Word(m.op) \in Words
  BY WordIs
<1> QED BY <1>1, <1>2, OneTells, ConcatTells

LEMMA TailTells ==
    ASSUME NEW s \in Seq(Messages), s # <<>>, NEW a \in Words, Tells(s, a)
    PROVE  \E b \in Words : Tells(Tail(s), b) /\ a = Then(Word(Head(s).op), b)
<1> DEFINE n == Len(s)
           t == Tail(s)
           h == Head(s)
<1>1. /\ n \in Nat \ {0} /\ DOMAIN s = 1 .. n /\ DOMAIN t = 1 .. (n - 1) /\ h = s[1]
      /\ \A k \in 1 .. (n - 1) : t[k] = s[k + 1]
  OBVIOUS
<1>2. \A k \in 1 .. n : k # 1 => k - 1 \in 1 .. (n - 1) /\ t[k - 1] = s[k]
  <2> SUFFICES ASSUME NEW k \in 1 .. n, k # 1
               PROVE  k - 1 \in 1 .. (n - 1) /\ t[k - 1] = s[k]
    OBVIOUS
  <2>1. k - 1 \in 1 .. (n - 1) /\ (k - 1) + 1 = k
    BY <1>1
  <2> QED BY <1>1, <2>1
<1>3. 1 \in 1 .. n /\ \A k \in 1 .. (n - 1) : k + 1 \in 1 .. n /\ k + 1 # 1
  BY <1>1
<1> HIDE DEF n, t, h
<1>4. CASE h.op \notin Awaited
  <2>1. Word(h.op) = "none" /\ Then(Word(h.op), a) = a
    BY <1>4 DEF Word, Then
  <2>2. Tells(t, a)
    <3>1. CASE a = "none"
      BY <1>1, <1>3, <3>1 DEF Tells, Awaited
    <3>2. CASE a \in Awaited
      <4>1. PICK i \in 1 .. n : s[i].op = a /\ \A k \in 1 .. n : s[k].op \in Awaited => k = i
        <5>1. \E i \in DOMAIN s : s[i].op = a /\ \A k \in DOMAIN s : s[k].op \in Awaited => k = i
          BY <3>2, OneTold
        <5> QED BY <1>1, <5>1
      <4>2. i - 1 \in DOMAIN t /\ t[i - 1].op = a
        BY <1>1, <1>2, <1>4, <3>2, <4>1
      <4>3. \A k \in DOMAIN t : t[k].op \in Awaited => k = i - 1
        BY <1>1, <1>3, <4>1
      <4> QED BY <3>2, <4>2, <4>3 DEF Tells, Awaited
    <3>3. CASE a = "both"
      <4>1. PICK i \in 1 .. n, j \in 1 .. n :
              /\ i < j /\ s[i].op = "stop" /\ s[j].op = "restart"
              /\ \A k \in 1 .. n : s[k].op \in Awaited => k = i \/ k = j
        <5>1. \E i \in DOMAIN s, j \in DOMAIN s :
                /\ i < j /\ s[i].op = "stop" /\ s[j].op = "restart"
                /\ \A k \in DOMAIN s : s[k].op \in Awaited => k = i \/ k = j
          BY <3>3, BothTold
        <5>2. DOMAIN s = 1 .. n
          BY <1>1
        <5> QED BY <5>1, <5>2, Zenon
      <4>2. i # 1 /\ j # 1
        BY <1>1, <1>4, <4>1 DEF Awaited
      <4>3. /\ i - 1 \in DOMAIN t /\ t[i - 1].op = "stop"
            /\ j - 1 \in DOMAIN t /\ t[j - 1].op = "restart" /\ i - 1 < j - 1
        BY <1>1, <1>2, <4>1, <4>2
      <4>4. ASSUME NEW k \in DOMAIN t, t[k].op \in Awaited
            PROVE  k = i - 1 \/ k = j - 1
        <5>1. k \in Nat /\ k + 1 \in 1 .. n /\ s[k + 1].op \in Awaited
          BY <1>1, <1>3, <4>4
        <5>2. k + 1 = i \/ k + 1 = j
          BY <4>1, <5>1
        <5>3. i \in Nat /\ j \in Nat
          BY <1>1
        <5> QED BY <5>1, <5>2, <5>3
      <4>5. \E x \in DOMAIN t, y \in DOMAIN t :
              /\ x < y /\ t[x].op = "stop" /\ t[y].op = "restart"
              /\ \A k \in DOMAIN t : t[k].op \in Awaited => k = x \/ k = y
        BY <4>3, <4>4
      <4> QED BY <3>3, <4>5, BothTold
    <3> QED BY <3>1, <3>2, <3>3 DEF Words, Awaited
  <2> QED BY <2>1, <2>2 DEF t, h
<1>5. CASE h.op \in Awaited
  <2>1. Word(h.op) = h.op
    BY <1>5 DEF Word
  <2>2. a # "none"
    BY <1>1, <1>3, <1>5 DEF Tells
  <2>3. CASE a \in Awaited
    <3>1. PICK i \in 1 .. n : s[i].op = a /\ \A k \in 1 .. n : s[k].op \in Awaited => k = i
      <4>1. \E i \in DOMAIN s : s[i].op = a /\ \A k \in DOMAIN s : s[k].op \in Awaited => k = i
        BY <2>3, OneTold
      <4> QED BY <1>1, <4>1
    <3>2. i = 1 /\ a = h.op
      BY <1>1, <1>3, <1>5, <3>1
    <3>3. \A k \in DOMAIN t : t[k].op \notin Awaited
      BY <1>1, <1>3, <3>1, <3>2
    <3>4. Tells(t, "none")
      BY <3>3 DEF Tells, Awaited
    <3>5. a = Then(Word(h.op), "none")
      BY <2>1, <3>2 DEF Then
    <3> QED BY <3>4, <3>5 DEF Words, t, h
  <2>4. CASE a = "both"
    <3>1. PICK i \in 1 .. n, j \in 1 .. n :
            /\ i < j /\ s[i].op = "stop" /\ s[j].op = "restart"
            /\ \A k \in 1 .. n : s[k].op \in Awaited => k = i \/ k = j
      <4>1. \E i \in DOMAIN s, j \in DOMAIN s :
              /\ i < j /\ s[i].op = "stop" /\ s[j].op = "restart"
              /\ \A k \in DOMAIN s : s[k].op \in Awaited => k = i \/ k = j
        BY <2>4, BothTold
      <4>2. DOMAIN s = 1 .. n
        BY <1>1
      <4> QED BY <4>1, <4>2, Zenon
    <3>2. i = 1 /\ j # 1 /\ h.op = "stop"
      BY <1>1, <1>3, <1>5, <3>1
    <3>3. j - 1 \in DOMAIN t /\ t[j - 1].op = "restart"
      BY <1>1, <1>2, <3>1, <3>2
    <3>4. \A k \in DOMAIN t : t[k].op \in Awaited => k = j - 1
      BY <1>1, <1>3, <3>1, <3>2
    <3>5. Tells(t, "restart")
      BY <3>3, <3>4 DEF Tells, Awaited
    <3>6. a = Then(Word(h.op), "restart")
      BY <2>1, <2>4, <3>2 DEF Then
    <3> QED BY <3>5, <3>6 DEF Words, t, h
  <2> QED BY <2>2, <2>3, <2>4 DEF Words, Awaited
<1> QED BY <1>4, <1>5
-----------------------------------------------------------------------------
(* The invariant, and what holds at the start.                             *)

\* A session is over before its loop is left.
Leaves == over => app # "running"

\* Both queues are in order, the loop never waits, and keys go where the user looks.
IInv == TypeOK /\ DeliveryNeverBlocks /\ Leaves /\ Follows /\ Seen(view)

Flags ==
    /\ over \in BOOLEAN /\ wake \in BOOLEAN /\ crowded \in BOOLEAN
    /\ app \in {"running", "stopped", "joining", "returned"}
    /\ state \in {"running", "stopping", "stopped", "restarting"}
    /\ refresh \in {"select", "update", "log", "close", "gone"}

Queues ==
    /\ tasks \in Seq(Jobs) /\ Len(tasks) <= TaskCap
    /\ mail \in Seq(Messages) /\ Len(mail) <= MailCap /\ deliver \in Nat

Working ==
    /\ worker \in {"idle", "running", "posting", "gone"}
    /\ job \in IF worker \in {"running", "posting"} THEN Jobs ELSE {NoJob}

Hosts == Listed /\ lastID \in 2 .. MaxID

LEMMA TypesAre == TypeOK <=> Flags /\ Queues /\ Working /\ Hosts /\ view \in Views
BY DEF TypeOK, Flags, Queues, Working, Hosts, Listed

LEMMA FlagsKept ==
    ASSUME TypeOK, [Next]_vars
    PROVE  Flags'
<1> USE DEF Flags
<1>1. Flags
  BY TypesAre
<1>2. CASE AddKey
  BY <1>1, <1>2 DEF AddKey, Stays, KeyOnly, Draws, PostsWake, Synced
<1>3. CASE ViewKey
  BY <1>1, <1>3 DEF ViewKey, Stays, KeyOnly, Draws, PostsWake, Synced
<1>4. CASE DeleteDialogKey
  BY <1>1, <1>4 DEF DeleteDialogKey, Stays, KeyOnly, Draws, PostsWake, Quits
<1>5. CASE OtherDialogKey
  BY <1>1, <1>5 DEF OtherDialogKey, Stays, KeyOnly, Draws, PostsWake
<1>6. CASE StopKey
  BY <1>1, <1>6 DEF StopKey, Stays, KeyOnly, Draws, PostsWake, Synced
<1>7. CASE RestartKey
  BY <1>1, <1>7 DEF RestartKey, Stays, KeyOnly, Draws, PostsWake, Synced
<1>8. CASE ResetKey
  BY <1>1, <1>8 DEF ResetKey, Stays, KeyOnly, Draws, PostsWake, Synced
<1>9. CASE QuitKey
  BY <1>1, <1>9 DEF QuitKey, Quits, KeyOnly, Draws, PostsWake, Synced
<1>10. CASE Deliver
  <2>1. \A m : Result(m) \in {"running", "stopping", "stopped", "restarting"}
    BY <1>1 DEF Result, StopDone
  <2> QED BY <1>1, <1>10, <2>1 DEF Deliver, Draws, PostsWake
<1>11. CASE CallbackRuns
  BY <1>1, <1>11 DEF CallbackRuns, CallbackReturns
<1>12. CASE OthersChange
  BY <1>1, <1>12 DEF OthersChange, sessionVars
<1>13. CASE UIGone
  BY <1>1, <1>13 DEF UIGone, AppStopped, TerminalEnds, EndsSession
<1>14. CASE LoopStep /\ UNCHANGED uiVars
  BY <1>1, <1>14 DEF LoopStep, WakeKey, OtherEvent, RunReturns, Undelivered, uiVars
<1>15. CASE WorkerStep /\ UNCHANGED uiVars
  BY <1>1, <1>15 DEF WorkerStep, WorkerStops, WorkerTakes, WorkerPosts, Posts, PostsWake, uiVars
<1>16. CASE (Signalled \/ Ticks \/ TakesLog \/ SeesClose \/ RefreshStops) /\ UNCHANGED uiVars
  BY <1>1, <1>16 DEF Signalled, Ticks, TakesLog, SeesClose, RefreshStops, uiVars
<1>17. CASE RefreshPosts /\ UNCHANGED uiVars
  BY <1>1, <1>17 DEF RefreshPosts, Posts, PostsWake, uiVars
<1>18. CASE UNCHANGED vars
  BY <1>1, <1>18 DEF vars
<1> QED
  BY <1>2, <1>3, <1>4, <1>5, <1>6, <1>7, <1>8, <1>9, <1>10, <1>11, <1>12, <1>13, <1>14, <1>15,
     <1>16, <1>17, <1>18 DEF Next, Key

\* What an event the loop handles leaves in the queues.
LEMMA Queued ==
    ASSUME TypeOK, NEW op \in Operations, NEW id \in Nat, Submittable, Submits(op, id)
    PROVE  tasks' \in Seq(Jobs) /\ Len(tasks') <= TaskCap
<1> DEFINE j == [op |-> op, id |-> id, ok |-> FALSE]
<1>1. j \in Jobs
  BY DEF Jobs
<1>2. tasks' = Append(tasks, j)
  BY DEF Submits
<1> HIDE DEF j
<1>3. tasks \in Seq(Jobs) /\ TaskCap \in Nat /\ Len(tasks) < TaskCap
  BY TerminalAssumption DEF TypeOK, Submittable
<1> QED BY <1>1, <1>2, <1>3

LEMMA KeyQueues ==
    ASSUME TypeOK, Key
    PROVE  /\ tasks' \in Seq(Jobs) /\ Len(tasks') <= TaskCap
           /\ UNCHANGED <<worker, job, mail, deliver, refresh, live, lastID>>
           /\ app = "running" /\ ~over /\ (app' = "running" <=> ~over')
<1>1. tasks \in Seq(Jobs) /\ Len(tasks) <= TaskCap /\ view.delete.id \in Nat
  BY DEF TypeOK, Views
<1>2. ASSUME NEW op \in Operations, NEW id \in Nat, Asks(op, id)
      PROVE  tasks' \in Seq(Jobs) /\ Len(tasks') <= TaskCap
  BY <1>1, <1>2, Queued DEF Asks
<1>3. UNCHANGED tasks => tasks' \in Seq(Jobs) /\ Len(tasks') <= TaskCap
  BY <1>1
<1>4. KeyOnly => UNCHANGED <<worker, job, mail, deliver, refresh, live, lastID>>
  BY DEF KeyOnly
<1>5. Pressed => app = "running" /\ ~over
  BY DEF Pressed, Handling
<1>6. over' = TRUE \/ UNCHANGED over
  BY DEF Key, AddKey, ViewKey, DeleteDialogKey, OtherDialogKey, StopKey, RestartKey, ResetKey, QuitKey,
         Stays, Quits
<1> USE DEF Operations, Stays, Quits
<1>7. CASE AddKey
  BY <1>2, <1>3, <1>4, <1>5, <1>7 DEF AddKey
<1>8. CASE ViewKey
  BY <1>3, <1>4, <1>5, <1>8 DEF ViewKey
<1>9. CASE DeleteDialogKey
  BY <1>1, <1>2, <1>3, <1>4, <1>5, <1>9 DEF DeleteDialogKey
<1>10. CASE OtherDialogKey
  BY <1>2, <1>3, <1>4, <1>5, <1>10 DEF OtherDialogKey
<1>11. CASE StopKey
  BY <1>3, <1>4, <1>5, <1>11, Queued DEF StopKey
<1>12. CASE RestartKey
  BY <1>3, <1>4, <1>5, <1>12, Queued DEF RestartKey
<1>13. CASE ResetKey
  BY <1>2, <1>3, <1>4, <1>5, <1>13 DEF ResetKey
<1>14. CASE QuitKey
  BY <1>3, <1>4, <1>5, <1>14 DEF QuitKey
<1> QED BY <1>7, <1>8, <1>9, <1>10, <1>11, <1>12, <1>13, <1>14 DEF Key

LEMMA Posted ==
    ASSUME TypeOK, NEW m \in Messages, Posts(m)
    PROVE  mail' \in Seq(Messages) /\ Len(mail') <= MailCap /\ Len(mail') >= Len(mail)
<1>1. mail \in Seq(Messages) /\ Len(mail) <= MailCap /\ MailCap \in Nat
  BY TerminalAssumption DEF TypeOK
<1>2. CASE over
  BY <1>1, <1>2 DEF Posts
<1>3. CASE ~over
  <2>1. Len(mail) < MailCap /\ mail' = Append(mail, m)
    BY <1>3 DEF Posts
  <2> QED BY <1>1, <2>1
<1> QED BY <1>2, <1>3

LEMMA TailIs ==
    ASSUME NEW S, NEW s \in Seq(S), s # <<>>
    PROVE  Head(s) \in S /\ Tail(s) \in Seq(S) /\ Len(Tail(s)) = Len(s) - 1 /\ Len(s) \in Nat \ {0}
OBVIOUS

LEMMA JobsAreMessages == Jobs \subseteq Messages
BY DEF Jobs, Messages

LEMMA RefreshMessages ==
    ASSUME NEW kind \in {"update", "log", "close"}
    PROVE  Message(kind) \in Messages /\ Message(kind).op = kind
BY DEF Message, Messages

LEMMA QueuesKept ==
    ASSUME TypeOK, DeliveryNeverBlocks, [Next]_vars
    PROVE  Queues' /\ DeliveryNeverBlocks'
<1>1. Queues /\ DeliveryNeverBlocks
  BY TypesAre
<1>2. CASE Key
  BY <1>1, <1>2, KeyQueues DEF Queues, DeliveryNeverBlocks
<1>3. CASE Deliver
  <2>1. mail \in Seq(Messages) /\ mail # <<>> /\ app = "running" /\ deliver \in Nat /\ deliver > 0
    BY <1>1, <1>3 DEF Queues, Deliver
  <2>2. mail' = Tail(mail) /\ UNCHANGED tasks /\ deliver' \in {0, deliver - 1}
    BY <1>3 DEF Deliver
  <2>3. mail' \in Seq(Messages) /\ Len(mail') = Len(mail) - 1 /\ Len(mail) \in Nat \ {0}
    BY <2>1, <2>2, TailIs
  <2>4. deliver <= Len(mail) /\ Len(mail) <= MailCap /\ MailCap \in Nat
    BY <1>1, <2>1, TerminalAssumption DEF Queues, DeliveryNeverBlocks
  <2>5. deliver' \in Nat /\ deliver' <= Len(mail') /\ Len(mail') <= MailCap
    BY <2>1, <2>2, <2>3, <2>4
  <2> QED BY <1>1, <2>2, <2>3, <2>5 DEF Queues, DeliveryNeverBlocks
<1>4. CASE CallbackRuns
  <2>1. UNCHANGED <<tasks, mail, deliver, app>>
    BY <1>4 DEF CallbackRuns, CallbackReturns
  <2> QED BY <1>1, <2>1 DEF Queues, DeliveryNeverBlocks
<1>5. CASE OthersChange
  <2>1. UNCHANGED <<tasks, mail, deliver, app>>
    BY <1>5 DEF OthersChange, sessionVars
  <2> QED BY <1>1, <2>1 DEF Queues, DeliveryNeverBlocks
<1>6. CASE UIGone
  <2>1. mail' = <<>> /\ deliver' = 0 /\ app' = "joining" /\ UNCHANGED tasks
    BY <1>6 DEF UIGone, AppStopped, TerminalEnds, EndsSession
  <2>2. <<>> \in Seq(Messages) /\ Len(<<>>) = 0
    OBVIOUS
  <2>3. MailCap \in Nat
    BY TerminalAssumption
  <2> QED BY <1>1, <2>1, <2>2, <2>3 DEF Queues, DeliveryNeverBlocks
<1>7. CASE WakeKey
  <2>1. UNCHANGED <<tasks, mail>> /\ deliver' = Len(mail)
    BY <1>7 DEF WakeKey, Batch
  <2>2. Len(mail) \in Nat
    BY <1>1 DEF Queues
  <2> QED BY <1>1, <2>1, <2>2 DEF Queues, DeliveryNeverBlocks
<1>8. CASE OtherEvent \/ RunReturns \/ Signalled \/ Ticks \/ TakesLog \/ SeesClose \/ RefreshStops
  <2>1. UNCHANGED <<tasks, mail, deliver>> /\ (app' = "running" => app = "running")
    BY <1>8 DEF OtherEvent, RunReturns, Signalled, Ticks, TakesLog, SeesClose, RefreshStops
  <2> QED BY <1>1, <2>1 DEF Queues, DeliveryNeverBlocks
<1>9. CASE WorkerStops
  <2>1. UNCHANGED <<mail, deliver, app>> /\ tasks' = <<>>
    BY <1>9 DEF WorkerStops
  <2>2. <<>> \in Seq(Jobs) /\ Len(<<>>) = 0 /\ TaskCap \in Nat
    BY TerminalAssumption
  <2> QED BY <1>1, <2>1, <2>2 DEF Queues, DeliveryNeverBlocks
<1>10. CASE WorkerTakes
  <2>1. UNCHANGED <<mail, deliver, app>> /\ tasks' = Tail(tasks) /\ tasks # <<>>
    BY <1>10 DEF WorkerTakes
  <2>2. tasks \in Seq(Jobs) /\ Len(tasks) <= TaskCap /\ TaskCap \in Nat
    BY <1>1, TerminalAssumption DEF Queues
  <2>3. tasks' \in Seq(Jobs) /\ Len(tasks') <= TaskCap
    BY <2>1, <2>2, TailIs
  <2> QED BY <1>1, <2>1, <2>3 DEF Queues, DeliveryNeverBlocks
<1>11. ASSUME NEW m \in Messages, Posts(m), UNCHANGED <<tasks, deliver, app>>
       PROVE  Queues' /\ DeliveryNeverBlocks'
  <2>1. mail' \in Seq(Messages) /\ Len(mail') <= MailCap /\ Len(mail') >= Len(mail)
    BY <1>11, Posted
  <2>2. Len(mail) \in Nat /\ Len(mail') \in Nat
    BY <1>1, <2>1 DEF Queues
  <2> QED BY <1>1, <1>11, <2>1, <2>2 DEF Queues, DeliveryNeverBlocks
<1>12. CASE WorkerPosts
  <2>1. job \in Messages
    BY <1>12, JobsAreMessages DEF TypeOK, WorkerPosts
  <2> QED BY <1>11, <1>12, <2>1 DEF WorkerPosts
<1>13. CASE RefreshPosts
  <2>1. refresh \in {"update", "log", "close"}
    BY <1>13 DEF TypeOK, RefreshPosts
  <2>2. Message(refresh) \in Messages
    BY <2>1, RefreshMessages
  <2> QED BY <1>11, <1>13, <2>2 DEF RefreshPosts
<1>14. CASE UNCHANGED vars
  BY <1>1, <1>14 DEF vars, Queues, DeliveryNeverBlocks
<1> QED
  BY <1>2, <1>3, <1>4, <1>5, <1>6, <1>7, <1>8, <1>9, <1>10, <1>12, <1>13, <1>14
  DEF Next, LoopStep, WorkerStep

LEMMA WorkingKept ==
    ASSUME TypeOK, [Next]_vars
    PROVE  Working'
<1>1. Working
  BY TypesAre
<1>2. CASE Key
  BY <1>1, <1>2, KeyQueues DEF Working
<1>3. CASE CallbackRuns
  <2>1. PICK ok \in BOOLEAN : CallbackReturns(ok)
    BY <1>3 DEF CallbackRuns
  <2>2. worker = "running" /\ job \in Jobs
    BY <1>1, <2>1 DEF Working, CallbackReturns
  <2>3. [job EXCEPT !.ok = ok] \in Jobs
    BY <2>1, <2>2 DEF Jobs
  <2> QED BY <2>1, <2>3 DEF Working, CallbackReturns
<1>4. CASE WorkerStep
  <2>1. CASE WorkerStops
    BY <1>1, <2>1 DEF WorkerStops, Working
  <2>2. CASE WorkerTakes
    <3>1. tasks \in Seq(Jobs) /\ tasks # <<>>
      BY <2>2 DEF TypeOK, WorkerTakes
    <3>2. Head(tasks) \in Jobs
      BY <3>1, TailIs
    <3> QED BY <2>2, <3>2 DEF WorkerTakes, Working
  <2>3. CASE WorkerPosts
    BY <2>3 DEF WorkerPosts, Working
  <2> QED BY <1>4, <2>1, <2>2, <2>3 DEF WorkerStep
<1>5. CASE UNCHANGED <<worker, job>>
  BY <1>1, <1>5 DEF Working
<1>6. CASE Deliver \/ OthersChange \/ UIGone
  BY <1>5, <1>6 DEF Deliver, OthersChange, UIGone, AppStopped, TerminalEnds, EndsSession, sessionVars
<1>7. CASE LoopStep \/ Signalled \/ Ticks \/ TakesLog \/ SeesClose \/ RefreshPosts \/ RefreshStops
  BY <1>5, <1>7 DEF LoopStep, WakeKey, OtherEvent, RunReturns, Signalled, Ticks, TakesLog, SeesClose,
                    RefreshPosts, RefreshStops
<1>8. CASE UNCHANGED vars
  BY <1>5, <1>8 DEF vars
<1> QED BY <1>2, <1>3, <1>4, <1>6, <1>7, <1>8 DEF Next

LEMMA Removed ==
    ASSUME NEW S, NEW s \in Seq(S), NEW i \in DOMAIN s, Len(s) > 1
    PROVE  RemoveAt(s, i) \in Seq(S) /\ RemoveAt(s, i) # <<>>
<1> DEFINE a == SubSeq(s, 1, i - 1)
           b == SubSeq(s, i + 1, Len(s))
<1>1. Len(s) \in Nat /\ i \in 1 .. Len(s)
  OBVIOUS
<1>2. a \in Seq(S) /\ Len(a) = i - 1
  BY <1>1
<1>3. b \in Seq(S) /\ Len(b) = Len(s) - i
  BY <1>1
<1>4. RemoveAt(s, i) = a \o b
  BY DEF RemoveAt
<1> HIDE DEF a, b
<1>5. a \o b \in Seq(S) /\ Len(a \o b) = Len(s) - 1
  BY <1>1, <1>2, <1>3
<1>6. Len(a \o b) # 0
  BY <1>1, <1>5
<1> QED BY <1>4, <1>5, <1>6

LEMMA HostsKept ==
    ASSUME TypeOK, [Next]_vars
    PROVE  Hosts'
<1>1. Hosts /\ MaxID \in Nat
  BY TypesAre, TerminalAssumption
<1>2. CASE UNCHANGED <<live, lastID>>
  BY <1>1, <1>2 DEF Hosts, Listed
<1>3. ASSUME AddsHost
      PROVE  Hosts'
  <2>1. lastID' = lastID + 1 /\ lastID' \in 2 .. MaxID /\ live' = Append(live, lastID')
    BY <1>1, <1>3 DEF AddsHost, Hosts
  <2>2. lastID' \in 1 .. MaxID /\ live \in Seq(1 .. MaxID)
    BY <1>1, <2>1 DEF Hosts, Listed
  <2>3. live' \in Seq(1 .. MaxID) /\ live' # <<>>
    BY <2>1, <2>2
  <2> QED BY <2>1, <2>3 DEF Hosts, Listed
<1>4. ASSUME NEW id, RemovesHost(id), UNCHANGED lastID
      PROVE  Hosts'
  <2>1. live \in Seq(1 .. MaxID) /\ Len(live) > 1 /\ live' = RemoveAt(live, Place(id)) /\ id \in Range(live)
    BY <1>1, <1>4 DEF RemovesHost, Hosts, Listed
  <2>2. Place(id) \in DOMAIN live
    BY <2>1 DEF Place, Range
  <2>3. live' \in Seq(1 .. MaxID) /\ live' # <<>>
    BY <2>1, <2>2, Removed
  <2> QED BY <1>1, <1>4, <2>3 DEF Hosts, Listed
<1>5. CASE CallbackRuns
  BY <1>2, <1>3, <1>4, <1>5 DEF CallbackRuns
<1>6. CASE OthersChange
  BY <1>2, <1>3, <1>4, <1>6 DEF OthersChange
<1>7. CASE Key
  BY <1>2, <1>7, KeyQueues
<1>8. CASE Deliver \/ UIGone \/ UNCHANGED uiVars
  BY <1>2, <1>8 DEF Deliver, UIGone, uiVars
<1> QED BY <1>5, <1>6, <1>7, <1>8 DEF Next, vars, uiVars
-----------------------------------------------------------------------------
(* Every step keeps the view, and a dialog names what was highlighted.     *)

Highlighted == IF view.details # 0 THEN view.details
               ELSE IF view.sel # 0 THEN view.sel ELSE Head(live)

\* What a step that is a key does to the view.
Shown ==
    /\ Good(view')
    /\ ~view.delete.open /\ view'.delete.open => view'.delete.id = Highlighted

LEMMA KeyShows ==
    ASSUME TypeOK, Seen(view), Key
    PROVE  Shown
<1>1. Good(view) /\ view \in Views /\ Listed
  BY TypesAre DEF Good, Hosts
<1>2. CASE UNCHANGED view
  BY <1>1, <1>2 DEF Shown, Good
<1>3. ASSUME Good(view'), view'.delete = view.delete
      PROVE  Shown
  BY <1>3 DEF Shown
<1>4. CASE AddKey
  <2>1. ~DialogOpen(view) /\ view.details = 0
    <3>1. ~DialogOpen(view)
      BY <1>4 DEF AddKey, Dialog
    <3>2. Typing => view.details = 0
      BY <1>1, <3>1 DEF Typing, Good, Seen, OnTop, DialogOpen
    <3> QED BY <1>4, <3>1, <3>2 DEF AddKey
  <2>2. ASSUME NEW f \in {"add", "table"}, view' = [view EXCEPT !.focus = f]
        PROVE  Shown
    <3>1. /\ view' \in Views /\ view'.focus = f /\ view'.delete = view.delete /\ view'.page = view.page
          /\ view'.report = view.report /\ view'.web = view.web /\ view'.details = view.details
      BY <1>1, <2>2 DEF Views, Focuses
    <3>2. Seen(view')
      BY <1>1, <2>1, <3>1 DEF Good, Seen, OnTop, DialogOpen
    <3> QED BY <1>3, <3>1, <3>2 DEF Good
  <2> QED BY <1>4, <2>2 DEF AddKey
<1>5. CASE ViewKey
  <2>1. ~DialogOpen(view) /\ ~view.delete.open
    BY <1>5 DEF ViewKey, Dialog, DialogOpen
  <2>2. CASE view' = ShowWeb(view)
    BY <1>1, <1>3, <2>1, <2>2, WebShown
  <2>3. CASE view' = ShowReport(view)
    BY <1>1, <1>3, <2>1, <2>3, ReportShown
  <2>4. CASE view' = DeleteSelected(view)
    BY <1>1, <2>1, <2>4, DeleteChosen DEF Shown, Highlighted
  <2>5. CASE view' = CloseDetails(view)
    BY <1>1, <1>3, <2>5, DetailsClosed DEF Good
  <2>6. CASE view.details = 0 /\ view' = OpenDetails(view)
    BY <1>1, <1>3, <2>1, <2>6, DetailsOpened
  <2>7. ASSUME NEW step \in {-1, 1}, view' = Move(view, step)
        PROVE  Shown
    BY <1>1, <1>3, <2>7, Moved
  <2> QED BY <1>5, <2>2, <2>3, <2>4, <2>5, <2>6, <2>7 DEF ViewKey
<1>6. CASE DeleteDialogKey
  <2>1. view.delete.open
    BY <1>6 DEF DeleteDialogKey
  <2>2. CASE view' = CloseDelete(view)
    BY <1>1, <2>1, <2>2, DeleteClosed DEF Shown
  <2> QED BY <1>2, <1>6, <2>2 DEF DeleteDialogKey
<1>7. CASE OtherDialogKey
  <2>1. ~view.delete.open
    BY <1>7 DEF OtherDialogKey
  <2>2. CASE view.report /\ view' = CloseReport(view)
    BY <1>1, <1>3, <2>1, <2>2, ReportClosed
  <2>3. CASE view.web.open /\ view' = CloseWeb(view)
    BY <1>1, <1>3, <2>1, <2>3, WebClosed
  <2> QED BY <1>2, <1>7, <2>2, <2>3 DEF OtherDialogKey
<1>8. CASE StopKey \/ RestartKey \/ ResetKey \/ QuitKey
  BY <1>2, <1>8 DEF StopKey, RestartKey, ResetKey, QuitKey
<1> QED BY <1>4, <1>5, <1>6, <1>7, <1>8 DEF Key

LEMMA NothingShown ==
    ASSUME Listed
    PROVE  Good(NoView(live)) /\ ~NoView(live).delete.open
<1>1. live \in Seq(Nat)
  <2>1. Len(live) \in Nat /\ live \in [1 .. Len(live) -> 1 .. MaxID] /\ MaxID \in Nat
    BY LenProperties, TerminalAssumption DEF Listed
  <2>2. live \in [1 .. Len(live) -> Nat]
    BY <2>1
  <2> QED BY <2>1, <2>2, SeqDef
<1>2. NoDelete \in [open : BOOLEAN, id : Nat, last : BOOLEAN, focus : Focuses] /\ ~NoDelete.open
  BY DEF NoDelete, Focuses
<1>3. NoWeb \in [open : BOOLEAN, focus : Focuses] /\ ~NoWeb.open
  BY DEF NoWeb, Focuses
<1> DEFINE v == NoView(live)
<1>4. /\ v \in Views /\ v.delete = NoDelete /\ v.web = NoWeb /\ ~v.report /\ v.details = 0
      /\ v.page = "main" /\ v.focus = "table"
  BY <1>1, <1>2, <1>3 DEF NoView, Views, Focuses
<1> HIDE DEF v
<1>5. Good(v)
  BY <1>2, <1>3, <1>4 DEF Good, Seen, OnTop
<1> QED BY <1>2, <1>4, <1>5 DEF v

LEMMA ViewKept ==
    ASSUME TypeOK, Seen(view), [Next]_vars
    PROVE  Good(view')
<1>1. Good(view) /\ Listed
  BY TypesAre DEF Good, Hosts
<1>2. CASE UNCHANGED view
  BY <1>1, <1>2 DEF Good
<1>3. CASE Key
  BY <1>3, KeyShows DEF Shown
<1>4. CASE Deliver
  <2> DEFINE m == Head(mail)
             u == Update(view)
  <2>1. m \in Messages /\ m.id \in Nat
    <3>1. mail \in Seq(Messages) /\ mail # <<>>
      BY <1>4 DEF TypeOK, Deliver
    <3>2. m \in Messages
      BY <3>1, TailIs
    <3> QED BY <3>2 DEF Messages
  <2>2. view' = Shows(m)
    BY <1>4 DEF Deliver
  <2>3. Good(u)
    BY <1>1, Updated DEF Good
  <2> HIDE DEF m, u
  <2>4. Good(ShowDelete(u, m.id, TRUE))
    <3>1. CASE u.delete.open
      BY <2>3, <3>1 DEF ShowDelete
    <3>2. CASE ~u.delete.open
      BY <2>1, <2>3, <3>2, DeleteShown
    <3> QED BY <3>1, <3>2
  <2>5. Shows(m) \in {view, u, ShowDelete(u, m.id, TRUE)}
    BY DEF Shows, u
  <2> QED BY <1>1, <2>2, <2>3, <2>4, <2>5
<1>5. CASE UIGone
  BY <1>1, <1>5, NothingShown DEF UIGone
<1>6. CASE CallbackRuns \/ OthersChange \/ UNCHANGED uiVars
  BY <1>2, <1>6 DEF CallbackRuns, OthersChange, uiVars
<1> QED BY <1>3, <1>4, <1>5, <1>6 DEF Next, vars, uiVars

LEMMA ViewIsSeen ==
    ASSUME Seen(view)
    PROVE  KeysGoWhereShown
BY DEF Seen, OnTop, KeysGoWhereShown
-----------------------------------------------------------------------------
(* Every step keeps the operations in line.                                *)

LEMMA JobWords ==
    ASSUME TypeOK
    PROVE  /\ worker \notin {"running", "posting"} => Word(job.op) = "none"
           /\ worker \in {"running", "posting"} => job \in Jobs
BY DEF TypeOK, NoJob, Word, Awaited

LEMMA TasksAreMessages ==
    ASSUME NEW s \in Seq(Jobs)
    PROVE  s \in Seq(Messages)
<1>1. Len(s) \in Nat /\ s \in [1 .. Len(s) -> Jobs]
  BY LenProperties
<1>2. s \in [1 .. Len(s) -> Messages]
  BY <1>1, JobsAreMessages
<1> QED BY <1>1, <1>2, SeqDef

\* A line of which the same may be said as before.
LEMMA StillFollows ==
    ASSUME Follows, ~over', over' => over, ~over, UNCHANGED <<mail, tasks>>, Word(job'.op) = Word(job.op),
           Awaits(state') = Awaits(state)
    PROVE  Follows'
BY DEF Follows

LEMMA NoneThen ==
    ASSUME NEW a
    PROVE  Then(a, "none") = a /\ Then("none", a) = a
BY DEF Then

LEMMA WorkersFollow ==
    ASSUME TypeOK, Follows, ~over, WorkerTakes, Awaits(state') = Awaits(state)
    PROVE  Follows'
<1>1. PICK a \in Words, c \in Words :
        Tells(mail, a) /\ Tells(tasks, c) /\ Then(Then(a, Word(job.op)), c) \in Awaits(state)
  BY DEF Follows
<1>2. tasks \in Seq(Messages) /\ tasks # <<>> /\ Word(job.op) = "none"
  BY TasksAreMessages, JobWords DEF TypeOK, WorkerTakes
<1>3. UNCHANGED mail /\ tasks' = Tail(tasks) /\ job' = Head(tasks)
  BY DEF WorkerTakes
<1>4. PICK b \in Words : Tells(Tail(tasks), b) /\ c = Then(Word(Head(tasks).op), b)
  BY <1>1, <1>2, TailTells
<1>5. Then(a, Word(job.op)) = a
  BY <1>2, NoneThen
<1>6. Then(Then(a, Word(job'.op)), b) = Then(a, c)
  BY <1>1, <1>3, <1>4, WordIs, Associates
<1> QED BY <1>1, <1>3, <1>4, <1>5, <1>6 DEF Follows

\* What is said of the line when a message that tells nothing, or the job, is posted.
LEMMA PostsFollow ==
    ASSUME TypeOK, Follows, ~over, NEW m \in Messages, Posts(m), UNCHANGED tasks,
           \/ Word(m.op) = "none" /\ Word(job'.op) = Word(job.op)
           \/ m.op = job.op /\ Word(job'.op) = "none",
           Awaits(state') = Awaits(state)
    PROVE  Follows'
<1>1. PICK a \in Words, c \in Words :
        Tells(mail, a) /\ Tells(tasks, c) /\ Then(Then(a, Word(job.op)), c) \in Awaits(state)
  BY DEF Follows
<1>2. mail \in Seq(Messages) /\ mail' = Append(mail, m)
  BY DEF Posts, TypeOK
<1>3. Word(job.op) \in Words /\ Word(m.op) \in Words
  BY WordIs
<1>4. Awaits(state) \subseteq Words
  BY DEF Awaits, Words
<1>5. Then(a, Word(job.op)) \in Words
  <2>1. Then(Then(a, Word(job.op)), c) # "other"
    BY <1>1, <1>4 DEF Words
  <2> QED BY <1>1, <1>3, <2>1, Associates
<1>6. CASE Word(m.op) = "none" /\ Word(job'.op) = Word(job.op)
  <2>1. Then(a, Word(m.op)) = a
    BY <1>6, NoneThen
  <2>2. Tells(mail', a)
    BY <1>1, <1>2, <2>1, AppendTells
  <2> QED BY <1>1, <1>6, <2>2 DEF Follows
<1>7. CASE m.op = job.op /\ Word(job'.op) = "none"
  <2> DEFINE b == Then(a, Word(job.op))
  <2>1. Tells(mail', b)
    BY <1>1, <1>2, <1>5, <1>7, AppendTells
  <2>2. Then(b, Word(job'.op)) = b
    BY <1>7, NoneThen
  <2> HIDE DEF b
  <2>3. b \in Words /\ Then(b, c) \in Awaits(state')
    BY <1>1, <1>5 DEF b
  <2> QED BY <1>1, <2>1, <2>2, <2>3 DEF Follows
<1> QED BY <1>6, <1>7

LEMMA DeliveryFollows ==
    ASSUME TypeOK, Follows, Leaves, Deliver
    PROVE  Follows'
<1> DEFINE m == Head(mail)
<1> SUFFICES ASSUME ~over' PROVE Follows'
  BY DEF Follows
<1>1. UNCHANGED <<tasks, job>> /\ mail' = Tail(mail) /\ state' = Result(m) /\ m.op # "close" /\ mail # <<>>
  BY DEF Deliver
<1>2. mail \in Seq(Messages)
  BY DEF TypeOK
<1>3. CASE over
  BY <1>3 DEF Deliver, Leaves
<1>4. CASE ~over
  <2>1. PICK a \in Words, c \in Words :
          Tells(mail, a) /\ Tells(tasks, c) /\ Then(Then(a, Word(job.op)), c) \in Awaits(state)
    BY <1>4 DEF Follows
  <2>2. PICK b \in Words : Tells(Tail(mail), b) /\ a = Then(Word(m.op), b)
    BY <1>1, <1>2, <2>1, TailTells
  <2> DEFINE r == Then(Then(b, Word(job.op)), c)
  <2>3. Then(Then(a, Word(job.op)), c) = Then(Word(m.op), r)
    <3>1. Word(m.op) \in Words /\ Word(job.op) \in Words
      BY WordIs
    <3> QED BY <2>1, <2>2, <3>1 DEF Words, Then
  <2>4. r \in Words \cup {"other"}
    BY <2>1, <2>2, WordIs DEF Words, Then
  <2> HIDE DEF r, m
  <2>5. r \in Awaits(state')
    BY <1>1, <2>1, <2>3, <2>4 DEF Awaits, Then, Words, Word, Awaited, Result, StopDone, TypeOK
  <2> QED BY <1>1, <2>1, <2>2, <2>5 DEF Follows, r
<1> QED BY <1>3, <1>4

\* A key leaves the tasks, or adds the operation the handler now awaits.
LEMMA KeysFollow ==
    ASSUME TypeOK, Follows, Key
    PROVE  Follows'
<1> SUFFICES ASSUME ~over' PROVE Follows'
  BY DEF Follows
<1>1. UNCHANGED <<mail, job>> /\ ~over
  BY KeyQueues
<1>2. PICK a \in Words, c \in Words :
        Tells(mail, a) /\ Tells(tasks, c) /\ Then(Then(a, Word(job.op)), c) \in Awaits(state)
  BY <1>1 DEF Follows
<1> DEFINE r == Then(Then(a, Word(job.op)), c)
<1>3. tasks \in Seq(Messages) /\ view.delete.id \in Nat
  BY TasksAreMessages DEF TypeOK, Views
<1>4. Synced = state \/ (state \in {"running", "stopped"} /\ Synced \in {"running", "stopped"})
  BY DEF Synced
<1>5. Awaits(Synced) = Awaits(state)
  BY <1>4 DEF Awaits
<1>6. ASSUME UNCHANGED tasks, Awaits(state') = Awaits(state)
      PROVE  Follows'
  BY <1>1, <1>2, <1>6 DEF Follows
<1>7. ASSUME NEW op \in Operations, NEW id \in Nat, Submits(op, id), Then(r, Word(op)) \in Awaits(state')
      PROVE  Follows'
  <2> DEFINE m == [op |-> op, id |-> id, ok |-> FALSE]
  <2>1. m \in Messages /\ m.op = op /\ tasks' = Append(tasks, m)
    BY <1>7 DEF Submits, Messages
  <2> HIDE DEF m
  <2>2. Word(job.op) \in Words /\ Word(op) \in Words
    BY WordIs
  <2>3. Awaits(state') \subseteq Words
    BY DEF Awaits, Words
  <2>4. /\ Then(c, Word(op)) \in Words
        /\ Then(Then(Then(a, Word(job.op)), c), Word(op)) = Then(Then(a, Word(job.op)), Then(c, Word(op)))
    BY <1>2, <1>7, <2>2, <2>3 DEF Words, Then
  <2>5. Tells(tasks', Then(c, Word(op)))
    BY <1>2, <1>3, <2>1, <2>4, AppendTells
  <2>6. Then(Then(a, Word(job'.op)), Then(c, Word(op))) \in Awaits(state')
    BY <1>1, <1>7, <2>4
  <2> QED BY <1>1, <1>2, <2>4, <2>5, <2>6 DEF Follows
<1>8. r \in Awaits(state)
  BY <1>2
<1> HIDE DEF r
<1>9. ASSUME NEW op \in Operations \ Awaited, NEW id \in Nat, Asks(op, id), Awaits(state') = Awaits(state)
      PROVE  Follows'
  <2>1. Then(r, Word(op)) = r
    BY <1>9 DEF Word, Then
  <2> QED BY <1>6, <1>7, <1>8, <1>9, <2>1 DEF Asks
<1>10. {"add", "delete", "save", "reset"} \subseteq Operations \ Awaited
  BY DEF Operations, Awaited
<1>11. CASE AddKey
  BY <1>5, <1>6, <1>9, <1>10, <1>11 DEF AddKey
<1>12. CASE ViewKey
  BY <1>5, <1>6, <1>12 DEF ViewKey
<1>13. CASE DeleteDialogKey
  BY <1>3, <1>6, <1>9, <1>10, <1>13 DEF DeleteDialogKey, Quits
<1>14. CASE OtherDialogKey
  BY <1>6, <1>9, <1>10, <1>14 DEF OtherDialogKey
<1>15. CASE StopKey
  <2>1. CASE Synced = "running" /\ Submittable
    <3>1. r = "none" /\ state' = "stopping" /\ Submits("stop", 0)
      BY <1>4, <1>8, <1>15, <2>1 DEF StopKey, Awaits
    <3>2. Then(r, Word("stop")) \in Awaits(state')
      BY <3>1 DEF Then, Word, Awaited, Awaits
    <3> QED BY <1>7, <3>1, <3>2 DEF Operations, r
  <2>2. CASE ~(Synced = "running" /\ Submittable)
    BY <1>5, <1>6, <1>15, <2>2 DEF StopKey
  <2> QED BY <2>1, <2>2
<1>16. CASE RestartKey
  <2>1. CASE Synced \in {"stopping", "stopped"} /\ Submittable
    <3>1. r \in {"none", "stop"} /\ state' = "restarting" /\ Submits("restart", 0)
      BY <1>4, <1>8, <1>16, <2>1 DEF RestartKey, Awaits
    <3>2. Then(r, Word("restart")) \in Awaits(state')
      BY <3>1 DEF Then, Word, Awaited, Awaits
    <3> QED BY <1>7, <3>1, <3>2 DEF Operations, r
  <2>2. CASE ~(Synced \in {"stopping", "stopped"} /\ Submittable)
    BY <1>5, <1>6, <1>16, <2>2 DEF RestartKey
  <2> QED BY <2>1, <2>2
<1>17. CASE ResetKey
  BY <1>5, <1>9, <1>10, <1>17 DEF ResetKey
<1>18. CASE QuitKey
  BY <1>18 DEF QuitKey, Quits
<1> QED BY <1>11, <1>12, <1>13, <1>14, <1>15, <1>16, <1>17, <1>18 DEF Key

LEMMA OperationsFollow ==
    ASSUME TypeOK, Leaves, Follows, [Next]_vars
    PROVE  Follows'
<1> SUFFICES ASSUME ~over' PROVE Follows'
  BY DEF Follows
<1>1. ASSUME UNCHANGED <<over, mail, tasks>>, Word(job'.op) = Word(job.op), Awaits(state') = Awaits(state)
      PROVE  Follows'
  BY <1>1, StillFollows
<1>2. CASE Key
  BY <1>2, KeysFollow
<1>3. CASE Deliver
  BY <1>3, DeliveryFollows
<1>4. CASE CallbackRuns
  <2>1. PICK ok \in BOOLEAN : CallbackReturns(ok)
    BY <1>4 DEF CallbackRuns
  <2>2. job \in Jobs
    BY <2>1, JobWords DEF CallbackReturns
  <2>3. Word(job'.op) = Word(job.op)
    <3>1. CASE job.op = "reset" \/ (job.op = "add" /\ ok)
      BY <2>1, <3>1 DEF CallbackReturns, NoJob, Word, Awaited
    <3>2. CASE ~(job.op = "reset" \/ (job.op = "add" /\ ok))
      BY <2>1, <2>2, <3>2 DEF CallbackReturns, Jobs
    <3> QED BY <3>1, <3>2
  <2> QED BY <1>1, <1>4, <2>1, <2>3 DEF CallbackRuns, CallbackReturns
<1>5. CASE OthersChange
  BY <1>1, <1>5 DEF OthersChange, sessionVars
<1>6. CASE UIGone
  BY <1>6 DEF UIGone, AppStopped, TerminalEnds, EndsSession
<1>7. CASE (LoopStep \/ Signalled \/ Ticks \/ TakesLog \/ SeesClose \/ RefreshStops) /\ UNCHANGED uiVars
  BY <1>1, <1>7 DEF LoopStep, WakeKey, OtherEvent, RunReturns, Signalled, Ticks, TakesLog, SeesClose,
                    RefreshStops, uiVars
<1>8. CASE WorkerStops
  BY <1>8 DEF WorkerStops
<1>9. CASE WorkerTakes /\ UNCHANGED uiVars
  <2>1. ~over
    BY <1>9 DEF WorkerTakes
  <2> QED BY <1>9, <2>1, WorkersFollow DEF uiVars
<1>10. CASE WorkerPosts /\ UNCHANGED uiVars
  <2>1. job \in Messages /\ job' = NoJob /\ Posts(job) /\ UNCHANGED tasks /\ ~over
    BY <1>10, JobWords, JobsAreMessages DEF WorkerPosts
  <2>2. Word(job'.op) = "none"
    BY <2>1 DEF NoJob, Word, Awaited
  <2> QED BY <1>10, <2>1, <2>2, PostsFollow DEF uiVars
<1>11. CASE RefreshPosts /\ UNCHANGED uiVars
  <2> DEFINE m == Message(refresh)
  <2>1. refresh \in {"update", "log", "close"}
    BY <1>11 DEF TypeOK, RefreshPosts
  <2>2. m \in Messages /\ m.op = refresh
    BY <2>1, RefreshMessages
  <2>3. Word(m.op) = "none"
    BY <2>1, <2>2 DEF Word, Awaited
  <2>4. Posts(m) /\ UNCHANGED <<tasks, job>> /\ ~over
    BY <1>11 DEF RefreshPosts
  <2> HIDE DEF m
  <2> QED BY <1>11, <2>2, <2>3, <2>4, PostsFollow DEF uiVars
<1>12. CASE UNCHANGED vars
  BY <1>1, <1>12 DEF vars
<1> QED
  BY <1>2, <1>3, <1>4, <1>5, <1>6, <1>7, <1>8, <1>9, <1>10, <1>11, <1>12 DEF Next, WorkerStep

LEMMA LeavesKept ==
    ASSUME TypeOK, Leaves, [Next]_vars
    PROVE  Leaves'
<1>1. CASE Key
  BY <1>1, KeyQueues DEF Leaves
<1>2. CASE UNCHANGED <<over, app>>
  BY <1>2 DEF Leaves
<1>3. CASE Deliver
  BY <1>3 DEF Deliver, Leaves
<1>4. CASE CallbackRuns \/ OthersChange \/ UNCHANGED vars
  BY <1>2, <1>4 DEF CallbackRuns, CallbackReturns, OthersChange, sessionVars, vars
<1>5. CASE UIGone \/ LoopStep
  BY <1>5 DEF Leaves, UIGone, AppStopped, TerminalEnds, EndsSession, LoopStep, WakeKey, OtherEvent, RunReturns
<1>6. CASE WorkerStep \/ Signalled \/ Ticks \/ TakesLog \/ SeesClose \/ RefreshPosts \/ RefreshStops
  BY <1>2, <1>6 DEF WorkerStep, WorkerStops, WorkerTakes, WorkerPosts, Signalled, Ticks, TakesLog, SeesClose,
                    RefreshPosts, RefreshStops
<1> QED BY <1>1, <1>3, <1>4, <1>5, <1>6 DEF Next

\* What the words say is what the property counts.
LEMMA FollowsState ==
    ASSUME TypeOK, Follows
    PROVE  StateFollowsOperations
<1> SUFFICES ASSUME ~over PROVE StateFollowsOperations
  BY DEF StateFollowsOperations
<1>1. PICK a \in Words, c \in Words :
        Tells(mail, a) /\ Tells(tasks, c) /\ Then(Then(a, Word(job.op)), c) \in Awaits(state)
  BY DEF Follows
<1> DEFINE b == Word(job.op)
           w == Then(Then(a, b), c)
<1>2. mail \in Seq(Messages) /\ tasks \in Seq(Messages)
  BY TasksAreMessages DEF TypeOK
<1>3. InFlight \in Seq(Messages) /\ Tells(InFlight, b)
  <2>1. CASE worker \in {"running", "posting"}
    <3>1. job \in Messages /\ InFlight = <<job>>
      BY <2>1, JobWords, JobsAreMessages DEF InFlight
    <3> QED BY <3>1, OneTells
  <2>2. CASE worker \notin {"running", "posting"}
    <3>1. InFlight = <<>> /\ b = "none"
      BY <2>2, JobWords DEF InFlight
    <3>2. <<>> \in Seq(Messages) /\ Tells(<<>>, "none")
      BY DEF Tells, Awaited
    <3> QED BY <3>1, <3>2
  <2> QED BY <2>1, <2>2
<1>4. b \in Words /\ w \in Words /\ Then(a, b) \in Words
  BY <1>1, WordIs DEF Awaits, Words, Then
<1>5. Tells(mail \o InFlight, Then(a, b)) /\ mail \o InFlight \in Seq(Messages)
  BY <1>1, <1>2, <1>3, <1>4, ConcatTells
<1>6. Tells(Line, w)
  <2>1. Line = (mail \o InFlight) \o tasks
    BY <1>2, <1>3 DEF Line
  <2> QED BY <1>1, <1>2, <1>4, <1>5, <2>1, ConcatTells
<1>7. DOMAIN Line \subseteq Nat
  BY <1>2, <1>3 DEF Line
<1> HIDE DEF b, w
<1>8. w \in Awaits(state)
  BY <1>1 DEF b, w
<1>9. CASE w = "none"
  <2>1. Underway("stop") = {} /\ Underway("restart") = {}
    BY <1>6, <1>9 DEF Tells, Awaited, Underway
  <2>2. state \in {"running", "stopped"}
    BY <1>8, <1>9 DEF Awaits, TypeOK
  <2> QED BY <2>1, <2>2 DEF StateFollowsOperations
<1>10. CASE w = "stop"
  <2>1. PICK i \in DOMAIN Line : Line[i].op = "stop" /\ \A k \in DOMAIN Line : Line[k].op \in Awaited => k = i
    BY <1>6, <1>10 DEF Tells, Awaited
  <2>2. Underway("stop") = {i}
    BY <2>1 DEF Underway, Awaited
  <2>3. Underway("restart") = {}
    BY <2>1 DEF Underway, Awaited
  <2>4. state = "stopping"
    BY <1>8, <1>10 DEF Awaits
  <2> QED BY <2>2, <2>3, <2>4 DEF StateFollowsOperations
<1>11. CASE w = "restart"
  <2>1. PICK j \in DOMAIN Line : Line[j].op = "restart" /\ \A k \in DOMAIN Line : Line[k].op \in Awaited => k = j
    BY <1>6, <1>11 DEF Tells, Awaited
  <2>2. Underway("restart") = {j}
    BY <2>1 DEF Underway, Awaited
  <2>3. Underway("stop") = {}
    BY <2>1 DEF Underway, Awaited
  <2>4. state = "restarting"
    BY <1>8, <1>11 DEF Awaits
  <2> QED BY <2>2, <2>3, <2>4 DEF StateFollowsOperations
<1>12. CASE w = "both"
  <2>1. PICK i \in DOMAIN Line, j \in DOMAIN Line :
          /\ i < j /\ Line[i].op = "stop" /\ Line[j].op = "restart"
          /\ \A k \in DOMAIN Line : Line[k].op \in Awaited => k = i \/ k = j
    BY <1>6, <1>12 DEF Tells
  <2>2. Underway("stop") = {i}
    BY <2>1 DEF Underway, Awaited
  <2>3. Underway("restart") = {j}
    BY <2>1 DEF Underway, Awaited
  <2>4. state = "restarting"
    BY <1>8, <1>12 DEF Awaits
  <2> QED BY <2>1, <2>2, <2>3, <2>4 DEF StateFollowsOperations
<1> QED BY <1>4, <1>9, <1>10, <1>11, <1>12 DEF Words

-----------------------------------------------------------------------------
(* The theorems.                                                           *)

LEMMA Starts ==
    ASSUME Init
    PROVE  IInv
<1> USE DEF Init, SessionInit
<1>1. live = <<1, 2>> /\ lastID = 2 /\ 2 \in 2 .. MaxID /\ {1, 2} \subseteq 1 .. MaxID
  BY TerminalAssumption
<1>2. Hosts
  <2>1. <<1, 2>> \in Seq(1 .. MaxID) /\ <<1, 2>> # <<>>
    BY <1>1
  <2> QED BY <1>1, <2>1 DEF Hosts, Listed
<1>3. Good(view)
  <2> DEFINE main == NoView(live)
             details == Switch([main EXCEPT !.sel = 1, !.details = 1], "details", "text")
             report == Switch([details EXCEPT !.report = TRUE], "saveReport", "report")
  <2>1. Good(main) /\ ~main.delete.open
    BY <1>2, NothingShown DEF Hosts
  <2>2. ~main.report /\ ~main.web.open
    BY DEF NoView, NoWeb
  <2>3. main \in Views
    BY <2>1 DEF Good
  <2> HIDE DEF main
  <2>4. /\ details \in Views /\ ~details.delete.open /\ ~details.web.open /\ ~details.report
        /\ details.details = 1 /\ details.page = "details" /\ details.focus = "text"
    BY <2>1, <2>2, <2>3 DEF Views, Focuses, Switch
  <2>5. Good(details)
    BY <2>4 DEF Good, Seen, OnTop
  <2> HIDE DEF details
  <2>6. /\ report \in Views /\ ~report.delete.open /\ ~report.web.open /\ report.report
        /\ report.page = "saveReport" /\ report.focus = "report"
    BY <2>4 DEF Views, Focuses, Switch
  <2>7. Good(report)
    BY <2>6 DEF Good, Seen, OnTop
  <2>8. view \in {main, details, report}
    BY DEF main, details
  <2> HIDE DEF report
  <2> QED BY <2>1, <2>5, <2>7, <2>8
<1>4. Flags /\ Working
  BY DEF Flags, Working
<1>5. <<>> \in Seq(Jobs) /\ <<>> \in Seq(Messages) /\ Len(<<>>) = 0 /\ TaskCap \in Nat /\ MailCap \in Nat
  BY TerminalAssumption
<1>6. Queues /\ DeliveryNeverBlocks
  BY <1>5 DEF Queues, DeliveryNeverBlocks
<1>7. Follows
  <2>1. Tells(mail, "none") /\ Tells(tasks, "none")
    BY DEF Tells, Awaited
  <2>2. Then(Then("none", Word(job.op)), "none") \in Awaits(state)
    BY DEF Then, Word, Awaited, Awaits, NoJob
  <2> QED BY <2>1, <2>2 DEF Follows, Words
<1>8. Leaves
  BY DEF Leaves
<1> QED BY <1>2, <1>3, <1>4, <1>6, <1>7, <1>8, TypesAre DEF IInv, Good

LEMMA Steps ==
    ASSUME IInv, [Next]_vars
    PROVE  IInv'
<1>1. TypeOK /\ DeliveryNeverBlocks /\ Leaves /\ Follows /\ Seen(view)
  BY DEF IInv
<1>2. Flags' /\ Working' /\ Hosts' /\ Queues' /\ DeliveryNeverBlocks' /\ Leaves' /\ Follows' /\ Good(view')
  BY <1>1, FlagsKept, WorkingKept, HostsKept, QueuesKept, LeavesKept, OperationsFollow, ViewKept
<1>3. TypeOK'
  <2>1. view' \in Views
    BY <1>2 DEF Good
  <2> QED BY <1>2, <2>1 DEF TypeOK, Flags, Queues, Working, Hosts, Listed
<1> QED BY <1>2, <1>3 DEF IInv, Good

LEMMA Safe == Spec => []IInv
<1>1. Init => IInv
  BY Starts
<1>2. IInv /\ [Next]_vars => IInv'
  BY Steps
<1> QED BY <1>1, <1>2, PTL DEF Spec

\* In every interleaving of keys, callbacks, deliveries and other people's changes
\* the state of the stop and restart keys follows the operations under way, the wake
\* handler never waits on an empty mailbox, and what has the focus is what is on top
\* (input_handler.go, session.go's bind, tui_app.go's restoreFocus and closeDetails).
THEOREM ConsistentState == Spec => []StateIsConsistent
<1>1. IInv => StateIsConsistent
  BY FollowsState, ViewIsSeen DEF IInv, StateIsConsistent
<1> QED BY <1>1, Safe, PTL

\* A delete dialog a key opens names the target that was highlighted, or whose
\* details were open, when the key was pressed, whatever the refresh that the key
\* does puts in its place (delete_dialog.go's deleteSelected).
THEOREM NamedDialogs == Spec => DialogNamesHighlighted
<1> DEFINE Names == keys' # keys /\ ~view.delete.open /\ view'.delete.open =>
                      view'.delete.id = IF view.details # 0 THEN view.details
                                        ELSE IF view.sel # 0 THEN view.sel ELSE Head(live)
<1>1. IInv /\ [Next]_vars => Names
  <2> SUFFICES ASSUME IInv, [Next]_vars, keys' # keys PROVE Names
    OBVIOUS
  <2>1. CASE Key
    BY <2>1, KeyShows DEF IInv, Shown, Highlighted
  <2>2. CASE UIGone
    <3>1. view' = NoView(live) /\ Listed
      BY <2>2, TypesAre DEF UIGone, IInv, Hosts
    <3> QED BY <3>1, NothingShown
  <2>3. UNCHANGED keys \/ Key \/ UIGone
    BY DEF Next, Deliver, CallbackRuns, OthersChange, uiVars, vars
  <2> QED BY <2>1, <2>2, <2>3
<1>2. IInv /\ [Next]_vars => [Names]_vars
  BY <1>1
<1> HIDE DEF Names
<1>3. Spec => [][Names]_vars
  BY <1>2, Safe, PTL DEF Spec
<1> QED BY <1>3 DEF DialogNamesHighlighted, Names
=============================================================================
