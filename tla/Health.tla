------------------------------- MODULE Health -------------------------------
(***************************************************************************)
(* The statistics window of one target: the judgment of its health from    *)
(* consecutive outcomes and from the recent window's buckets, the event    *)
(* log that folds repeated failures, and the ring of the last samples with *)
(* the extremes of the RTT.  One outcome is one critical section of the    *)
(* target's lock.  log is a history variable: every outcome since the last *)
(* reset, against which the incremental state is checked.                  *)
(***************************************************************************)
EXTENDS Integers, Sequences, FiniteSets, FiniteSetsExt

CONSTANTS
  Reasons,       \* why a probe is lost
  RTTs,          \* round-trip times
  RTTWarn, RTTCrit, LossWarn, LossCrit,   \* Thresholds (loss in percent)
  Failures, Recoveries,                   \* HealthPolicy
  Windows,       \* the windows a policy may have, in seconds
  HistorySize,   \* historySize
  MaxEvents,     \* maxTargetEvents
  MaxOutcomes, MaxTime, Gaps, MaxEdits \* bounds of the model

ASSUME HealthAssumption ==
  /\ RTTs \subseteq Nat \ {0} /\ Windows \subseteq Nat \ {0}
  /\ Failures \in Nat \ {0} /\ Recoveries \in Nat \ {0}
  /\ HistorySize \in Nat \ {0} /\ MaxEvents \in Nat \ {0}
  /\ {RTTWarn, RTTCrit, LossWarn, LossCrit} \subseteq Nat
  /\ RTTWarn < RTTCrit /\ LossWarn < LossCrit
  /\ MaxTime \in Nat \ {0} /\ {MaxOutcomes, MaxEdits} \subseteq Nat /\ Gaps \subseteq Nat
ASSUME ReasonAssumption == "" \notin Reasons

VARIABLES
  now,           \* the second
  window,        \* policy.Window
  buckets,       \* outcomeBucket by second modulo their number; <<>> when dropped
  since,         \* the outcomes before the buckets were last dropped (history)
  failures, successes, down,
  judged,        \* status, and the counts and the time it was judged by
  lastError, lastRTT,
  events, eventsDropped,
  ring,          \* rtt.history, historyTimes and their indices
  extremes,      \* rtt.min, rtt.max, rtt.sum, rtt.samples
  log,           \* the outcomes since the last reset (history variable)
  resets,        \* resets and policy changes so far
  reconfigured

hvars == <<now, window, buckets, since, failures, successes, down, judged, lastError,
           lastRTT, events, eventsDropped, ring, extremes, log, resets, reconfigured>>

NoBucket == [second |-> 0, replies |-> 0, losses |-> 0]
NoJudgment == [status |-> "", received |-> 0, lost |-> 0, at |-> 0]
NoRing == [slot |-> [i \in 0..HistorySize - 1 |-> [rtt |-> 0, at |-> 0]], idx |-> 0, len |-> 0]
NoExtremes == [min |-> 0, max |-> 0, sum |-> 0, samples |-> 0]

HealthInit ==
  /\ now = 1 /\ since = 0 /\ resets = 0 /\ reconfigured = 0
  /\ window \in Windows
  /\ buckets = <<>>
  /\ failures = 0 /\ successes = 0 /\ down = FALSE
  /\ judged = NoJudgment
  /\ lastError = "" /\ lastRTT = 0
  /\ events = <<>> /\ eventsDropped = 0
  /\ ring = NoRing /\ extremes = NoExtremes
  /\ log = <<>>

-----------------------------------------------------------------------------
(* The recent window: one bucket per second, reused modulo their number.   *)

BucketCount == window + 2
Allocated == IF DOMAIN buckets = 0..BucketCount - 1 THEN buckets
             ELSE [i \in 0..BucketCount - 1 |-> NoBucket]

KeepsCycle(b) == [b EXCEPT !.second = now]
Current(b) == IF b.second # now THEN [NoBucket EXCEPT !.second = now] ELSE b

Tally(b, ok) == IF ok THEN [b EXCEPT !.replies = @ + 1] ELSE [b EXCEPT !.losses = @ + 1]
Counted(ok) == [Allocated EXCEPT ![now % BucketCount] = Tally(Current(@), ok)]

\* The sum of the numbers f[i]: how many pairs there are of an i and a number up to f[i].
Units(f) == UNION {{i} \X (1..f[i]) : i \in DOMAIN f}
SumOf(f) == Cardinality(Units(f))

\* recentHealthLocked
Recent(bs, w) == {i \in DOMAIN bs : bs[i].second > now - w /\ bs[i].second <= now}
Received(bs, w) == SumOf([i \in Recent(bs, w) |-> bs[i].replies])
Lost(bs, w) == SumOf([i \in Recent(bs, w) |-> bs[i].losses])

-----------------------------------------------------------------------------
(* The judgment.                                                           *)

Above(value, warn, crit) == IF value > crit THEN "crit" ELSE IF value > warn THEN "warn" ELSE "ok"
Worst(levels) == IF "crit" \in levels THEN "crit" ELSE IF "warn" \in levels THEN "warn" ELSE "ok"

\* Loss counts once the window holds as many outcomes as make a failure.
Level(received, lost, rtt) ==
  Worst({Above(rtt, RTTWarn, RTTCrit)} \cup
        IF received + lost >= Failures
        THEN {Above(100 * lost, LossWarn * (received + lost), LossCrit * (received + lost))}
        ELSE {})

\* evaluateHealthLocked: down is sticky between its two thresholds.
Down(f, s) == IF f >= Failures THEN TRUE ELSE IF s >= Recoveries THEN FALSE ELSE down
Status(f, s, received, lost, rtt) ==
  IF Down(f, s) THEN "crit"
  ELSE IF f > 0 /\ Level(received, lost, rtt) = "ok" THEN "warn"
  ELSE Level(received, lost, rtt)

Judgment(f, s, bs, w, rtt) ==
  [status |-> Status(f, s, Received(bs, w), Lost(bs, w), rtt),
   received |-> Received(bs, w), lost |-> Lost(bs, w), at |-> now]

-----------------------------------------------------------------------------
(* Events.  of counts the replies and resets before the first failure an   *)
(* event stands for (history).                                             *)

RepliesSoFar == Cardinality({i \in DOMAIN log : log[i].ok})
Event(kind, msg) == [kind |-> kind, msg |-> msg, count |-> 1, of |-> RepliesSoFar, resets |-> resets,
                     apart |-> FALSE]

\* The last event that is not a health transition.
SkipsRecovery(es) == {i \in DOMAIN es : es[i].kind = "ping"}
Foldable(es) == {i \in DOMAIN es : es[i].kind # "health"}
Folds(es, e) ==
  /\ e.kind = "ping" /\ Foldable(es) # {}
  /\ es[Max(Foldable(es))].kind = "ping" /\ es[Max(Foldable(es))].msg = e.msg
Trimmed(es) == IF Len(es) > MaxEvents THEN Tail(es) ELSE es

Repeated(old, e) ==
  [old EXCEPT !.count = @ + 1, !.apart = @ \/ old.of # e.of \/ old.resets # e.resets]

\* recordEventLocked
Told(es, e) ==
  IF Folds(es, e) THEN [es EXCEPT ![Max(Foldable(es))] = Repeated(@, e)]
  ELSE Trimmed(Append(es, e))
Drops(es, e) == IF ~Folds(es, e) /\ Len(es) = MaxEvents THEN 1 ELSE 0

\* A status that changes is told after what made it change.
NewStatus(es, j) ==
  IF judged.status # "" /\ j.status # judged.status THEN Told(es, Event("health", j.status)) ELSE es
StatusDrops(es, j) ==
  IF judged.status # "" /\ j.status # judged.status THEN Drops(es, Event("health", j.status)) ELSE 0

-----------------------------------------------------------------------------
(* The ring and the extremes.                                              *)

\* appendHistory and historyTimes
Pushed(rtt) ==
  [slot |-> [ring.slot EXCEPT ![ring.idx % HistorySize] = [rtt |-> rtt, at |-> now]],
   idx |-> ring.idx + 1,
   len |-> Min({ring.len + 1, HistorySize})]

\* reconstructHistoryWindow: the trailing n samples, oldest first.
HistoryWindow(n) ==
  LET k == Min({n, ring.len})
      first == IF ring.len < HistorySize THEN ring.len - k
               ELSE (((ring.idx - k) % HistorySize) + HistorySize) % HistorySize
  IN [i \in 1..k |-> ring.slot[(first + i - 1) % HistorySize]]

\* record
Measured(rtt) ==
  [extremes EXCEPT !.samples = @ + 1, !.sum = @ + rtt,
     !.min = IF @ = 0 \/ rtt < @ THEN rtt ELSE @,
     !.max = IF rtt > @ THEN rtt ELSE @]

-----------------------------------------------------------------------------
(* The outcomes.                                                           *)

Logged(ok, rtt, why) == Append(log, [at |-> now, ok |-> ok, rtt |-> rtt, why |-> why])

\* onSuccessLocked: a recovery is told before the reply counts.
OnSuccess(rtt) ==
  LET es == IF lastError # "" THEN Told(events, Event("recovery", "resumed")) ELSE events
      j == Judgment(0, successes + 1, Counted(TRUE), window, rtt)
  IN
  /\ Len(log) < MaxOutcomes
  /\ events' = NewStatus(es, j)
  /\ eventsDropped' = eventsDropped + StatusDrops(es, j)
       + (IF lastError # "" THEN Drops(events, Event("recovery", "resumed")) ELSE 0)
  /\ buckets' = Counted(TRUE)
  /\ successes' = successes + 1 /\ failures' = 0
  /\ down' = Down(0, successes + 1)
  /\ judged' = j
  /\ ring' = Pushed(rtt) /\ extremes' = Measured(rtt)
  /\ lastRTT' = rtt /\ lastError' = ""
  /\ log' = Logged(TRUE, rtt, "")
  /\ UNCHANGED <<now, window, since, resets, reconfigured>>

\* onFailureLocked
OnFailure(why) ==
  LET es == Told(events, Event("ping", why))
      j == Judgment(failures + 1, 0, Counted(FALSE), window, lastRTT)
  IN
  /\ Len(log) < MaxOutcomes
  /\ events' = NewStatus(es, j)
  /\ eventsDropped' = eventsDropped + Drops(events, Event("ping", why)) + StatusDrops(es, j)
  /\ buckets' = Counted(FALSE)
  /\ failures' = failures + 1 /\ successes' = 0
  /\ down' = Down(failures + 1, 0)
  /\ judged' = j
  /\ ring' = Pushed(0)
  /\ lastError' = why
  /\ log' = Logged(FALSE, 0, why)
  /\ UNCHANGED <<now, window, since, lastRTT, extremes, resets, reconfigured>>

\* Reset: a new statistics window; the events stay.
ResetHealth ==
  /\ resets + reconfigured < MaxEdits
  /\ resets' = resets + 1
  /\ events' = Told(events, Event("reset", ""))
  /\ eventsDropped' = eventsDropped + Drops(events, Event("reset", ""))
  /\ buckets' = <<>> /\ since' = 0
  /\ failures' = 0 /\ successes' = 0 /\ down' = FALSE
  /\ judged' = NoJudgment
  /\ lastError' = "" /\ lastRTT' = 0
  /\ ring' = NoRing /\ extremes' = NoExtremes
  /\ log' = <<>>
  /\ UNCHANGED <<now, window, reconfigured>>

\* ConfigureHealth: another window drops the buckets; it judges at once.
ConfigureHealth(w) ==
  LET bs == IF w = window THEN buckets ELSE <<>>
      j == IF log = <<>> THEN [NoJudgment EXCEPT !.status = "pending", !.at = now]
           ELSE Judgment(failures, successes, bs, w, lastRTT)
  IN
  /\ resets + reconfigured < MaxEdits
  /\ reconfigured' = reconfigured + 1
  /\ window' = w /\ buckets' = bs
  /\ since' = IF w = window THEN since ELSE Len(log)
  /\ judged' = j
  /\ events' = NewStatus(events, j)
  /\ eventsDropped' = eventsDropped + StatusDrops(events, j)
  /\ UNCHANGED <<now, failures, successes, down, lastError, lastRTT, ring, extremes, log, resets>>

\* The clock moves on, by more than the window if probes pause.
Passes(n) ==
  /\ now + n <= MaxTime
  /\ now' = now + n
  /\ UNCHANGED <<window, buckets, since, failures, successes, down, judged, lastError,
                 lastRTT, events, eventsDropped, ring, extremes, log, resets, reconfigured>>

HealthNext ==
  \/ \E rtt \in RTTs : OnSuccess(rtt)
  \/ \E why \in Reasons : OnFailure(why)
  \/ ResetHealth
  \/ \E w \in Windows : ConfigureHealth(w)
  \/ \E n \in Gaps : Passes(n)

HealthSpec == HealthInit /\ [][HealthNext]_hvars

-----------------------------------------------------------------------------
Outcomes == [at : Nat, ok : BOOLEAN, rtt : Nat, why : Reasons \cup {""}]
Buckets == [second : Nat, replies : Nat, losses : Nat]
Statuses == {"", "pending", "ok", "warn", "crit"}
Events == [kind : {"ping", "recovery", "health", "reset"},
           msg : Reasons \cup Statuses \cup {"resumed"},
           count : Nat, of : Nat, resets : Nat, apart : BOOLEAN]
Samples == [rtt : Nat, at : Nat]

HealthTypeOK ==
  /\ now \in 1..MaxTime /\ window \in Windows
  /\ resets \in Nat /\ reconfigured \in Nat /\ resets + reconfigured <= MaxEdits
  /\ buckets = <<>> \/ buckets \in [0..BucketCount - 1 -> Buckets]
  /\ log \in Seq(Outcomes) /\ Len(log) <= MaxOutcomes /\ since \in 0..Len(log)
  /\ failures \in 0..MaxOutcomes /\ successes \in 0..MaxOutcomes /\ down \in BOOLEAN
  /\ judged \in [status : Statuses, received : Nat, lost : Nat, at : Nat]
  /\ lastError \in Reasons \cup {""} /\ lastRTT \in Nat
  /\ events \in Seq(Events) /\ Len(events) <= MaxEvents /\ eventsDropped \in Nat
  /\ ring \in [slot : [0..HistorySize - 1 -> Samples], idx : Nat, len : 0..HistorySize]
  /\ extremes \in [min : Nat, max : Nat, sum : Nat, samples : Nat]

RunEndsAt(i, n, ok) == i >= n /\ \A j \in (i - n + 1)..i : log[j].ok = ok

\* A target is unavailable exactly from its Failures-th consecutive loss until
\* its Recoveries-th consecutive reply after that, whatever lies between.
\* (evaluateHealthLocked keeps two counters and a flag.)
DownFollowsRuns ==
  down <=> \E i \in DOMAIN log :
             /\ RunEndsAt(i, Failures, FALSE)
             /\ \A j \in DOMAIN log : j > i => ~RunEndsAt(j, Recoveries, TRUE)

\* The counts a status was judged by are those of the outcomes in the window
\* before the judgment: a reused bucket never brings back an older second.
RecentIsExact ==
  LET recent(ok) == {i \in (since + 1)..Len(log) :
                       log[i].ok = ok /\ log[i].at > judged.at - window /\ log[i].at <= judged.at}
  IN judged.status \notin {"", "pending"} =>
       judged.received = Cardinality(recent(TRUE)) /\ judged.lost = Cardinality(recent(FALSE))

\* Losses folded into one event followed one another: no reply and no reset came
\* between, though health transitions may have. (recordEventLocked.)
FoldsAreConsecutive == \A i \in DOMAIN events : ~events[i].apart

\* Within a statistics window the last health event names the present status,
\* whichever outcome, policy change or passing of time changed it.
StatusIsTold ==
  LET own == {i \in DOMAIN events : events[i].kind = "health" /\ events[i].resets = resets}
  IN own # {} => events[Max(own)].msg = judged.status

\* Every trailing window of the ring is the tail of what was recorded, in order,
\* with its times, before and after the ring wraps. (reconstructHistoryWindow,
\* HistorySamples.)
HistoryIsTail ==
  \A n \in 0..HistorySize + 1 :
    LET k == Min({n, HistorySize, Len(log)}) IN
    HistoryWindow(n) = [i \in 1..k |-> [rtt |-> log[Len(log) - k + i].rtt,
                                        at |-> log[Len(log) - k + i].at]]

\* The extremes, the sum and the count are those of the replies; a loss, which
\* the history keeps as zero, leaves them alone. (rttAccumulator.record.)
ExtremesAreExact ==
  LET replies == {i \in DOMAIN log : log[i].ok}
      rtts == {log[i].rtt : i \in replies}
  IN /\ extremes.samples = Cardinality(replies)
     /\ extremes.sum = SumOf([i \in replies |-> log[i].rtt])
     /\ rtts # {} => extremes.min = Min(rtts) /\ extremes.max = Max(rtts)

\* What is kept incrementally of the outcomes (buckets, counters, a flag, a ring,
\* extremes) says the same as the outcomes themselves, at every moment.
HealthIsExact ==
  /\ HealthTypeOK
  /\ DownFollowsRuns /\ RecentIsExact
  /\ HistoryIsTail /\ ExtremesAreExact

\* The event log tells what happened: its folds hide nothing, and the health it
\* told last is the present one (recordEventLocked).
EventsAreTrue == FoldsAreConsecutive /\ StatusIsTold
=============================================================================
