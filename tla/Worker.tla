------------------------------- MODULE Worker -------------------------------
(***************************************************************************)
(* One target worker of the pinger (internal/pinger/worker.go), the        *)
(* receiver that feeds its reply channel (receiver.go), and the statistics *)
(* window its results are recorded in (internal/stats/probe.go, stats.go). *)
(*                                                                         *)
(* Three actors share the statistics: the worker goroutine, the receiver   *)
(* goroutine through a bounded channel, and the supervisor, which may      *)
(* reset the window or cancel the worker between any two worker steps.     *)
(* The network loses, duplicates, delays and reorders replies.             *)
(*                                                                         *)
(* Time is abstracted: which outstanding probes have timed out is a choice *)
(* of the sweep, oldest first, and the interval and timeout settings only  *)
(* bound how many sends apart two outstanding probes can be (Window).      *)
(***************************************************************************)
EXTENDS Integers, Sequences, FiniteSets

CONSTANTS
  SeqSpace,     \* seqMask + 1
  HistCap,      \* recentSeqHistoryCap
  Window,       \* sends within one timeout: timeout / interval, rounded up
  Lifetime,     \* sends after which no reply to a probe is left anywhere
  ReplyBuffer,  \* replyChanBuffer
  Count,        \* probes to send, 0 for no limit
  MaxSeq,       \* bound: probes a run sends when there is no limit
  MaxResets,    \* bound: resets of the statistics
  MaxErrors,    \* bound: probes and lookups that fail locally
  MaxExtra      \* bound: replies the network duplicates

\* The settings allow 30 s of timeout and 100 ms of interval: Window is at most
\* 301 in the program, which has a sequence space of 65536 and a history of 512.
ASSUME SeqAssumption ==
  /\ {SeqSpace, Window, Lifetime, ReplyBuffer} \subseteq Nat \ {0}
  /\ HistCap \in Nat \ {0}
  /\ Window < SeqSpace
  /\ Lifetime <= SeqSpace
ASSUME WorkerBounds == {Count, MaxSeq, MaxResets, MaxErrors, MaxExtra} \subseteq Nat

LastSeq == IF Count > 0 THEN Count ELSE MaxSeq

Wires == 0..(SeqSpace - 1)

\* A probe is its logical sequence number and the statistics window it was
\* created in (stats.Probe); None marks a free wire sequence number.
Windows == 0..MaxResets
ProbeRecords == [n : 1..LastSeq, window : Windows]
None == [n |-> 0, window |-> 0]

Kinds == {"acked", "timeout"}
Replies == [n : 1..LastSeq, err : BOOLEAN]

VARIABLES
  pc,        \* where the worker goroutine is
  seq,       \* logical sequence number of the last probe
  resolved,  \* dstAddr is known
  window0,   \* statistics window captured by the operation in progress
  unacked,   \* the outstanding probe of every wire sequence number
  hist,      \* recentSeqHistory, oldest first
  doneSending, listening,   \* listening: replyCh was set to the channel
  expired,   \* probes the sweep in progress still has to record
  \* Shared with the receiver and the supervisor.
  ch,        \* the reply channel
  routed,    \* targetChans holds the channel
  stopping,  \* the context was cancelled or the pinger stopped
  network,   \* probes a reply to which may still arrive
  extra,     \* replies the network duplicated
  \* TargetStats.
  window,    \* probeEpoch
  sent, recv, loss, cancelled, duplicates, lateReplies,
  unsent     \* history variable: the part of loss with no probe on the wire

counters == <<sent, recv, loss, cancelled, duplicates, lateReplies, unsent>>
tracking == <<unacked, hist, expired>>
sending == <<seq, resolved, window0, doneSending, listening>>
outside == <<ch, routed, stopping, network, extra>>
vars == <<pc, sending, tracking, outside, window, counters>>

-----------------------------------------------------------------------------
(* Helpers.                                                                *)

ShortMask(n) == n % ((SeqSpace + 1) \div 2)
Wire(n) == n % SeqSpace

Outstanding == {w \in Wires : unacked[w] # None}

\* Probe.update: an update of an earlier window is ignored.
AnyWindow(w) == TRUE
Counts(w) == w = window

Add(counter, w) == IF Counts(w) THEN counter + 1 ELSE counter

\* recentSeqHistory.record: remove the entry the index has for the wire number,
\* append the new one, then evict.
Indexed(w) == {i \in DOMAIN hist : Wire(hist[i].n) = w}
Without(i) ==
  [j \in 1..(Len(hist) - 1) |-> IF j < i THEN hist[j] ELSE hist[j + 1]]
Record(probe, kind) ==
  LET old == Indexed(Wire(probe.n))
      others == IF old = {} THEN hist ELSE Without(CHOOSE i \in old : TRUE)
      all == Append(others, [n |-> probe.n, window |-> probe.window, kind |-> kind])
  IN IF Len(all) > HistCap THEN Tail(all) ELSE all

\* The end of an iteration of the worker's loop.
LeavesStragglers(outstanding, over) == IF over THEN "exiting" ELSE "loop"
AfterIteration(outstanding, over) ==
  IF over /\ outstanding = {} THEN "exiting" ELSE "loop"

-----------------------------------------------------------------------------
(* The worker goroutine.                                                   *)

\* resolveTargetContext captures the window before the lookup begins, at the
\* start, on the DNS ticker, and on a send with no address.
BeginLookup(from) ==
  /\ window0' = window
  /\ pc' = from
  /\ UNCHANGED <<seq, resolved, doneSending, listening, tracking, outside,
                 window, counters>>

FirstLookup == pc = "start" /\ BeginLookup("lookup")
TickerLookup == pc = "loop" /\ BeginLookup("lookup")
SendLookup ==
  /\ pc = "loop" /\ ~doneSending /\ ~resolved
  /\ BeginLookup("sendLookup")

\* The first two return to the loop; a send goes on when it has an address.
LookupSucceeds ==
  /\ pc \in {"lookup", "sendLookup"}
  /\ ~stopping
  /\ resolved' = TRUE
  /\ pc' = IF pc = "sendLookup" THEN "send"
           ELSE AfterIteration(Outstanding, doneSending)
  /\ UNCHANGED <<seq, window0, doneSending, listening, tracking, outside,
                 window, counters>>

\* A failed lookup is a loss, unless it failed because of the stop.
LookupFails ==
  /\ pc \in {"lookup", "sendLookup"}
  /\ \/ stopping /\ UNCHANGED <<loss, unsent>>
     \/ ~stopping /\ unsent < MaxErrors
        /\ loss' = Add(loss, window0) /\ unsent' = Add(unsent, window0)
  /\ pc' = IF pc = "sendLookup" THEN "loop"
           ELSE AfterIteration(Outstanding, doneSending)
  /\ UNCHANGED <<sending, tracking, outside, window, sent, recv, cancelled,
                 duplicates, lateReplies>>

\* sendTimer: the next number and the probe's window. Replies that are too old
\* are gone by then, and the probes Window sends ago have timed out.
NextProbe ==
  /\ \/ pc = "loop" /\ ~doneSending /\ resolved
     \/ pc = "send"
  /\ seq < LastSeq
  /\ \A w \in Outstanding : seq + 1 - unacked[w].n < Window
  /\ \A i \in DOMAIN ch : seq + 1 - ch[i].n < Lifetime
  /\ seq' = seq + 1
  /\ network' = {n \in network : seq + 1 - n < Lifetime}
  /\ window0' = window
  /\ pc' = "write"
  /\ UNCHANGED <<resolved, doneSending, listening, tracking, ch, routed,
                 stopping, extra, window, counters>>

\* WriteTo succeeded: a reply may be under way before IncSent.
WriteSucceeds ==
  /\ pc = "write"
  /\ network' = network \union {seq}
  /\ pc' = "track"
  /\ UNCHANGED <<sending, tracking, ch, routed, stopping, extra, window,
                 counters>>

\* No socket of the family, or WriteTo failed: a loss that was never sent. A
\* probe that cannot be marshalled is not counted at all.
WriteFails ==
  /\ pc = "write"
  /\ unsent < MaxErrors
  /\ \/ loss' = Add(loss, window0) /\ unsent' = Add(unsent, window0)
     \/ UNCHANGED <<loss, unsent>>
  /\ doneSending' = (Count > 0 /\ seq >= Count)
  /\ pc' = AfterIteration(Outstanding, doneSending')
  /\ UNCHANGED <<seq, resolved, window0, listening, tracking, outside, window,
                 sent, recv, cancelled, duplicates, lateReplies>>

\* IncSent, and the probe becomes outstanding.
Track ==
  /\ pc = "track"
  /\ sent' = Add(sent, window0)
  /\ unacked' = [unacked EXCEPT ![Wire(seq)] = [n |-> seq, window |-> window0]]
  /\ listening' = TRUE
  /\ doneSending' = (Count > 0 /\ seq >= Count)
  /\ pc' = "loop"
  /\ UNCHANGED <<seq, resolved, window0, hist, expired, outside, window, recv,
                 loss, cancelled, duplicates, lateReplies, unsent>>

\* settleReply for a probe that is outstanding.
ReplySettles ==
  /\ pc = "loop" /\ listening /\ ch # <<>>
  /\ LET r == Head(ch)
         probe == unacked[Wire(r.n)]
     IN /\ probe # None
        /\ unacked' = [unacked EXCEPT ![Wire(r.n)] = None]
        /\ hist' = Record(probe, "acked")
        /\ IF r.err
           THEN loss' = Add(loss, probe.window) /\ UNCHANGED recv
           ELSE recv' = Add(recv, probe.window) /\ UNCHANGED loss
        /\ pc' = AfterIteration(Outstanding \ {Wire(r.n)}, doneSending)
  /\ ch' = Tail(ch)
  /\ UNCHANGED <<sending, expired, routed, stopping, network, extra, window,
                 sent, cancelled, duplicates, lateReplies, unsent>>

\* settleReply for any other reply: a duplicate, a late reply, or neither.
ReplyIsExtra ==
  /\ pc = "loop" /\ listening /\ ch # <<>>
  /\ LET w == Wire(Head(ch).n)
         Entries(kind) == {i \in DOMAIN hist : Wire(hist[i].n) = w
                                               /\ hist[i].kind = kind}
         Seen(kind, counter) ==
           IF \E i \in Entries(kind) : Counts(hist[i].window)
           THEN counter + 1 ELSE counter
     IN /\ unacked[w] = None
        /\ duplicates' = Seen("acked", duplicates)
        /\ lateReplies' = Seen("timeout", lateReplies)
  /\ ch' = Tail(ch)
  /\ UNCHANGED <<pc, sending, tracking, routed, stopping, network, extra,
                 window, sent, recv, loss, cancelled, unsent>>

\* sweepTimer fires: the probes up to some age are over their timeout.
BeginSweep ==
  /\ pc = "loop" /\ Outstanding # {}
  /\ \E oldest \in Outstanding :
       expired' = {w \in Outstanding : unacked[w].n <= unacked[oldest].n}
  /\ pc' = "sweep"
  /\ UNCHANGED <<sending, unacked, hist, outside, window, counters>>

\* sweepTimeouts visits the map in any order and locks the statistics per probe.
SweepOne ==
  /\ pc = "sweep"
  /\ \E w \in expired :
       /\ unacked' = [unacked EXCEPT ![w] = None]
       /\ hist' = Record(unacked[w], "timeout")
       /\ loss' = Add(loss, unacked[w].window)
       /\ expired' = expired \ {w}
  /\ UNCHANGED <<pc, sending, outside, window, sent, recv, cancelled,
                 duplicates, lateReplies, unsent>>

SweepForgetsExit ==
  /\ pc = "sweep" /\ expired = {}
  /\ pc' = "loop"
  /\ UNCHANGED <<sending, tracking, outside, window, counters>>
SweepEnds ==
  /\ pc = "sweep" /\ expired = {}
  /\ pc' = AfterIteration(Outstanding, doneSending)
  /\ UNCHANGED <<sending, tracking, outside, window, counters>>

\* p.done or the context ends the loop.
SeesStop ==
  /\ pc = "loop" /\ stopping
  /\ pc' = "exiting"
  /\ UNCHANGED <<sending, tracking, outside, window, counters>>

\* The deferred loop over the outstanding probes.
CancelOne ==
  /\ pc = "exiting"
  /\ \E w \in Outstanding :
       /\ unacked' = [unacked EXCEPT ![w] = None]
       /\ cancelled' = Add(cancelled, unacked[w].window)
  /\ UNCHANGED <<pc, sending, hist, expired, outside, window, sent, recv, loss,
                 duplicates, lateReplies, unsent>>

Exit ==
  /\ pc = "exiting" /\ Outstanding = {}
  /\ pc' = "exited"
  /\ UNCHANGED <<sending, tracking, outside, window, counters>>

-----------------------------------------------------------------------------
(* The receiver, the network and the supervisor.                           *)

\* handleEchoReply, handleICMPError: a full channel drops the reply. The network
\* may deliver the reply again unless "last" says that it was the last copy.
Deliver(n, err, last) ==
  /\ n \in network
  /\ IF last
     THEN network' = network \ {n} /\ UNCHANGED extra
     ELSE extra < MaxExtra /\ extra' = extra + 1 /\ UNCHANGED network
  /\ ch' = IF routed /\ Len(ch) < ReplyBuffer
           THEN Append(ch, [n |-> n, err |-> err]) ELSE ch
  /\ UNCHANGED <<pc, sending, tracking, routed, stopping, window, counters>>

\* RemoveTarget unroutes the worker's ID before it cancels the worker.
Unroute ==
  /\ ~stopping /\ routed
  /\ routed' = FALSE
  /\ UNCHANGED <<pc, sending, tracking, ch, stopping, network, extra, window,
                 counters>>

\* RemoveTarget goes on to cancel; Stop cancels at once.
Cancel ==
  /\ ~stopping
  /\ stopping' = TRUE
  /\ UNCHANGED <<pc, sending, tracking, ch, routed, network, extra, window,
                 counters>>

\* TargetStats.Reset, also on a target whose worker has exited.
Reset ==
  /\ window < MaxResets
  /\ window' = window + 1
  /\ sent' = 0 /\ recv' = 0 /\ loss' = 0 /\ cancelled' = 0
  /\ duplicates' = 0 /\ lateReplies' = 0 /\ unsent' = 0
  /\ UNCHANGED <<pc, sending, tracking, outside>>

-----------------------------------------------------------------------------

Init ==
  /\ pc = "start"
  /\ seq = 0
  /\ resolved = FALSE
  /\ window0 = 0
  /\ unacked = [w \in Wires |-> None]
  /\ hist = <<>>
  /\ doneSending = FALSE
  /\ listening = FALSE
  /\ expired = {}
  /\ ch = <<>>
  /\ routed = TRUE
  /\ stopping = FALSE
  /\ network = {}
  /\ extra = 0
  /\ window = 0
  /\ sent = 0 /\ recv = 0 /\ loss = 0 /\ cancelled = 0
  /\ duplicates = 0 /\ lateReplies = 0 /\ unsent = 0

WorkerStep ==
  \/ FirstLookup \/ TickerLookup \/ SendLookup \/ LookupSucceeds \/ LookupFails
  \/ NextProbe \/ WriteSucceeds \/ WriteFails \/ Track
  \/ ReplySettles \/ ReplyIsExtra
  \/ BeginSweep \/ SweepOne \/ SweepEnds
  \/ SeesStop \/ CancelOne \/ Exit

Next ==
  \/ WorkerStep
  \/ \E n \in 1..LastSeq, err, last \in BOOLEAN : Deliver(n, err, last)
  \/ Unroute \/ Cancel \/ Reset

\* The goroutine runs, its write and lookup calls return (they are bounded by
\* contexts), and a select with several ready cases picks each sooner or later.
\* Nothing promises that a host resolves or a reply arrives.
Fairness ==
  /\ WF_vars(LookupSucceeds \/ LookupFails)
  /\ WF_vars(FirstLookup)
  /\ WF_vars(WriteSucceeds \/ WriteFails)
  /\ WF_vars(pc = "send" /\ NextProbe)
  /\ WF_vars(Track)
  /\ SF_vars(BeginSweep)
  /\ WF_vars(SweepOne \/ SweepEnds)
  /\ SF_vars(SeesStop)
  /\ WF_vars(CancelOne \/ Exit)

Spec == Init /\ [][Next]_vars
FairSpec == Spec /\ Fairness

-----------------------------------------------------------------------------
(* Properties.                                                             *)

Entries == [n : 1..LastSeq, window : Windows, kind : Kinds]

SendingOK ==
  /\ pc \in {"start", "lookup", "sendLookup", "loop", "send", "write", "track",
             "sweep", "exiting", "exited"}
  /\ seq \in 0..LastSeq
  /\ resolved \in BOOLEAN /\ doneSending \in BOOLEAN /\ listening \in BOOLEAN
  /\ window0 \in Windows

TrackingOK ==
  /\ unacked \in [Wires -> ProbeRecords \union {None}]
  /\ hist \in Seq(Entries) /\ Len(hist) <= HistCap
  /\ expired \in SUBSET Wires

OutsideOK ==
  /\ ch \in Seq(Replies) /\ Len(ch) <= ReplyBuffer
  /\ routed \in BOOLEAN /\ stopping \in BOOLEAN
  /\ network \in SUBSET (1..LastSeq)
  /\ extra \in 0..MaxExtra

CountersOK ==
  /\ window \in Windows
  /\ sent \in Nat /\ recv \in Nat /\ loss \in Nat /\ cancelled \in Nat
  /\ duplicates \in Nat /\ lateReplies \in Nat /\ unsent \in Nat

\* The values the worker's variables and the counters take; the history of
\* settled sequence numbers never outgrows its capacity.
TypeOK == SendingOK /\ TrackingOK /\ OutsideOK /\ CountersOK

\* The outstanding probes of this statistics window.
Current == {w \in Outstanding : unacked[w].window = window}

\* Every probe sent in this statistics window is answered, lost, cancelled or
\* still outstanding, exactly one of them, through resets at any moment, wrapped
\* sequence numbers, duplicates and cancellation.
EveryProbeAccounted ==
  /\ TypeOK
  /\ sent = recv + (loss - unsent) + cancelled
            + Cardinality(Current)

\* A reply is only ever credited to, or counted as a duplicate of, the probe it
\* answers: a wrapped sequence number never makes it match another probe.
RepliesMatchTheirProbe ==
  pc = "loop" /\ listening =>
  \A i \in DOMAIN ch :
    LET w == Wire(ch[i].n) IN
    /\ unacked[w] # None => unacked[w].n = ch[i].n
    /\ unacked[w] = None =>
         \A j \in DOMAIN hist : Wire(hist[j].n) = w => hist[j].n = ch[i].n

\* A worker that ends by itself has used up its count and waited for all its
\* probes: only a user operation discards an outstanding probe.
FinishesOnlyWhenSettled ==
  pc \in {"exiting", "exited"} /\ ~stopping =>
    seq = Count /\ doneSending /\ Outstanding = {} /\ cancelled = 0

\* Once the last probe was sent, or the worker was cancelled, the worker ends,
\* even if the host never answers.
WorkerEnds == (doneSending \/ stopping) ~> pc = "exited"

\* However numbers wrap on the wire and replies come, what the worker counts is
\* what Accounting counts of probes that have a number of their own for ever: no
\* probe takes the place of an outstanding one, and each is settled once.
Promise == INSTANCE Accounting WITH
  inHand <- pc \in {"write", "track"},
  from <- window0,
  outstanding <- {unacked[w] : w \in Outstanding},
  stopped <- stopping,
  ended <- pc = "exited"

ImplementsAccounting == Promise!Spec

=============================================================================
