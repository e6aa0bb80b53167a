----------------------------- MODULE Accounting -----------------------------
(***************************************************************************)
(* What a target's counters promise (internal/stats/probe.go) of a worker, *)
(* without the numbers on the wire, the history of settled ones, the       *)
(* network, the receiver and the sweep. Every probe has a number of its    *)
(* own, counts once as sent and once as settled, in the window it was      *)
(* created in or not at all, and is discarded only after a stop.           *)
(***************************************************************************)
EXTENDS Integers

CONSTANT Count  \* probes to send, 0 for no limit

VARIABLES
  seq,          \* number of the last probe
  inHand,       \* it was created and neither sent nor given up
  from,         \* window of the operation in progress
  outstanding,  \* probes sent and not settled
  stopped, ended,
  window, sent, recv, loss, cancelled

operation == <<seq, inHand, from>>
tally == <<sent, recv, loss, cancelled>>
vars == <<operation, outstanding, stopped, ended, window, tally>>

\* Probe.update.
One(w) == IF w = window THEN 1 ELSE 0

Init ==
  /\ seq = 0 /\ ~inHand /\ from = 0 /\ outstanding = {}
  /\ ~stopped /\ ~ended
  /\ window = 0 /\ sent = 0 /\ recv = 0 /\ loss = 0 /\ cancelled = 0

\* A lookup begins; it may fail.
Look ==
  /\ ~inHand /\ ~ended
  /\ from' = window
  /\ UNCHANGED <<seq, inHand, outstanding, stopped, ended, window, tally>>

LookFails ==
  /\ ~inHand /\ ~ended
  /\ loss' = loss + One(from)
  /\ UNCHANGED <<operation, outstanding, stopped, ended, window, sent, recv, cancelled>>

Create ==
  /\ ~inHand /\ ~ended
  /\ Count > 0 => seq < Count
  /\ seq' = seq + 1 /\ inHand' /\ from' = window
  /\ UNCHANGED <<outstanding, stopped, ended, window, tally>>

Send ==
  /\ inHand /\ ~inHand'
  /\ outstanding' = outstanding \union {[n |-> seq, window |-> from]}
  /\ sent' = sent + One(from)
  /\ UNCHANGED <<seq, from, stopped, ended, window, recv, loss, cancelled>>

GiveUp ==
  /\ inHand /\ ~inHand'
  /\ loss' \in {loss, loss + One(from)}
  /\ UNCHANGED <<seq, from, outstanding, stopped, ended, window, sent, recv, cancelled>>

\* A reply, or an error or the timeout.
Settle(probe) ==
  /\ probe \in outstanding
  /\ outstanding' = outstanding \ {probe}
  /\ \/ recv' = recv + One(probe.window) /\ UNCHANGED loss
     \/ loss' = loss + One(probe.window) /\ UNCHANGED recv
  /\ UNCHANGED <<operation, stopped, ended, window, sent, cancelled>>

\* OnCancelled.
Discard(probe) ==
  /\ stopped
  /\ probe \in outstanding
  /\ outstanding' = outstanding \ {probe}
  /\ cancelled' = cancelled + One(probe.window)
  /\ UNCHANGED <<operation, stopped, ended, window, sent, recv, loss>>

End ==
  /\ ~inHand /\ ~ended /\ outstanding = {}
  /\ stopped \/ (Count > 0 /\ seq = Count)
  /\ ended'
  /\ UNCHANGED <<operation, outstanding, stopped, window, tally>>

Stop ==
  /\ ~stopped
  /\ stopped'
  /\ UNCHANGED <<operation, outstanding, ended, window, tally>>

\* TargetStats.Reset.
Reset ==
  /\ window' = window + 1
  /\ sent' = 0 /\ recv' = 0 /\ loss' = 0 /\ cancelled' = 0
  /\ UNCHANGED <<operation, outstanding, stopped, ended>>

Next ==
  \/ Look \/ LookFails \/ Create \/ Send \/ GiveUp
  \/ \E probe \in outstanding : Settle(probe) \/ Discard(probe)
  \/ End \/ Stop \/ Reset

Spec == Init /\ [][Next]_vars

=============================================================================
