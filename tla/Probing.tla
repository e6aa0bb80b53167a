------------------------------ MODULE Probing -------------------------------
(***************************************************************************)
(* What the route engine is promised of NextTraceID and ProbeHop           *)
(* (internal/pinger/mtr_probe.go), without the socket, the network, the    *)
(* receiver and the channels between them. A call holds an ID of its own   *)
(* from its reservation to its return, and is told of one router at most:  *)
(* the one at the TTL it asked for.                                        *)
(***************************************************************************)
EXTENDS Integers, FiniteSets

CONSTANTS
  Probes,  \* the calls
  Slots,   \* MaxConcurrentProbes
  IDs,
  TTLs

VARIABLES
  call,    \* new, open or done
  number,  \* the ID of each call
  asked,   \* the TTL of each call
  heard    \* the hop whose router it names, 0 for none

vars == <<call, number, asked, heard>>

Open == {n \in Probes : call[n] = "open"}

Init ==
  /\ call = [n \in Probes |-> "new"]
  /\ number = [n \in Probes |-> 0]
  /\ asked = [n \in Probes |-> 1]
  /\ heard = [n \in Probes |-> 0]

\* NextTraceID: any ID no other call holds.
Begin(n) ==
  /\ call[n] = "new"
  /\ Cardinality(Open) < Slots
  /\ call' = [call EXCEPT ![n] = "open"]
  /\ \E i \in IDs \ {number[m] : m \in Open} : number' = [number EXCEPT ![n] = i]
  /\ \E h \in TTLs : asked' = [asked EXCEPT ![n] = h]
  /\ UNCHANGED heard

\* acceptHopPacket, once.
Hear(n) ==
  /\ call[n] = "open"
  /\ heard[n] = 0
  /\ heard' = [heard EXCEPT ![n] = asked[n]]
  /\ UNCHANGED <<call, number, asked>>

\* ProbeHop returned: what it kept is gone, and its ID is free.
End(n) ==
  /\ call[n] = "open"
  /\ call' = [call EXCEPT ![n] = "done"]
  /\ asked' = [asked EXCEPT ![n] = 1]
  /\ heard' = [heard EXCEPT ![n] = 0]
  /\ UNCHANGED number

Next == \E n \in Probes : Begin(n) \/ Hear(n) \/ End(n)

Spec == Init /\ [][Next]_vars

=============================================================================
