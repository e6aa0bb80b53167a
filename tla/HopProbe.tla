------------------------------ MODULE HopProbe ------------------------------
(***************************************************************************)
(* Concurrent TTL-limited probes (internal/pinger/mtr_probe.go): the IDs   *)
(* they reserve (targets.go), the channels replies are dispatched to       *)
(* (receiver.go), and the IPv4 socket they share, whose TTL is a property  *)
(* of the socket and not of the packet.                                    *)
(*                                                                         *)
(* Every call of NextTraceID and ProbeHop is one probe, numbered in the    *)
(* order of their reservations. The network loses, delays and duplicates.  *)
(***************************************************************************)
EXTENDS Integers, Sequences, FiniteSets

CONSTANTS
  MaxProbes,   \* bound: calls of ProbeHop
  Slots,       \* MaxConcurrentProbes
  IDSpace,     \* idPartitionSize
  MaxTTL,      \* Config.MaxHops
  Buffer,      \* traceChanBuffer
  Lifetime,    \* reservations after which no reply to a probe is left
  MaxExtra     \* bound: replies the network duplicates

ASSUME ProbeAssumption ==
  /\ MaxProbes \in Nat /\ MaxExtra \in Nat
  /\ {Slots, IDSpace, MaxTTL, Buffer, Lifetime} \subseteq Nat \ {0}

\* IDs rotate, so one comes back only after all the others were reserved, or
\* skipped because one of the Slots - 1 other probes holds it: the replies to
\* its last owner are gone. The program has 32768 IDs and 50 slots.
ASSUME RotationAssumption == Lifetime + Slots <= IDSpace + 1

Probes == 1..MaxProbes
TTLs == 1..MaxTTL
IDs == 0..(IDSpace - 1)

\* A reply quotes the ID and the sequence number of the probe, and comes from
\* the router at the TTL the packet had; "probe" is the packet it answers.
Replies == [probe : Probes, id : IDs, seq : TTLs, hop : TTLs]

NoReply == [probe |-> 0, id |-> 0, seq |-> 0, hop |-> 0]

VARIABLES
  trace, traces,   \* IDAllocator: the next ID to try, the reserved ones
  pc, id, ttl,     \* each probe and its arguments
  answer,          \* what ProbeHop returned; NoReply is silence or an error
  traceChans,      \* the probe whose channel is registered for an ID, or 0
  channel,         \* contents of each probe's channel
  sendMu, socketTTL,
  network, extra,
  receiver, found  \* the reply in the receiver's hands, the channel it found

allocator == <<trace, traces>>
probe == <<pc, id, ttl, answer>>
socket == <<sendMu, socketTTL>>
net == <<network, extra>>
reception == <<receiver, found>>
vars == <<allocator, probe, traceChans, channel, socket, net, reception>>

\* The reserved ID is held from NextTraceID to the end of ProbeHop.
Held == {"reserved", "registered", "ttlSet", "written", "waiting",
         "unregister", "release"}
InProgress == {n \in Probes : pc[n] \in Held}

-----------------------------------------------------------------------------

\* IDAllocator.traceID: the first free ID after the last one.
Distance(i) == (i - trace) % IDSpace
IgnoresReserved(i) == i = trace
NextID(i) ==
  /\ i \notin traces
  /\ \A j \in IDs \ traces : Distance(i) <= Distance(j)

Following(i) == (i + 1) % IDSpace

\* NextTraceID, in a goroutine of fanOut that holds a slot. Replies to a probe
\* made Lifetime reservations ago are gone.
Reserve(n) ==
  /\ pc[n] = "new"
  /\ \A m \in 1..(n - 1) : pc[m] # "new"
  /\ Cardinality(InProgress) < Slots
  /\ receiver # NoReply => n - receiver.probe < Lifetime
  /\ \E i \in IDs :
       /\ NextID(i)
       /\ id' = [id EXCEPT ![n] = i]
       /\ traces' = traces \union {i}
       /\ trace' = Following(i)
  /\ ttl' \in {[ttl EXCEPT ![n] = h] : h \in TTLs}
  /\ pc' = [pc EXCEPT ![n] = "reserved"]
  /\ network' = {r \in network : n - r.probe < Lifetime}
  /\ UNCHANGED <<answer, traceChans, channel, socket, extra, reception>>

\* The destination does not resolve, or the pinger stopped.
ResolveFails(n) ==
  /\ pc[n] = "reserved"
  /\ pc' = [pc EXCEPT ![n] = "release"]
  /\ UNCHANGED <<allocator, id, ttl, answer, traceChans, channel, socket, net, reception>>

\* registerTraceChan, before the packet is written.
Register(n) ==
  /\ pc[n] = "reserved"
  /\ traceChans' = [traceChans EXCEPT ![id[n]] = n]
  /\ pc' = [pc EXCEPT ![n] = "registered"]
  /\ UNCHANGED <<allocator, id, ttl, answer, channel, socket, net, reception>>

\* sendMu covers SetTTL and WriteTo. Setting the TTL of an open socket
\* succeeds: ProbeHop ignores its error.
IgnoresLock(n) ==
  /\ pc[n] = "registered"
  /\ sendMu' = n
  /\ socketTTL' = ttl[n]
  /\ pc' = [pc EXCEPT ![n] = "ttlSet"]
  /\ UNCHANGED <<allocator, id, ttl, answer, traceChans, channel, net, reception>>
SetTTL(n) ==
  /\ pc[n] = "registered"
  /\ sendMu = 0
  /\ sendMu' = n
  /\ socketTTL' = ttl[n]
  /\ pc' = [pc EXCEPT ![n] = "ttlSet"]
  /\ UNCHANGED <<allocator, id, ttl, answer, traceChans, channel, net, reception>>

\* The packet is on its way before WriteTo returns.
Write(n) ==
  /\ pc[n] = "ttlSet"
  /\ network' = network \union
       {[probe |-> n, id |-> id[n], seq |-> ttl[n], hop |-> socketTTL]}
  /\ pc' = [pc EXCEPT ![n] = "written"]
  /\ UNCHANGED <<allocator, id, ttl, answer, traceChans, channel, socket,
                 extra, reception>>

KeepsLock(n) ==
  /\ pc[n] = "ttlSet"
  /\ pc' = [pc EXCEPT ![n] = "unregister"]
  /\ UNCHANGED <<allocator, id, ttl, answer, traceChans, channel, socket, net, reception>>
WriteFails(n) ==
  /\ pc[n] = "ttlSet"
  /\ sendMu' = 0
  /\ pc' = [pc EXCEPT ![n] = "unregister"]
  /\ UNCHANGED <<allocator, id, ttl, answer, traceChans, channel, socketTTL, net, reception>>

WriteReturns(n) ==
  /\ pc[n] = "written"
  /\ sendMu' = 0
  /\ pc' = [pc EXCEPT ![n] = "waiting"]
  /\ UNCHANGED <<allocator, id, ttl, answer, traceChans, channel, socketTTL,
                 net, reception>>

\* acceptHopPacket.
Accepts(n, r) == r.id = id[n] /\ r.seq = ttl[n]

\* receiveViaTraceChan: a reply, the timeout, or the context.
TakeReply(n) ==
  /\ pc[n] = "waiting"
  /\ channel[n] # <<>>
  /\ channel' = [channel EXCEPT ![n] = Tail(@)]
  /\ IF Accepts(n, Head(channel[n]))
     THEN /\ answer' = [answer EXCEPT ![n] = Head(channel[n])]
          /\ pc' = [pc EXCEPT ![n] = "unregister"]
     ELSE UNCHANGED <<answer, pc>>
  /\ UNCHANGED <<allocator, id, ttl, traceChans, socket, net, reception>>

ReleasesEarly(n) ==
  /\ pc[n] = "waiting"
  /\ traces' = traces \ {id[n]}
  /\ pc' = [pc EXCEPT ![n] = "unregister"]
  /\ UNCHANGED <<trace, id, ttl, answer, traceChans, channel, socket, net, reception>>
GivesUp(n) ==
  /\ pc[n] = "waiting"
  /\ pc' = [pc EXCEPT ![n] = "unregister"]
  /\ UNCHANGED <<allocator, id, ttl, answer, traceChans, channel, socket, net, reception>>

\* The deferred calls: the channel is unregistered, then the ID is free again and
\* what the call kept is gone.
Unregister(n) ==
  /\ pc[n] = "unregister"
  /\ traceChans' = [traceChans EXCEPT ![id[n]] = 0]
  /\ pc' = [pc EXCEPT ![n] = "release"]
  /\ UNCHANGED <<allocator, id, ttl, answer, channel, socket, net, reception>>

Release(n) ==
  /\ pc[n] = "release"
  /\ traces' = traces \ {id[n]}
  /\ pc' = [pc EXCEPT ![n] = "done"]
  /\ ttl' = [ttl EXCEPT ![n] = 1]
  /\ answer' = [answer EXCEPT ![n] = NoReply]
  /\ channel' = [channel EXCEPT ![n] = <<>>]
  /\ UNCHANGED <<trace, id, traceChans, socket, net, reception>>

-----------------------------------------------------------------------------
(* The receiver.                                                           *)

\* broadcastTrace looks the channel up under the lock and sends after it: the
\* probe may be over by then.
Receive(r) ==
  /\ receiver = NoReply
  /\ r \in network
  /\ receiver' = r
  /\ found' = traceChans[r.id]
  /\ \/ network' = network \ {r} /\ UNCHANGED extra
     \/ extra < MaxExtra /\ extra' = extra + 1 /\ UNCHANGED network
  /\ UNCHANGED <<allocator, probe, traceChans, channel, socket>>

Dispatch ==
  /\ receiver # NoReply
  /\ channel' = IF found # 0 /\ Len(channel[found]) < Buffer
                THEN [channel EXCEPT ![found] = Append(@, receiver)]
                ELSE channel
  /\ receiver' = NoReply /\ found' = 0
  /\ UNCHANGED <<allocator, probe, traceChans, socket, net>>

-----------------------------------------------------------------------------

Init ==
  /\ trace = 0 /\ traces = {}
  /\ pc = [n \in Probes |-> "new"]
  /\ id = [n \in Probes |-> 0]
  /\ ttl = [n \in Probes |-> 1]
  /\ answer = [n \in Probes |-> NoReply]
  /\ traceChans = [i \in IDs |-> 0]
  /\ channel = [n \in Probes |-> <<>>]
  /\ sendMu = 0 /\ socketTTL = 1
  /\ network = {} /\ extra = 0
  /\ receiver = NoReply /\ found = 0

ProbeStep(n) ==
  \/ Reserve(n) \/ ResolveFails(n) \/ Register(n)
  \/ SetTTL(n) \/ Write(n) \/ WriteFails(n) \/ WriteReturns(n)
  \/ TakeReply(n) \/ GivesUp(n) \/ Unregister(n) \/ Release(n)

Next ==
  \/ \E n \in Probes : ProbeStep(n)
  \/ \E r \in network : Receive(r)
  \/ Dispatch

\* Goroutines run, lookups and writes return, a lock is handed to its waiters
\* in turn, and the timer fires: whatever a probe does next by itself, it does.
Advances(n) ==
  \/ ResolveFails(n) \/ Register(n) \/ Write(n) \/ WriteFails(n) \/ WriteReturns(n)
  \/ GivesUp(n) \/ Unregister(n) \/ Release(n)
Fairness == \A n \in Probes : WF_vars(Advances(n)) /\ SF_vars(SetTTL(n))

Spec == Init /\ [][Next]_vars
FairSpec == Spec /\ Fairness

-----------------------------------------------------------------------------
(* Properties.                                                             *)

\* The values of the allocator's, the probes' and the receiver's variables.
TypeOK ==
  /\ trace \in IDs /\ traces \in SUBSET IDs
  /\ pc \in [Probes -> Held \union {"new", "done"}]
  /\ id \in [Probes -> IDs]
  /\ ttl \in [Probes -> TTLs]
  /\ answer \in [Probes -> Replies \union {NoReply}]
  /\ traceChans \in [IDs -> Probes \union {0}]
  /\ channel \in [Probes -> Seq(Replies)]
  /\ sendMu \in Probes \union {0} /\ socketTTL \in TTLs
  /\ network \in SUBSET Replies /\ extra \in 0..MaxExtra
  /\ receiver \in Replies \union {NoReply} /\ found \in Probes \union {0}

\* Probes in progress never share an ID, and every reserved ID belongs to a
\* probe in progress, so none leaks on an error path and the IDs never run out.
IDsAreExclusive ==
  /\ traces = {id[n] : n \in InProgress}
  /\ \A m, n \in InProgress : id[m] = id[n] => m = n

\* From before the packet is written until ProbeHop stops listening, a reply
\* finds the channel of its probe: neither an early reply nor the end of an
\* earlier probe with the same ID makes it miss.
ListenersAreRegistered ==
  \A n \in Probes :
    pc[n] \in {"registered", "ttlSet", "written", "waiting"} => traceChans[id[n]] = n

\* The reply a probe returns answers the packet it sent, and that packet had
\* the TTL of the probe: no hop is credited with another hop's router.
AnswersAreOwn ==
  \A n \in Probes :
    answer[n] # NoReply => answer[n].probe = n /\ answer[n].hop = ttl[n]

\* ProbeHop returns, also when every reply is lost: as only MaxProbes are ever
\* made, again and again none is in progress.
ProbesReturn == []<>(InProgress = {})

\* Whatever lies between a call and its reply, the calls of ProbeHop behave like
\* those of Probing: an ID of its own, and its own hop or silence.
Promise == INSTANCE Probing WITH
  call <- [n \in Probes |-> IF pc[n] \in Held THEN "open" ELSE pc[n]],
  number <- id,
  asked <- ttl,
  heard <- [n \in Probes |-> answer[n].hop]

ImplementsProbing == Promise!Spec

=============================================================================
