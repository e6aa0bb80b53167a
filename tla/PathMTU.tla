------------------------------ MODULE PathMTU ------------------------------
(***************************************************************************)
(* Path MTU discovery at startup (internal/pinger/pmtu.go, pmtu_ipv6.go    *)
(* and cmd/main/startup_probes.go).  An IPv4 path is searched by bisection *)
(* with echoes that must not be fragmented, before the packet size of the  *)
(* session is chosen; an IPv6 path is asked of the kernel and confirmed by *)
(* an echo of that size, in the background, once regular ping has started. *)
(*                                                                         *)
(* Every echo of an IPv4 search carries the same identifier and sequence   *)
(* number and is read from a raw socket that sees all ICMP of the host, so *)
(* an answer that comes after its read deadline is taken for the answer to *)
(* the next, different size.                                               *)
(***************************************************************************)
EXTENDS Integers, Sequences, FiniteSetsExt

CONSTANTS
  Destinations,      \* the targets of the session
  Paths,        \* the paths a target may have: sequences of hop limits
  StartSize,        \* the size the IPv4 search starts from, -interface MTU less headers
  Sizes,        \* the packet sizes the user may ask for
  MinMTU,       \* ipv6MinimumMTU
  MaxProbe,     \* maxProbeMTU: the largest IPv6 packet a probe may be
  MaxAttempts,  \* pmtuMaxAttempts
  Workers,      \* pmtuWorkers
  MaxFaults     \* bound: losses, late answers and expired deadlines of a target

ASSUME PathMTUAssumption ==
  /\ {StartSize, MinMTU, MaxProbe, MaxAttempts, Workers} \subseteq Nat \ {0}
  /\ Sizes \subseteq Nat \ {0}
  /\ Paths \subseteq Seq(Nat) \ {<<>>}
  /\ MaxFaults \in Nat

VARIABLES
  asked,     \* cfg.packetSize
  path,      \* per target, the limit of each hop; hop 1 is the host itself
  kind,      \* per target: "v4", "v6", or "unresolved" when the lookup fails
  phase,     \* "initial", then "pinging" with the IPv6 discovery, then "ended"
  search,    \* per target, the local variables of its discovery
  estimate,  \* per target, the kernel's IPv6 path MTU
  net,       \* per target, the answers on their way
  faults,    \* per target, how often the network or the clock misbehaved
  found,     \* per target, TargetStats.pathMTU
  packetSize \* the packet size the session runs with, 0 before it is chosen

uvars == <<asked, path, kind, phase, search, estimate, net, faults, found, packetSize>>

-----------------------------------------------------------------------------
NoHop == 0
Nothing == [status |-> "none", size |-> 0, hop |-> NoHop]
Idle == [pc |-> "idle", low |-> 0, high |-> 0, size |-> 0, hop |-> NoHop, probes |-> 0]

(* What the path makes of a packet of this size: the first hop it is too   *)
(* large for refuses it, and otherwise the destination echoes it.          *)
Refusing(t, size) == {i \in DOMAIN path[t] \ {1}: path[t][i] < size}
Answer(t, n, size) ==
  IF Refusing(t, size) = {}
    THEN [kind |-> "echo", seq |-> n, hop |-> NoHop, limit |-> size]
    ELSE LET i == Min(Refusing(t, size))
         IN  [kind |-> "tooBig", seq |-> n, hop |-> i, limit |-> path[t][i]]

Fits(t, size) == Refusing(t, size) = {} /\ size <= path[t][1]

Busy == {t \in Destinations: search[t].pc \notin {"idle", "done", "failed"}}
Update(t, s) == search' = [search EXCEPT ![t] = s]
Fault(t) == faults[t] < MaxFaults /\ faults' = [faults EXCEPT ![t] = @ + 1]

MTUInit ==
  /\ asked \in Sizes
  /\ path \in [Destinations -> Paths] /\ kind \in [Destinations -> {"v4", "v6", "unresolved"}]
  /\ \A t \in Destinations: kind[t] = "v6" => \A i \in DOMAIN path[t]: path[t][i] >= MinMTU
  /\ phase = "initial" /\ packetSize = 0
  /\ search = [t \in Destinations |-> Idle] /\ estimate = [t \in Destinations |-> path[t][1]]
  /\ net = [t \in Destinations |-> {}] /\ faults = [t \in Destinations |-> 0]
  /\ found = [t \in Destinations |-> Nothing]

-----------------------------------------------------------------------------
(* The IPv4 search.                                                        *)

(* A worker takes the next target; workers take them in any order here. *)
Claims(t) ==
  /\ search[t].pc = "idle" /\ Cardinality(Busy) < Workers
  /\ phase = "initial" \/ (phase = "pinging" /\ kind[t] = "v6")

(* The least size an IPv4 search tries, which is its baseline: the one      *)
(* asked for, or the size it starts from when that is smaller.             *)
Lowest == IF asked > StartSize THEN StartSize ELSE asked

(* probeInitialPMTU: IPv6 targets are only resolved. *)
Resolves(t) ==
  /\ phase = "initial" /\ Claims(t) /\ kind[t] # "v6"
  /\ Update(t, IF kind[t] = "unresolved" THEN [Idle EXCEPT !.pc = "failed"]
               ELSE [Idle EXCEPT !.pc = "first", !.low = Lowest, !.high = StartSize, !.size = Lowest])
  /\ UNCHANGED <<asked, path, kind, phase, estimate, net, faults, found, packetSize>>

Middle(s) == (s.low + s.high + 1) \div 2

NeedsProof(s, ok, hop) ==  \* mutant: a probe without an answer says nothing about the size
  [s EXCEPT !.pc = "next", !.size = 0, !.low = IF hop = NoHop THEN s.size ELSE @,
            !.high = IF hop = NoHop THEN @ ELSE s.size - 1]
(* discoverIPv4MaxPayload, after a probe: the baseline decides whether the *)
(* path answers at all, and every other probe halves the interval.         *)
Halved(s, ok, hop) ==
  LET narrowed == IF ok THEN [s EXCEPT !.low = s.size]
                  ELSE [s EXCEPT !.high = s.size - 1, !.hop = IF hop = NoHop THEN @ ELSE hop]
      next     == IF s.pc = "waitFirst" \/ s.pc = "first" THEN s ELSE narrowed
  IN  [next EXCEPT !.pc = "next", !.size = 0]
Verdict(t, ok, hop) ==
  Update(t, IF ~ok /\ search[t].pc \in {"first", "waitFirst"} THEN [search[t] EXCEPT !.pc = "failed"]
            ELSE Halved(search[t], ok, hop))

(* The top of the loop: another size, or the interval is down to one. *)
PicksSize(t) ==
  /\ search[t].pc = "next" /\ search[t].low < search[t].high
  /\ Update(t, [search[t] EXCEPT !.pc = "probe", !.size = Middle(search[t]), !.probes = @ + 1])
  /\ UNCHANGED <<asked, path, kind, phase, estimate, net, faults, found, packetSize>>

Found(t) ==
  /\ search[t].pc = "next" /\ search[t].low >= search[t].high
  /\ Update(t, [search[t] EXCEPT !.pc = "done"])
  /\ found' = [found EXCEPT ![t] = [status |-> "probed", size |-> search[t].low, hop |-> search[t].hop]]
  /\ UNCHANGED <<asked, path, kind, phase, estimate, net, faults, packetSize>>

(* canSendPayload writes on a socket of its own; the host itself refuses a *)
(* packet its interface cannot take (EMSGSIZE).                            *)
SendsPayload(t) ==
  LET s == search[t] IN
  /\ s.pc \in {"first", "probe"}
  /\ IF s.size > path[t][1]
       THEN Verdict(t, FALSE, NoHop) /\ UNCHANGED net
       ELSE /\ net' = [net EXCEPT ![t] = @ \cup {Answer(t, 0, s.size)}]
            /\ Update(t, [s EXCEPT !.pc = IF s.pc = "first" THEN "waitFirst" ELSE "wait"])
  /\ UNCHANGED <<asked, path, kind, phase, estimate, faults, found, packetSize>>

(* waitIPv4PMTUReply: any answer of this search, whichever size it is for. *)
ReadsReply(t) ==
  /\ search[t].pc \in {"waitFirst", "wait"}
  /\ \E m \in net[t]:
       /\ net' = [net EXCEPT ![t] = @ \ {m}]
       /\ Verdict(t, m.kind = "echo", m.hop)
  /\ UNCHANGED <<asked, path, kind, phase, estimate, faults, found, packetSize>>

(* The read deadline passes: nothing is coming, or it comes late. *)
ReadTimesOut(t) ==
  /\ search[t].pc \in {"waitFirst", "wait"}
  /\ IF net[t] = {} THEN UNCHANGED faults ELSE Fault(t)
  /\ Verdict(t, FALSE, NoHop)
  /\ UNCHANGED <<asked, path, kind, phase, estimate, net, found, packetSize>>

(* The eight seconds of a target are over, or a socket cannot be opened.   *)
(* A read under way is cut short and counts as no reply.                   *)
Expires(t) ==
  /\ \/ search[t].pc \in {"first", "probe"}
     \/ search[t].pc = "next" /\ search[t].low < search[t].high
  /\ Fault(t)
  /\ Update(t, [search[t] EXCEPT !.pc = "failed"])
  /\ UNCHANGED <<asked, path, kind, phase, estimate, net, found, packetSize>>

-----------------------------------------------------------------------------
(* setupPMTU: the packet size fits every IPv4 path that was measured, and  *)
(* is left alone when a target was found to be IPv6.                       *)
Searched == {t \in Destinations: kind[t] = "v4" /\ search[t].pc = "done"}
ChosenSize ==
  IF Searched # {} /\ \A t \in Destinations: kind[t] # "v6"
    THEN Min({found[t].size: t \in Searched}) ELSE asked
ChoosesSize ==
  /\ phase = "initial" /\ \A t \in Destinations: kind[t] # "v6" => search[t].pc \in {"done", "failed"}
  /\ packetSize' = ChosenSize /\ phase' = "pinging"
  /\ UNCHANGED <<asked, path, kind, search, estimate, net, faults, found>>

-----------------------------------------------------------------------------
(* The IPv6 discovery.                                                     *)
Begins(t) ==
  /\ phase = "pinging" /\ Claims(t)
  /\ Update(t, [Idle EXCEPT !.pc = "query"])
  /\ UNCHANGED <<asked, path, kind, phase, estimate, net, faults, found, packetSize>>

(* The kernel is asked for its estimate, which becomes the result. *)
Queries(t) ==
  /\ search[t].pc = "query"
  /\ Update(t, IF search[t].probes = MaxAttempts THEN [search[t] EXCEPT !.pc = "estimated"]
               ELSE [search[t] EXCEPT !.pc = "write", !.size = estimate[t], !.probes = @ + 1])
  /\ UNCHANGED <<asked, path, kind, phase, estimate, net, faults, found, packetSize>>

Probed(size) == Min({size, MaxProbe})
Writes(t) ==
  LET s == search[t] IN
  /\ s.pc = "write"
  /\ IF Probed(s.size) > estimate[t]   \* EMSGSIZE: the estimate fell meanwhile
       THEN Update(t, [s EXCEPT !.pc = "requery"]) /\ UNCHANGED net
       ELSE /\ net' = [net EXCEPT ![t] = @ \cup {Answer(t, s.probes, Probed(s.size))}]
            /\ Update(t, [s EXCEPT !.pc = "await"])
  /\ UNCHANGED <<asked, path, kind, phase, estimate, faults, found, packetSize>>

(* An echo of the whole probe confirms the size, if the probe had it. *)
Confirms(size) == IF size <= MaxProbe THEN "confirmed" ELSE "estimated"

(* The kernel learns from every refusal that reaches the host; the         *)
(* reader only listens to answers to the attempt it is making.             *)
Arrives(t) ==
  LET s == search[t] IN
  \E m \in net[t]:
    /\ kind[t] = "v6" /\ net' = [net EXCEPT ![t] = @ \ {m}]
    /\ estimate' = [estimate EXCEPT ![t] = IF m.kind = "tooBig" THEN Min({@, m.limit}) ELSE @]
    /\ IF s.pc = "await" /\ m.seq = s.probes
         THEN Update(t, [s EXCEPT !.pc = IF m.kind = "echo" THEN Confirms(s.size) ELSE "requery"])
         ELSE UNCHANGED search
    /\ UNCHANGED <<asked, path, kind, phase, faults, found, packetSize>>

AwaitTimesOut(t) ==
  /\ search[t].pc = "await"
  /\ IF \E m \in net[t]: m.seq = search[t].probes THEN Fault(t) ELSE UNCHANGED faults
  /\ Update(t, [search[t] EXCEPT !.pc = "requery"])
  /\ UNCHANGED <<asked, path, kind, phase, estimate, net, found, packetSize>>

(* After a probe that was not echoed: only a smaller estimate is worth     *)
(* another attempt.                                                        *)
Requeries(t) ==
  /\ search[t].pc = "requery"
  /\ Update(t, [search[t] EXCEPT !.pc = IF estimate[t] >= search[t].size THEN "estimated" ELSE "query",
                                 !.size = Min({@, estimate[t]})])
  /\ UNCHANGED <<asked, path, kind, phase, estimate, net, faults, found, packetSize>>

(* The attempt is cut short by its deadline or by an error: the estimate,  *)
(* if there is one, is kept.                                               *)
Fails6(t) ==
  /\ kind[t] = "v6" /\ search[t].pc \in {"query", "write", "await", "requery"}
  /\ Fault(t)
  /\ Update(t, [search[t] EXCEPT !.pc = IF search[t].size = 0 THEN "failed" ELSE "estimated"])
  /\ UNCHANGED <<asked, path, kind, phase, estimate, net, found, packetSize>>

Stores(t) ==
  /\ search[t].pc \in {"confirmed", "estimated"}
  /\ found' = [found EXCEPT ![t] = [status |-> search[t].pc, size |-> search[t].size, hop |-> NoHop]]
  /\ Update(t, [search[t] EXCEPT !.pc = "done"])
  /\ UNCHANGED <<asked, path, kind, phase, estimate, net, faults, packetSize>>

(* The session ends: what is under way is dropped. *)
Cancels ==
  /\ phase = "pinging" /\ phase' = "ended"
  /\ search' = [t \in Destinations |-> IF t \in Busy THEN [search[t] EXCEPT !.pc = "failed"] ELSE search[t]]
  /\ UNCHANGED <<asked, path, kind, estimate, net, faults, found, packetSize>>

-----------------------------------------------------------------------------
(* The network loses an answer. *)
Loses(t) ==
  /\ Fault(t) /\ \E m \in net[t]: net' = [net EXCEPT ![t] = @ \ {m}]
  /\ UNCHANGED <<asked, path, kind, phase, search, estimate, found, packetSize>>

TargetNext(t) ==
  \/ Resolves(t) \/ PicksSize(t) \/ Found(t) \/ SendsPayload(t) \/ ReadsReply(t) \/ ReadTimesOut(t) \/ Expires(t)
  \/ Begins(t) \/ Queries(t) \/ Writes(t) \/ Arrives(t) \/ AwaitTimesOut(t) \/ Requeries(t) \/ Fails6(t) \/ Stores(t)
  \/ Loses(t)
MTUNext == ChoosesSize \/ Cancels \/ \E t \in Destinations: TargetNext(t)

MTUSpec == MTUInit /\ [][MTUNext]_uvars

-----------------------------------------------------------------------------
Places == {"idle", "done", "failed"} \cup
          {"first", "waitFirst", "next", "probe", "wait"} \cup
          {"query", "write", "await", "requery", "confirmed", "estimated"}
Searches == [pc: Places, low: Nat, high: Nat, size: Nat, hop: Nat,
             probes: 0..Max({StartSize, MaxAttempts})]
Answers == [kind: {"echo", "tooBig"}, seq: Nat, hop: Nat, limit: Nat]
MTUTypeOK ==
  /\ asked \in Sizes /\ packetSize \in Nat
  /\ path \in [Destinations -> Paths] /\ kind \in [Destinations -> {"v4", "v6", "unresolved"}]
  /\ phase \in {"initial", "pinging", "ended"}
  /\ search \in [Destinations -> Searches]
  /\ estimate \in [Destinations -> Nat] /\ faults \in [Destinations -> 0..MaxFaults]
  /\ net \in [Destinations -> SUBSET Answers]
  /\ found \in [Destinations -> [status: {"none", "probed", "confirmed", "estimated"},
                                size: Nat, hop: Nat]]

(* A size the IPv4 search reports passed every hop of the path, although   *)
(* answers to different sizes cannot be told apart, come late and get lost *)
(* (discoverIPv4MaxPayload, waitIPv4PMTUReply).                            *)
NeverOverestimates ==
  \A t \in Destinations: found[t].status = "probed" => Fits(t, found[t].size)

(* Every probe halves what is left of the interval, so a search makes no   *)
(* more probes than the size of the interval has bits.                     *)
SearchHalves ==
  \A t \in Destinations: search[t].pc = "next" =>
    2^search[t].probes * (search[t].high - search[t].low) <= StartSize - Lowest

(* On a path that loses nothing the search reports the largest size that   *)
(* passes and the hop that refused the next one, and the IPv6 discovery    *)
(* ends with a confirmed size.                                             *)
ExactWithoutFaults ==
  \A t \in Destinations: search[t].pc = "done" /\ faults[t] = 0 =>
    /\ kind[t] = "v4" =>
         /\ found[t].size = StartSize \/ ~Fits(t, found[t].size + 1)
         /\ found[t].hop # NoHop => path[t][found[t].hop] = found[t].size
    /\ kind[t] = "v6" /\ Len(path[t]) <= MaxAttempts /\ (\A i \in DOMAIN path[t]: path[t][i] <= MaxProbe) =>
         found[t].status = "confirmed"

(* "An OS estimate is confirmed only by an unfragmented echo of that size" *)
(* (pmtu_ipv6.go, PathMTUResult).                                          *)
ConfirmedWasEchoed ==
  \A t \in Destinations: found[t].status = "confirmed" => Fits(t, found[t].size)

(* The packet size of the session passes every IPv4 path that was          *)
(* measured, whichever worker finished last, and is below what the user    *)
(* asked for only when the interface cannot take that (setupPMTU; the      *)
(* clamp of low in discoverIPv4MaxPayload): with an MTU of 1500, -m -s     *)
(* 9000 pings with 1472.  A session with an IPv6 target keeps what was     *)
(* asked for, even when no IPv4 path takes it.                             *)
PacketSizeFits ==
  packetSize # 0 =>
    /\ packetSize >= Lowest
    /\ \/ \A t \in Searched: Fits(t, packetSize)
       \/ packetSize = asked /\ asked > StartSize /\ \E t \in Destinations: kind[t] = "v6"

(* Whatever is lost or late, every size the discovery reports or the       *)
(* session uses passes the path it was measured on, the search is short,   *)
(* and it is exact when nothing is lost.                                   *)
SizesAreSound ==
  /\ MTUTypeOK
  /\ NeverOverestimates /\ ConfirmedWasEchoed /\ PacketSizeFits
  /\ SearchHalves /\ ExactWithoutFaults
=============================================================================
