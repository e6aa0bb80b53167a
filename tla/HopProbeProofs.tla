--------------------------- MODULE HopProbeProofs ---------------------------
(***************************************************************************)
(* Concurrent probes of one socket never share an ID, never lose their     *)
(* listener and never take another probe's reply, for every number of      *)
(* probes, slots, IDs and TTLs.                                            *)
(***************************************************************************)
EXTENDS HopProbe, FiniteSetTheorems, TLAPS

IInv == TypeOK /\ IDsAreExclusive /\ ListenersAreRegistered

\* The pointer into the ring of IDs stays on the ring.
LEMMA FollowingStaysOnRing ==
  ASSUME NEW i \in IDs
  PROVE  Following(i) \in IDs
BY ProbeAssumption DEF Following, IDs

\* The first ID tried is on the ring, and the first TTL is one of a route.
LEMMA Defaults == 0 \in IDs /\ 1 \in TTLs
BY ProbeAssumption DEF IDs, TTLs

\* The packet on the wire is a reply the network may deliver.
LEMMA PacketIsAReply ==
  ASSUME TypeOK, NEW n \in Probes
  PROVE  [probe |-> n, id |-> id[n], seq |-> ttl[n], hop |-> socketTTL] \in Replies
BY DEF TypeOK, Replies

-----------------------------------------------------------------------------

\* Every variable keeps its type: in particular no probe is given an ID
\* outside the allocator's partition.
THEOREM TypeCorrect == Spec => []TypeOK
<1>1. Init => TypeOK
  BY Defaults, ProbeAssumption DEF Init, TypeOK
<1>2. ASSUME TypeOK, [Next]_vars
      PROVE  TypeOK'
  <2> USE <1>2
  <2>1. CASE UNCHANGED vars
    BY <2>1 DEF TypeOK, vars, allocator, probe, socket, net, reception
  <2>2. ASSUME NEW n \in Probes, ProbeStep(n)
        PROVE  TypeOK'
    <3>1. CASE Reserve(n)
      <4>1. PICK i \in IDs : /\ id' = [id EXCEPT ![n] = i]
                             /\ traces' = traces \union {i}
                             /\ trace' = Following(i)
        BY <3>1 DEF Reserve
      <4>2. trace' \in IDs
        BY <4>1, FollowingStaysOnRing
      <4>3. traces' \in SUBSET IDs /\ id' \in [Probes -> IDs]
        BY <4>1 DEF TypeOK
      <4>4. /\ ttl' \in [Probes -> TTLs]
            /\ pc' \in [Probes -> Held \union {"new", "done"}]
            /\ network' \in SUBSET Replies
        BY <3>1 DEF Reserve, TypeOK, Held
      <4> QED
        BY <3>1, <4>2, <4>3, <4>4 DEF Reserve, TypeOK, socket, reception
    <3>2. CASE ResolveFails(n)
      BY <3>2 DEF ResolveFails, TypeOK, Held, allocator, socket, net, reception
    <3>3. CASE Register(n)
      BY <3>3 DEF Register, TypeOK, Held, allocator, socket, net, reception
    <3>4. CASE SetTTL(n)
      BY <3>4 DEF SetTTL, TypeOK, Held, allocator, net, reception
    <3>5. CASE Write(n)
      BY <3>5, PacketIsAReply DEF Write, TypeOK, Held, allocator, socket, reception
    <3>6. CASE WriteFails(n)
      BY <3>6 DEF WriteFails, TypeOK, Held, allocator, net, reception
    <3>7. CASE WriteReturns(n)
      BY <3>7 DEF WriteReturns, TypeOK, Held, allocator, net, reception
    <3>8. CASE TakeReply(n)
      <4>1. Head(channel[n]) \in Replies /\ Tail(channel[n]) \in Seq(Replies)
        BY <3>8 DEF TakeReply, TypeOK
      <4>2. channel' \in [Probes -> Seq(Replies)]
        BY <3>8, <4>1 DEF TakeReply, TypeOK
      <4>3. /\ answer' \in [Probes -> Replies \union {NoReply}]
            /\ pc' \in [Probes -> Held \union {"new", "done"}]
        BY <3>8, <4>1 DEF TakeReply, TypeOK, Held
      <4> QED
        BY <3>8, <4>2, <4>3 DEF TakeReply, TypeOK, allocator, socket, net, reception
    <3>9. CASE GivesUp(n)
      BY <3>9 DEF GivesUp, TypeOK, Held, allocator, socket, net, reception
    <3>10. CASE Unregister(n)
      BY <3>10 DEF Unregister, TypeOK, Held, allocator, socket, net, reception
    <3>11. CASE Release(n)
      <4>1. ttl' \in [Probes -> TTLs] /\ answer' \in [Probes -> Replies \union {NoReply}]
        BY <3>11, Defaults DEF Release, TypeOK
      <4>2. channel' \in [Probes -> Seq(Replies)]
        BY <3>11 DEF Release, TypeOK
      <4> QED
        BY <3>11, <4>1, <4>2 DEF Release, TypeOK, Held, socket, net, reception
    <3> QED
      BY <2>2, <3>1, <3>2, <3>3, <3>4, <3>5, <3>6, <3>7, <3>8, <3>9, <3>10, <3>11
      DEF ProbeStep
  <2>3. ASSUME NEW r \in network, Receive(r)
        PROVE  TypeOK'
    <3>1. extra' \in 0..MaxExtra /\ network' \in SUBSET Replies
      BY <2>3, ProbeAssumption DEF Receive, TypeOK
    <3>2. receiver' \in Replies /\ found' \in Probes \union {0}
      BY <2>3 DEF Receive, TypeOK, Replies
    <3> QED
      BY <2>3, <3>1, <3>2 DEF Receive, TypeOK, allocator, probe, socket
  <2>4. CASE Dispatch
    <3>1. channel' \in [Probes -> Seq(Replies)]
      BY <2>4 DEF Dispatch, TypeOK
    <3> QED
      BY <2>4, <3>1 DEF Dispatch, TypeOK, allocator, probe, socket, net
  <2> QED
    BY <2>1, <2>2, <2>3, <2>4 DEF Next
<1> QED
  BY <1>1, <1>2, PTL DEF Spec

-----------------------------------------------------------------------------

\* The ID of a probe stays reserved for it and its channel registered under
\* it: replies to one probe are never delivered to another in progress.
LEMMA Inductive == Spec => []IInv
<1>1. Init => IDsAreExclusive /\ ListenersAreRegistered
  BY DEF Init, IDsAreExclusive, ListenersAreRegistered, InProgress, Held
<1>2. ASSUME TypeOK, IDsAreExclusive, ListenersAreRegistered, [Next]_vars
      PROVE  (IDsAreExclusive /\ ListenersAreRegistered)'
  <2> USE <1>2
  <2>1. CASE UNCHANGED vars
    BY <2>1 DEF IDsAreExclusive, ListenersAreRegistered, InProgress, vars, allocator, probe
  <2>2. ASSUME NEW n \in Probes, ProbeStep(n)
        PROVE  (IDsAreExclusive /\ ListenersAreRegistered)'
    <3>1. CASE Reserve(n)
      <4>1. PICK i \in IDs : /\ i \notin traces
                             /\ id' = [id EXCEPT ![n] = i]
                             /\ traces' = traces \union {i}
        BY <3>1 DEF Reserve, NextID
      <4>2. /\ pc[n] = "new" /\ pc' = [pc EXCEPT ![n] = "reserved"]
            /\ traceChans' = traceChans
        BY <3>1 DEF Reserve
      <4>3. InProgress' = InProgress \union {n} /\ n \notin InProgress
        BY <4>2 DEF InProgress, Held, TypeOK
      <4>4. id'[n] = i /\ \A m \in Probes \ {n} : id'[m] = id[m]
        BY <4>1 DEF TypeOK
      <4>5. IDsAreExclusive'
        BY <4>1, <4>3, <4>4 DEF IDsAreExclusive, InProgress
      <4>6. ListenersAreRegistered'
        BY <4>2, <4>4 DEF ListenersAreRegistered, TypeOK
      <4> QED
        BY <4>5, <4>6
    <3>2. ASSUME NEW s \in Held,
                 /\ pc[n] \in Held
                 /\ pc' = [pc EXCEPT ![n] = s]
                 /\ id' = id /\ traces' = traces
          PROVE  IDsAreExclusive'
      <4>1. InProgress' = InProgress
        BY <3>2 DEF InProgress, TypeOK
      <4> QED
        BY <3>2, <4>1 DEF IDsAreExclusive
    <3>3. CASE ResolveFails(n)
      <4>1. IDsAreExclusive'
        BY <3>2, <3>3 DEF ResolveFails, Held, allocator
      <4> QED
        BY <3>3, <4>1 DEF ResolveFails, ListenersAreRegistered, TypeOK
    <3>4. CASE Register(n)
      <4>1. IDsAreExclusive'
        BY <3>2, <3>4 DEF Register, Held, allocator
      <4>2. \A m \in Probes \ {n} :
              pc[m] \in {"registered", "ttlSet", "written", "waiting"} => id[m] # id[n]
        BY <3>4 DEF Register, IDsAreExclusive, InProgress, Held
      <4> QED
        BY <3>4, <4>1, <4>2 DEF Register, ListenersAreRegistered, TypeOK
    <3>5. CASE SetTTL(n)
      <4>1. IDsAreExclusive'
        BY <3>2, <3>5 DEF SetTTL, Held, allocator
      <4> QED
        BY <3>5, <4>1 DEF SetTTL, ListenersAreRegistered, TypeOK
    <3>6. CASE Write(n)
      <4>1. IDsAreExclusive'
        BY <3>2, <3>6 DEF Write, Held, allocator
      <4> QED
        BY <3>6, <4>1 DEF Write, ListenersAreRegistered, TypeOK
    <3>7. CASE WriteFails(n)
      <4>1. IDsAreExclusive'
        BY <3>2, <3>7 DEF WriteFails, Held, allocator
      <4> QED
        BY <3>7, <4>1 DEF WriteFails, ListenersAreRegistered, TypeOK
    <3>8. CASE WriteReturns(n)
      <4>1. IDsAreExclusive'
        BY <3>2, <3>8 DEF WriteReturns, Held, allocator
      <4> QED
        BY <3>8, <4>1 DEF WriteReturns, ListenersAreRegistered, TypeOK
    <3>9. CASE TakeReply(n)
      <4>1. CASE pc' = pc
        BY <3>9, <4>1
        DEF TakeReply, IDsAreExclusive, InProgress, ListenersAreRegistered, allocator
      <4>2. CASE pc' = [pc EXCEPT ![n] = "unregister"]
        <5>1. IDsAreExclusive'
          BY <3>2, <3>9, <4>2 DEF TakeReply, Held, allocator
        <5> QED
          BY <3>9, <4>2, <5>1 DEF TakeReply, ListenersAreRegistered, TypeOK
      <4> QED
        BY <3>9, <4>1, <4>2 DEF TakeReply
    <3>10. CASE GivesUp(n)
      <4>1. IDsAreExclusive'
        BY <3>2, <3>10 DEF GivesUp, Held, allocator
      <4> QED
        BY <3>10, <4>1 DEF GivesUp, ListenersAreRegistered, TypeOK
    <3>11. CASE Unregister(n)
      <4>1. IDsAreExclusive'
        BY <3>2, <3>11 DEF Unregister, Held, allocator
      <4>2. \A m \in Probes \ {n} :
              pc[m] \in {"registered", "ttlSet", "written", "waiting"} => id[m] # id[n]
        BY <3>11 DEF Unregister, IDsAreExclusive, InProgress, Held
      <4> QED
        BY <3>11, <4>1, <4>2 DEF Unregister, ListenersAreRegistered, TypeOK
    <3>12. CASE Release(n)
      <4>1. InProgress' = InProgress \ {n} /\ n \in InProgress
        BY <3>12 DEF Release, InProgress, Held, TypeOK
      <4>2. IDsAreExclusive'
        BY <3>12, <4>1 DEF Release, IDsAreExclusive
      <4> QED
        BY <3>12, <4>2 DEF Release, ListenersAreRegistered, TypeOK
    <3> QED
      BY <2>2, <3>1, <3>3, <3>4, <3>5, <3>6, <3>7, <3>8, <3>9, <3>10, <3>11, <3>12
      DEF ProbeStep
  <2>3. ASSUME NEW r \in network, Receive(r)
        PROVE  (IDsAreExclusive /\ ListenersAreRegistered)'
    BY <2>3 DEF Receive, IDsAreExclusive, ListenersAreRegistered, InProgress, allocator, probe
  <2>4. CASE Dispatch
    BY <2>4 DEF Dispatch, IDsAreExclusive, ListenersAreRegistered, InProgress, allocator, probe
  <2> QED
    BY <2>1, <2>2, <2>3, <2>4 DEF Next
<1>3. Spec => []TypeOK
  BY TypeCorrect
<1> QED
  BY <1>1, <1>2, <1>3, PTL DEF Spec, IInv

\* Probes in progress never share an ID and no ID leaks: the reserved IDs are
\* exactly theirs, whichever way ProbeHop returned.
THEOREM ExclusiveIDs == Spec => []IDsAreExclusive
BY Inductive, PTL DEF IInv

\* A probe hears the replies to its packet from before it is written until it
\* stops listening.
THEOREM RegisteredListeners == Spec => []ListenersAreRegistered
BY Inductive, PTL DEF IInv

-----------------------------------------------------------------------------
(* IDs come back late. The pointer sweeps the ring of IDs: those it passed *)
(* since it left the ID of probe m were given to newer probes, or skipped  *)
(* because a probe held them that was in progress when m was reserved, of  *)
(* which there are less than Slots.                                        *)

\* j lies on the ring from a up to, and without, b.
Between(a, j, b) == IF a <= b THEN a <= j /\ j < b ELSE a <= j \/ j < b

Reserved == {n \in Probes : pc[n] # "new"}
NewerIDs(m) == {id[k] : k \in {k \in Reserved : m < k}}

\* No reply to m is left.
Expired(m) == \E k \in Reserved : k - m >= Lifetime

\* S holds the IDs that were skipped since m was reserved.
Swept(m, S) ==
  /\ IsFiniteSet(S) /\ Cardinality(S) < Slots
  /\ \A p \in InProgress : p < m => id[p] \in S
  /\ \A j \in IDs : Between(Following(id[m]), j, trace) => j \in S \union NewerIDs(m)

InOrder == \A n \in Reserved : \A m \in Probes : m < n => m \in Reserved
Rotation == \A m \in Reserved : Expired(m) \/ \E S \in SUBSET IDs : Swept(m, S)
Reuse ==
  \A m, k \in Reserved : m < k /\ id[m] = id[k] => pc[m] = "done" /\ k - m >= Lifetime
Rotates == InOrder /\ Rotation /\ Reuse

\* The distance is the number of steps from the pointer to the ID.
LEMMA Distances ==
  ASSUME TypeOK, NEW i \in IDs
  PROVE  Distance(i) = IF trace <= i THEN i - trace ELSE i - trace + IDSpace
<1> DEFINE N == IDSpace
           x == i - trace
<1>1. N \in Nat \ {0} /\ i \in 0..(N - 1) /\ trace \in 0..(N - 1)
  BY ProbeAssumption DEF TypeOK, IDs
<1>2. CASE trace <= i
  <2>1. x \in 0..(N - 1)
    BY <1>1, <1>2
  <2>2. x % N = x
    <3> HIDE DEF N, x
    <3> QED BY <1>1, <2>1
  <2> QED BY <1>2, <2>2 DEF Distance
<1>3. CASE ~(trace <= i)
  <2>1. x \in (-N)..(-1)
    BY <1>1, <1>3
  <2>2. x % N = x + N
    <3> HIDE DEF N, x
    <3> QED BY <1>1, <2>1
  <2> QED BY <1>3, <2>2 DEF Distance
<1> QED BY <1>2, <1>3

LEMMA DistanceIsInt ==
  ASSUME TypeOK, NEW i \in IDs
  PROVE  Distance(i) \in Int
<1>1. i \in Int /\ trace \in Int /\ IDSpace \in Int
  BY ProbeAssumption DEF TypeOK, IDs
<1> QED BY <1>1, Distances

\* The next ID of the ring is the next number, and 0 after the last.
LEMMA Followings ==
  ASSUME NEW i \in IDs
  PROVE  Following(i) = IF i = IDSpace - 1 THEN 0 ELSE i + 1
<1>1. IDSpace \in Nat \ {0} /\ i \in 0..(IDSpace - 1)
  BY ProbeAssumption DEF IDs
<1>2. CASE i = IDSpace - 1
  BY <1>1, <1>2 DEF Following
<1>3. CASE i # IDSpace - 1
  BY <1>1, <1>3 DEF Following
<1> QED BY <1>2, <1>3

\* The IDs of finitely many probes are finitely many, and no more.
LEMMA FewIDs ==
  ASSUME NEW P, IsFiniteSet(P), NEW f
  PROVE  /\ IsFiniteSet({f[k] : k \in P})
         /\ Cardinality({f[k] : k \in P}) <= Cardinality(P)
<1> DEFINE T == {f[k] : k \in P}
           g == [k \in P |-> f[k]]
<1>1. g \in Surjection(P, T)
  BY DEF Surjection
<1> QED BY <1>1, FS_Surjection

\* A held ID is one of a probe in progress: S has it, a newer probe got it, or
\* it is the ID of m.
LEMMA HeldIDs ==
  ASSUME TypeOK, IDsAreExclusive, NEW m \in Reserved, NEW S, Swept(m, S),
         NEW j \in traces, j # id[m]
  PROVE  j \in S \union NewerIDs(m)
<1>1. PICK p \in InProgress : j = id[p]
  BY DEF IDsAreExclusive
<1>2. p \in Probes /\ p \in Reserved /\ m \in Probes /\ p # m
  BY <1>1 DEF InProgress, Reserved, Held
<1>3. p < m \/ m < p
  BY <1>2, ProbeAssumption DEF Probes
<1> QED BY <1>1, <1>2, <1>3 DEF Swept, NewerIDs

\* When the pointer has passed every other ID since it left the ID of m, the
\* next probe comes after the Lifetime of m.
LEMMA FullTurn ==
  ASSUME TypeOK, NEW m \in Reserved, NEW n \in Probes,
         \A k \in Reserved : k < n,
         NEW S, Swept(m, S),
         \A j \in IDs \ {id[m]} : j \in S \union NewerIDs(m)
  PROVE  n - m >= Lifetime
<1> DEFINE P == (m + 1)..(n - 1)
           T == {id[k] : k \in P}
<1>1. /\ m \in Int /\ n \in Int /\ m < n
      /\ IDSpace \in Nat \ {0} /\ Slots \in Nat /\ Lifetime \in Nat
  BY ProbeAssumption DEF Reserved, Probes
<1>2. IsFiniteSet(P) /\ Cardinality(P) = n - m - 1
  <2>1. m + 1 \in Int /\ n - 1 \in Int
    BY <1>1
  <2>2. /\ IsFiniteSet(P)
        /\ Cardinality(P) = IF m + 1 > n - 1 THEN 0 ELSE (n - 1) - (m + 1) + 1
    BY <2>1, FS_Interval
  <2> HIDE DEF P
  <2> QED BY <1>1, <2>2
<1>3. IsFiniteSet(T) /\ Cardinality(T) <= n - m - 1
  BY <1>2, FewIDs
<1>4. NewerIDs(m) \subseteq T
  BY <1>1, ProbeAssumption DEF NewerIDs, Reserved, Probes
<1>5. IsFiniteSet(IDs) /\ Cardinality(IDs) = IDSpace
  <2>1. /\ IsFiniteSet(IDs)
        /\ Cardinality(IDs) = IF 0 > IDSpace - 1 THEN 0 ELSE (IDSpace - 1) - 0 + 1
    <3>1. 0 \in Int /\ IDSpace - 1 \in Int
      BY <1>1
    <3> QED BY <3>1, FS_Interval DEF IDs
  <2> QED BY <1>1, <2>1
<1>6. IsFiniteSet(IDs \ {id[m]}) /\ Cardinality(IDs \ {id[m]}) >= IDSpace - 1
  BY <1>1, <1>5, FS_RemoveElement
<1>7. IsFiniteSet(S) /\ Cardinality(S) < Slots
  BY DEF Swept
<1>8. /\ IsFiniteSet(S \union T)
      /\ Cardinality(S \union T) <= Cardinality(S) + Cardinality(T)
  <2> HIDE DEF T
  <2>1. IsFiniteSet(S \intersect T) /\ Cardinality(S \intersect T) \in Nat
    BY <1>7, FS_Intersection, FS_CardinalityType
  <2>2. Cardinality(S) \in Nat /\ Cardinality(T) \in Nat
    BY <1>3, <1>7, FS_CardinalityType
  <2>3. /\ IsFiniteSet(S \union T)
        /\ Cardinality(S \union T) = Cardinality(S) + Cardinality(T) - Cardinality(S \intersect T)
    BY <1>3, <1>7, FS_Union
  <2> QED BY <2>1, <2>2, <2>3
<1>9. Cardinality(IDs \ {id[m]}) <= Cardinality(S \union T)
  <2>1. IDs \ {id[m]} \subseteq S \union T
    BY <1>4
  <2> QED BY <1>8, <2>1, FS_Subset
<1>10. /\ Cardinality(S) \in Nat /\ Cardinality(T) \in Nat
       /\ Cardinality(S \union T) \in Nat /\ Cardinality(IDs \ {id[m]}) \in Nat
  BY <1>3, <1>6, <1>7, <1>8, FS_CardinalityType
<1> HIDE DEF T, P
<1>11. IDSpace - 1 <= Slots - 1 + (n - m - 1)
  BY <1>1, <1>3, <1>6, <1>7, <1>8, <1>9, <1>10
<1> QED BY <1>1, <1>11, RotationAssumption

\* The pointer reached the ID o, or passed it, on its way to i: what it passed
\* on its way is the rest of the ring.
LEMMA WholeRing ==
  ASSUME TypeOK, NEW i \in IDs, NEW o \in IDs, NEW j \in IDs,
         j # o, Distance(o) <= Distance(i)
  PROVE  Between(Following(o), j, trace) \/ Distance(j) < Distance(i)
<1>1. trace \in 0..(IDSpace - 1) /\ {i, o, j} \subseteq 0..(IDSpace - 1) /\ IDSpace \in Nat
  BY ProbeAssumption DEF TypeOK, IDs
<1> QED BY <1>1, Distances, Followings DEF Between

\* The pointer did not reach o on its way to i.
LEMMA PartOfRing ==
  ASSUME TypeOK, NEW i \in IDs, NEW o \in IDs, NEW j \in IDs,
         Distance(i) < Distance(o), Between(Following(o), j, Following(i))
  PROVE  /\ j # o
         /\ Between(Following(o), j, trace) \/ j = i \/ Distance(j) < Distance(i)
<1>1. trace \in 0..(IDSpace - 1) /\ {i, o, j} \subseteq 0..(IDSpace - 1) /\ IDSpace \in Nat
  BY ProbeAssumption DEF TypeOK, IDs
<1> QED BY <1>1, Distances, Followings DEF Between

\* While the pointer moves to the next ID, an older probe expires or its sweep
\* goes on; it expires when the pointer comes back to its ID.
LEMMA SweepGoesOn ==
  ASSUME TypeOK, IDsAreExclusive, Rotates, NEW n \in Probes,
         pc[n] = "new", pc' = [pc EXCEPT ![n] = "reserved"],
         \A k \in Reserved : k < n,
         NEW i \in IDs, NextID(i), id' = [id EXCEPT ![n] = i],
         traces' = traces \union {i}, trace' = Following(i),
         NEW m \in Reserved
  PROVE  /\ Expired(m)' \/ \E S \in SUBSET IDs : Swept(m, S)'
         /\ id[m] = i => n - m >= Lifetime
<1>1. /\ m \in Probes /\ n \in Int /\ m \in Int /\ m < n /\ Lifetime \in Int
      /\ id[m] \in IDs /\ \A k \in Reserved : k \in Int
  <2>1. m \in Probes /\ Reserved \subseteq Probes
    BY DEF Reserved
  <2>2. id[m] \in IDs
    BY <2>1 DEF TypeOK
  <2>3. Probes \subseteq Int /\ Lifetime \in Int
    BY ProbeAssumption DEF Probes
  <2> QED BY <2>1, <2>2, <2>3
<1>2. Reserved' = Reserved \union {n} /\ n \notin Reserved
  BY DEF Reserved, TypeOK
<1>3. id'[n] = i /\ \A k \in Reserved : id'[k] = id[k]
  BY <1>2 DEF TypeOK, Reserved
<1>4. ASSUME n - m >= Lifetime
      PROVE  Expired(m)'
  BY <1>2, <1>4 DEF Expired
<1>5. CASE Expired(m)
  <2>1. n - m >= Lifetime
    BY <1>1, <1>5 DEF Expired
  <2> QED BY <1>4, <2>1
<1>6. ASSUME NEW S \in SUBSET IDs, Swept(m, S)
      PROVE  /\ Expired(m)' \/ Swept(m, S)'
             /\ id[m] = i => n - m >= Lifetime
  <2>1. \A j \in IDs : Distance(j) < Distance(i) => j \in traces
    <3>1. \A j \in IDs : Distance(j) \in Int
      BY DistanceIsInt
    <3> QED BY <3>1 DEF NextID
  <2>2. \A j \in traces : j # id[m] => j \in S \union NewerIDs(m)
    BY <1>6, HeldIDs
  <2>3. CASE Distance(id[m]) <= Distance(i)
    <3>1. \A j \in IDs \ {id[m]} : j \in S \union NewerIDs(m)
      BY <1>1, <1>6, <2>1, <2>2, <2>3, WholeRing DEF Swept
    <3>2. n - m >= Lifetime
      BY <1>6, <3>1, FullTurn
    <3> QED BY <1>4, <3>2
  <2>4. CASE ~(Distance(id[m]) <= Distance(i))
    <3>1. Distance(i) \in Int /\ Distance(id[m]) \in Int
      BY <1>1, DistanceIsInt
    <3>2. Distance(i) < Distance(id[m]) /\ id[m] # i
      BY <2>4, <3>1
    <3>3. \A j \in IDs : Between(Following(id[m]), j, Following(i))
                         => j \in S \union NewerIDs(m) \union {i}
      BY <1>1, <1>6, <2>1, <2>2, <3>2, PartOfRing DEF Swept
    <3>4. NewerIDs(m)' = NewerIDs(m) \union {i}
      BY <1>1, <1>2, <1>3 DEF NewerIDs
    <3>5. InProgress' = InProgress \union {n}
      BY DEF InProgress, Held, TypeOK
    <3>6. \A p \in InProgress' : p < m => id'[p] \in S
      BY <1>1, <1>3, <1>6, <3>5 DEF Swept, InProgress, Reserved, Held
    <3>7. \A j \in IDs : Between(Following(id'[m]), j, trace') => j \in S \union NewerIDs(m)'
      BY <1>3, <3>3, <3>4
    <3> QED BY <1>6, <3>2, <3>6, <3>7 DEF Swept
  <2> QED BY <2>3, <2>4
<1>7. Expired(m) \/ \E S \in SUBSET IDs : Swept(m, S)
  BY DEF Rotates, Rotation
<1>8. CASE \E S \in SUBSET IDs : Swept(m, S)
  BY <1>6, <1>8
<1> QED BY <1>5, <1>7, <1>8

\* An ID is reserved again only after the Lifetime of its last owner.
LEMMA ReserveRotates ==
  ASSUME TypeOK, IDsAreExclusive, Rotates, NEW n \in Probes, Reserve(n)
  PROVE  Rotates'
<1>1. PICK i \in IDs : /\ NextID(i)
                       /\ id' = [id EXCEPT ![n] = i]
                       /\ traces' = traces \union {i}
                       /\ trace' = Following(i)
  BY DEF Reserve
<1>2. /\ pc[n] = "new" /\ pc' = [pc EXCEPT ![n] = "reserved"]
      /\ \A m \in 1..(n - 1) : pc[m] # "new"
      /\ Cardinality(InProgress) < Slots
  BY DEF Reserve
<1>3. Reserved' = Reserved \union {n} /\ n \notin Reserved
  BY <1>2 DEF Reserved, TypeOK
<1>4. /\ n \in Int /\ \A k \in Reserved : k \in Probes /\ k \in Int
      /\ \A m \in Probes : m < n => m \in Reserved
  BY <1>2, ProbeAssumption DEF Reserved, Probes
<1>5. \A k \in Reserved : k < n
  BY <1>3, <1>4 DEF Rotates, InOrder
<1>6. id'[n] = i /\ \A k \in Reserved : id'[k] = id[k] /\ pc'[k] = pc[k]
  BY <1>1, <1>2, <1>3 DEF TypeOK, Reserved
<1>7. InOrder'
  BY <1>3, <1>4 DEF Rotates, InOrder
<1>8. \A m \in Reserved : /\ Expired(m)' \/ \E S \in SUBSET IDs : Swept(m, S)'
                          /\ id[m] = i => n - m >= Lifetime
  BY <1>1, <1>2, <1>5, SweepGoesOn
<1>9. \E S \in SUBSET IDs : Swept(n, S)'
  <2> DEFINE S == {id[p] : p \in InProgress}
  <2>1. IsFiniteSet(InProgress)
    <3>1. IsFiniteSet(Probes)
      BY FS_Interval, ProbeAssumption DEF Probes
    <3> QED BY <3>1, FS_Subset DEF InProgress
  <2>2. IsFiniteSet(S) /\ Cardinality(S) <= Cardinality(InProgress)
    BY <2>1, FewIDs
  <2>3. Cardinality(S) < Slots
    <3>1. Cardinality(S) \in Nat /\ Cardinality(InProgress) \in Nat /\ Slots \in Nat
      BY <2>1, <2>2, FS_CardinalityType, ProbeAssumption
    <3> QED BY <1>2, <2>2, <3>1
  <2>4. S \subseteq IDs
    BY DEF InProgress, TypeOK
  <2>5. \A p \in InProgress' : p < n => id'[p] \in S
    BY <1>2, <1>4, <1>6 DEF InProgress, Reserved, Held, TypeOK
  <2>6. trace' \in Int /\ Following(id'[n]) = trace'
    BY <1>1, <1>6, FollowingStaysOnRing, ProbeAssumption DEF IDs
  <2>7. \A j \in IDs : ~ Between(Following(id'[n]), j, trace')
    BY <2>6, ProbeAssumption DEF Between, IDs
  <2> HIDE DEF S
  <2> QED BY <2>2, <2>3, <2>4, <2>5, <2>7 DEF Swept
<1>10. Rotation'
  BY <1>3, <1>8, <1>9 DEF Rotation
<1>11. Reuse'
  <2>1. ASSUME NEW m \in Reserved, id[m] = i
        PROVE  pc[m] = "done"
    BY <1>1, <2>1 DEF NextID, IDsAreExclusive, InProgress, Reserved, TypeOK
  <2> QED BY <1>3, <1>4, <1>5, <1>6, <1>8, <2>1 DEF Reuse, Rotates
<1> QED BY <1>7, <1>10, <1>11 DEF Rotates

\* No other step of a probe moves the pointer: only probes end.
LEMMA OthersRotate ==
  ASSUME TypeOK, Rotates, Reserved' = Reserved, id' = id, trace' = trace,
         InProgress' \subseteq InProgress,
         \A m \in Probes : pc[m] = "done" => pc'[m] = "done"
  PROVE  Rotates'
<1>1. InOrder' /\ Reuse'
  BY DEF Rotates, InOrder, Reuse, Reserved
<1>2. \A m, S : Swept(m, S) => Swept(m, S)'
  BY DEF Swept, NewerIDs
<1>3. \A m : Expired(m) => Expired(m)'
  BY DEF Expired
<1>4. Rotation'
  BY <1>2, <1>3 DEF Rotates, Rotation
<1> QED BY <1>1, <1>4 DEF Rotates

-----------------------------------------------------------------------------
(* Replies are delivered to the probe they answer.                         *)

\* sendMu is held from SetTTL to the end of WriteTo: the packet leaves with the
\* TTL of its probe.
LockIsHeld ==
  \A n \in Probes : /\ pc[n] \in {"ttlSet", "written"} => sendMu = n
                    /\ pc[n] = "ttlSet" => socketTTL = ttl[n]

\* A channel is registered under the ID of its probe, until Unregister.
Listening == {"registered", "ttlSet", "written", "waiting", "unregister"}
ListenersAreOwn ==
  \A i \in IDs : traceChans[i] # 0 =>
    id[traceChans[i]] = i /\ pc[traceChans[i]] \in Listening

\* r answers a packet of its probe, whose ID no newer probe got.
Genuine(r) ==
  /\ r.probe \in Reserved /\ id[r.probe] = r.id /\ r.hop = r.seq
  /\ \A k \in Reserved : r.probe < k => id[k] # r.id
RepliesAreGenuine ==
  /\ \A r \in network : Genuine(r)
  /\ receiver # NoReply => Genuine(receiver) /\ found \in {0, receiver.probe}

\* A channel carries replies to its probe.
ChannelsAreOwn ==
  \A n \in Probes : \A k \in 1..Len(channel[n]) :
    channel[n][k].probe = n /\ channel[n][k].hop = channel[n][k].seq

\* A probe has an answer only while it is returning it.
AnswersEnd ==
  \A n \in Probes : answer[n] # NoReply => pc[n] \in {"unregister", "release"}

Delivered ==
  /\ Rotates /\ LockIsHeld /\ ListenersAreOwn /\ RepliesAreGenuine
  /\ ChannelsAreOwn /\ AnswersEnd /\ AnswersAreOwn

LEMMA InitDelivered == Init => Delivered
<1> SUFFICES ASSUME Init PROVE Delivered
  OBVIOUS
<1>1. Reserved = {}
  BY DEF Init, Reserved
<1>2. Rotates
  BY <1>1 DEF Rotates, InOrder, Rotation, Reuse
<1>3. LockIsHeld /\ ListenersAreOwn /\ RepliesAreGenuine
  BY DEF Init, LockIsHeld, ListenersAreOwn, RepliesAreGenuine
<1>4. ChannelsAreOwn /\ AnswersEnd /\ AnswersAreOwn
  BY DEF Init, ChannelsAreOwn, AnswersEnd, AnswersAreOwn
<1> QED BY <1>2, <1>3, <1>4 DEF Delivered

\* The replies that survive a reservation still belong to their probe.
LEMMA ReserveDelivers ==
  ASSUME IInv, Delivered, NEW n \in Probes, Reserve(n)
  PROVE  Delivered'
<1> USE DEF IInv
<1>1. Rotates'
  BY ReserveRotates DEF Delivered
<1>2. PICK i \in IDs : id' = [id EXCEPT ![n] = i]
  BY DEF Reserve
<1>3. /\ pc[n] = "new" /\ pc' = [pc EXCEPT ![n] = "reserved"]
      /\ \E h \in TTLs : ttl' = [ttl EXCEPT ![n] = h]
      /\ network' = {r \in network : n - r.probe < Lifetime}
      /\ receiver # NoReply => n - receiver.probe < Lifetime
      /\ UNCHANGED <<answer, traceChans, channel, sendMu, socketTTL, receiver, found>>
  BY DEF Reserve, socket, reception
<1>4. Reserved' = Reserved \union {n} /\ n \notin Reserved
  BY <1>3 DEF Reserved, TypeOK
<1>5. \A m \in Probes \ {n} : id'[m] = id[m] /\ pc'[m] = pc[m] /\ ttl'[m] = ttl[m]
  BY <1>2, <1>3 DEF TypeOK
<1>6. answer[n] = NoReply
  BY <1>3 DEF Delivered, AnswersEnd
<1>7. LockIsHeld'
  BY <1>3, <1>5 DEF Delivered, LockIsHeld, TypeOK
<1>8. ListenersAreOwn'
  BY <1>3, <1>5 DEF Delivered, ListenersAreOwn, Listening, TypeOK
<1>9. ASSUME NEW r \in Replies, Genuine(r), n - r.probe < Lifetime
      PROVE  Genuine(r)'
  <2>1. r.probe \in Reserved /\ r.probe # n /\ id'[r.probe] = r.id /\ r.probe \in Reserved'
    BY <1>4, <1>5, <1>9 DEF Genuine, Reserved
  <2>2. r.probe < n => id'[n] # r.id
    <3>1. SUFFICES ASSUME r.probe < n, id'[n] = r.id
                   PROVE  FALSE
      OBVIOUS
    <3>2. n - r.probe >= Lifetime
      BY <1>1, <1>4, <2>1, <3>1 DEF Rotates, Reuse
    <3> QED BY <1>9, <3>2, ProbeAssumption DEF Replies, Probes
  <2> QED BY <1>4, <1>5, <1>9, <2>1, <2>2 DEF Genuine, Reserved
<1>10. RepliesAreGenuine'
  BY <1>3, <1>9 DEF Delivered, RepliesAreGenuine, TypeOK
<1>11. ChannelsAreOwn'
  BY <1>3 DEF Delivered, ChannelsAreOwn
<1>12. AnswersEnd' /\ AnswersAreOwn'
  BY <1>3, <1>5, <1>6 DEF Delivered, AnswersEnd, AnswersAreOwn
<1> QED
  BY <1>1, <1>7, <1>8, <1>10, <1>11, <1>12 DEF Delivered

\* Steps that change neither IDs nor replies keep the replies genuine.
LEMMA StaysGenuine ==
  ASSUME Reserved' = Reserved, id' = id, NEW r, Genuine(r)
  PROVE  Genuine(r)'
BY DEF Genuine

\* Every other step of a probe delivers replies to their probe.
LEMMA ProbeDelivers ==
  ASSUME IInv, Delivered, NEW n \in Probes, ProbeStep(n), ~ Reserve(n)
  PROVE  Delivered'
<1> USE DEF IInv
<1>1. /\ id' = id /\ trace' = trace
      /\ \E s \in Held \union {"done"} : pc' = [pc EXCEPT ![n] = s]
      /\ pc[n] \in Held
  BY DEF ProbeStep, ResolveFails, Register, SetTTL, Write, WriteFails, WriteReturns,
         TakeReply, GivesUp, Unregister, Release, Held, allocator, TypeOK
<1>2. /\ Reserved' = Reserved /\ n \in Reserved
      /\ InProgress' \subseteq InProgress
      /\ \A m \in Probes : pc[m] = "done" => pc'[m] = "done"
      /\ \A m \in Probes \ {n} : pc'[m] = pc[m]
  BY <1>1 DEF Reserved, InProgress, Held, TypeOK
<1>3. Rotates'
  BY <1>1, <1>2, OthersRotate DEF Delivered
<1>4. LockIsHeld'
  <2>1. CASE SetTTL(n)
    <3>1. \A m \in Probes : pc[m] \notin {"ttlSet", "written"}
      BY <2>1 DEF SetTTL, Delivered, LockIsHeld, Probes
    <3> QED BY <1>2, <2>1, <3>1 DEF SetTTL, LockIsHeld, TypeOK
  <2>2. CASE WriteFails(n) \/ WriteReturns(n)
    <3>1. \A m \in Probes \ {n} : pc[m] \notin {"ttlSet", "written"}
      BY <2>2 DEF WriteFails, WriteReturns, Delivered, LockIsHeld
    <3>2. pc'[n] \notin {"ttlSet", "written"}
      BY <2>2 DEF WriteFails, WriteReturns, TypeOK
    <3> QED BY <1>2, <3>1, <3>2 DEF LockIsHeld
  <2>3. CASE Write(n)
    BY <1>2, <2>3 DEF Write, Delivered, LockIsHeld, socket, TypeOK
  <2>4. CASE /\ UNCHANGED socket
             /\ pc'[n] \notin {"ttlSet", "written"} \/ pc' = pc
             /\ \A m \in Probes \ {n} : ttl'[m] = ttl[m]
             /\ pc' = pc => ttl' = ttl
    BY <1>2, <2>4 DEF Delivered, LockIsHeld, socket
  <2> QED
    BY <2>1, <2>2, <2>3, <2>4 DEF ProbeStep, ResolveFails, Register, TakeReply, GivesUp,
       Unregister, Release, socket, TypeOK
<1>5. ListenersAreOwn'
  <2>1. CASE Register(n)
    BY <1>1, <1>2, <2>1 DEF Register, Delivered, ListenersAreOwn, Listening, TypeOK
  <2>2. CASE Unregister(n)
    BY <1>1, <1>2, <2>2 DEF Unregister, Delivered, ListenersAreOwn, Listening, TypeOK
  <2>3. CASE Release(n)
    BY <1>1, <1>2, <2>3 DEF Release, Delivered, ListenersAreOwn, Listening, TypeOK
  <2>4. CASE ResolveFails(n)
    BY <1>1, <1>2, <2>4 DEF ResolveFails, Delivered, ListenersAreOwn, Listening, TypeOK
  <2>5. CASE /\ traceChans' = traceChans
             /\ pc'[n] = pc[n] \/ pc'[n] \in Listening
    BY <1>1, <1>2, <2>5 DEF Delivered, ListenersAreOwn, Listening, TypeOK
  <2> QED
    BY <2>1, <2>2, <2>3, <2>4, <2>5 DEF ProbeStep, SetTTL, Write, WriteFails,
       WriteReturns, TakeReply, GivesUp, Listening, TypeOK
<1>6. RepliesAreGenuine'
  <2>1. CASE UNCHANGED <<network, receiver, found>>
    BY <1>1, <1>2, <2>1, StaysGenuine DEF Delivered, RepliesAreGenuine
  <2>2. CASE Write(n)
    <3> DEFINE r == [probe |-> n, id |-> id[n], seq |-> ttl[n], hop |-> socketTTL]
    <3>1. r.hop = r.seq /\ pc[n] = "ttlSet"
      BY <2>2 DEF Write, Delivered, LockIsHeld
    <3>2. \A k \in Reserved : n < k => id[k] # id[n]
      BY <1>2, <3>1 DEF Delivered, Rotates, Reuse
    <3>3. Genuine(r)
      BY <1>2, <3>1, <3>2 DEF Genuine
    <3>4. network' = network \union {r} /\ UNCHANGED <<receiver, found>>
      BY <2>2 DEF Write, reception
    <3> HIDE DEF r
    <3> QED BY <1>1, <1>2, <3>3, <3>4, StaysGenuine DEF Delivered, RepliesAreGenuine
  <2> QED
    BY <2>1, <2>2 DEF ProbeStep, ResolveFails, Register, SetTTL, WriteFails, WriteReturns,
       TakeReply, GivesUp, Unregister, Release, net, reception
<1>7. /\ ChannelsAreOwn'
      /\ AnswersEnd' /\ AnswersAreOwn'
  <2>1. CASE TakeReply(n)
    <3>1. /\ channel[n] # <<>> /\ channel[n] \in Seq(Replies)
          /\ channel' = [channel EXCEPT ![n] = Tail(@)]
      BY <2>1 DEF TakeReply, TypeOK
    <3>2. /\ Len(channel'[n]) = Len(channel[n]) - 1
          /\ \A k \in 1..Len(channel'[n]) :
               channel'[n][k] = channel[n][k + 1] /\ k + 1 \in 1..Len(channel[n])
          /\ Head(channel[n]) = channel[n][1] /\ 1 \in 1..Len(channel[n])
      BY <3>1 DEF TypeOK
    <3>3. ChannelsAreOwn'
      BY <3>1, <3>2 DEF Delivered, ChannelsAreOwn, TypeOK
    <3>4. Head(channel[n]).probe = n /\ Head(channel[n]).hop = Head(channel[n]).seq
      BY <3>2 DEF Delivered, ChannelsAreOwn
    <3>5. ttl' = ttl
      BY <2>1 DEF TakeReply
    <3>6. CASE Accepts(n, Head(channel[n]))
      <4> DEFINE reply == Head(channel[n])
      <4>1. /\ answer' = [answer EXCEPT ![n] = reply]
            /\ pc' = [pc EXCEPT ![n] = "unregister"]
        BY <2>1, <3>6 DEF TakeReply
      <4>2. reply.probe = n /\ reply.hop = reply.seq /\ reply.seq = ttl[n]
        BY <3>4, <3>6 DEF Accepts
      <4> HIDE DEF reply
      <4>3. \A m \in Probes : answer'[m] = IF m = n THEN reply ELSE answer[m]
        BY <4>1 DEF TypeOK
      <4>4. \A m \in Probes : pc'[m] = IF m = n THEN "unregister" ELSE pc[m]
        BY <4>1 DEF TypeOK
      <4>5. AnswersEnd'
        BY <4>3, <4>4 DEF Delivered, AnswersEnd
      <4>6. AnswersAreOwn'
        BY <3>5, <4>2, <4>3 DEF Delivered, AnswersAreOwn
      <4> QED BY <3>3, <4>5, <4>6
    <3>7. CASE ~ Accepts(n, Head(channel[n]))
      BY <2>1, <3>5, <3>7, <3>3 DEF TakeReply, Delivered, AnswersEnd, AnswersAreOwn
    <3> QED BY <3>6, <3>7
  <2>2. CASE Release(n)
    <3>1. ChannelsAreOwn'
      <4>1. \A m \in Probes : channel'[m] = channel[m] \/ Len(channel'[m]) = 0
        BY <2>2 DEF Release, TypeOK
      <4> QED BY <4>1 DEF Delivered, ChannelsAreOwn
    <3>2. AnswersEnd' /\ AnswersAreOwn'
      BY <1>2, <2>2 DEF Release, Delivered, AnswersEnd, AnswersAreOwn, TypeOK
    <3> QED BY <3>1, <3>2
  <2>3. CASE /\ UNCHANGED <<channel, answer, ttl>>
             /\ pc[n] \in {"unregister", "release"} => pc'[n] \in {"unregister", "release"}
    BY <1>2, <2>3 DEF Delivered, ChannelsAreOwn, AnswersEnd, AnswersAreOwn
  <2> QED
    BY <2>1, <2>2, <2>3 DEF ProbeStep, ResolveFails, Register, SetTTL, Write, WriteFails,
       WriteReturns, GivesUp, Unregister, TypeOK
<1> QED
  BY <1>3, <1>4, <1>5, <1>6, <1>7 DEF Delivered

\* The channel broadcastTrace finds under the ID of a reply is its probe's.
LEMMA ReceiverDelivers ==
  ASSUME IInv, Delivered, (\E r \in network : Receive(r)) \/ Dispatch
  PROVE  Delivered'
<1> USE DEF IInv
<1>1. UNCHANGED <<trace, traces, pc, id, ttl, answer, traceChans, sendMu, socketTTL>>
  BY DEF Receive, Dispatch, allocator, probe, socket
<1>2. Rotates'
  BY <1>1, OthersRotate DEF Delivered, Reserved, InProgress
<1>3. LockIsHeld' /\ ListenersAreOwn' /\ AnswersEnd' /\ AnswersAreOwn'
  BY <1>1 DEF Delivered, LockIsHeld, ListenersAreOwn, AnswersEnd, AnswersAreOwn
<1>4. \A r : Genuine(r) => Genuine(r)'
  BY <1>1 DEF Genuine, Reserved
<1>5. CASE \E r \in network : Receive(r)
  <2>1. PICK r \in network : Receive(r)
    BY <1>5
  <2>2. /\ r \in Replies /\ Genuine(r)
        /\ receiver' = r /\ found' = traceChans[r.id]
        /\ network' \subseteq network /\ channel' = channel
    BY <2>1 DEF Receive, Delivered, RepliesAreGenuine, TypeOK
  <2>3. found' \in {0, r.probe}
    <3>1. SUFFICES ASSUME found' # 0, found' # r.probe
                   PROVE  FALSE
      OBVIOUS
    <3> DEFINE k == traceChans[r.id]
    <3>2. k \in Probes /\ id[k] = r.id /\ pc[k] \in Listening
      BY <2>2, <3>1 DEF Replies, TypeOK, Delivered, ListenersAreOwn
    <3>3. k \in Reserved /\ pc[k] # "done"
      BY <3>2 DEF Reserved, Listening
    <3>4. k < r.probe \/ r.probe < k
      BY <2>2, <3>1, <3>2, ProbeAssumption DEF Replies, Probes
    <3> HIDE DEF k
    <3> QED BY <2>2, <3>2, <3>3, <3>4 DEF Genuine, Delivered, Rotates, Reuse
  <2>4. RepliesAreGenuine'
    BY <1>4, <2>2, <2>3 DEF Delivered, RepliesAreGenuine
  <2>5. ChannelsAreOwn'
    BY <2>2 DEF Delivered, ChannelsAreOwn
  <2> QED BY <1>2, <1>3, <2>4, <2>5 DEF Delivered
<1>6. CASE Dispatch
  <2>1. RepliesAreGenuine'
    BY <1>4, <1>6 DEF Dispatch, Delivered, RepliesAreGenuine, net
  <2>2. ASSUME channel' = channel
        PROVE  ChannelsAreOwn'
    BY <2>2 DEF Delivered, ChannelsAreOwn
  <2>3. ASSUME found # 0, channel' = [channel EXCEPT ![found] = Append(@, receiver)]
        PROVE  ChannelsAreOwn'
    <3>1. receiver \in Replies /\ found = receiver.probe /\ found \in Probes
          /\ receiver.hop = receiver.seq
      BY <1>6, <2>3 DEF Dispatch, Delivered, RepliesAreGenuine, Genuine, TypeOK
    <3>2. /\ Len(channel'[found]) = Len(channel[found]) + 1
          /\ channel'[found][Len(channel[found]) + 1] = receiver
          /\ \A k \in 1..Len(channel[found]) : channel'[found][k] = channel[found][k]
          /\ Len(channel[found]) \in Nat
      BY <2>3, <3>1 DEF TypeOK
    <3>3. \A k \in 1..Len(channel'[found]) :
            k = Len(channel[found]) + 1 \/ k \in 1..Len(channel[found])
      BY <3>2
    <3>4. \A m \in Probes \ {found} : channel'[m] = channel[m]
      BY <2>3 DEF TypeOK
    <3>5. ASSUME NEW k \in 1..Len(channel'[found])
          PROVE  channel'[found][k].probe = found
                 /\ channel'[found][k].hop = channel'[found][k].seq
      <4>1. CASE k \in 1..Len(channel[found])
        <5>1. channel[found][k].probe = found /\ channel[found][k].hop = channel[found][k].seq
          BY <3>1, <4>1 DEF Delivered, ChannelsAreOwn
        <5> QED BY <3>2, <4>1, <5>1
      <4>2. CASE k = Len(channel[found]) + 1
        BY <3>1, <3>2, <4>2
      <4> QED BY <3>3, <4>1, <4>2
    <3> QED BY <3>4, <3>5 DEF Delivered, ChannelsAreOwn
  <2>4. ChannelsAreOwn'
    BY <1>6, <2>2, <2>3 DEF Dispatch
  <2> QED BY <1>2, <1>3, <2>1, <2>4 DEF Delivered
<1> QED BY <1>5, <1>6

\* However replies are delayed and duplicated, channels carry the replies to
\* their own probe, in every state.
LEMMA AlwaysDelivered == Spec => []Delivered
<1>1. IInv /\ Delivered /\ [Next]_vars => Delivered'
  <2> SUFFICES ASSUME IInv, Delivered, [Next]_vars PROVE Delivered'
    OBVIOUS
  <2>1. CASE UNCHANGED vars
    <3>1. Rotates'
      BY <2>1, OthersRotate DEF IInv, Delivered, Reserved, InProgress, vars, allocator, probe
    <3>2. \A r : Genuine(r) => Genuine(r)'
      BY <2>1 DEF Genuine, Reserved, vars, probe
    <3>3. RepliesAreGenuine'
      BY <2>1, <3>2 DEF Delivered, RepliesAreGenuine, vars, net, reception
    <3>4. LockIsHeld' /\ ListenersAreOwn' /\ ChannelsAreOwn' /\ AnswersEnd' /\ AnswersAreOwn'
      BY <2>1 DEF Delivered, LockIsHeld, ListenersAreOwn, ChannelsAreOwn, AnswersEnd,
         AnswersAreOwn, vars, probe, socket
    <3> QED BY <3>1, <3>3, <3>4 DEF Delivered
  <2>2. ASSUME NEW n \in Probes, ProbeStep(n)
        PROVE  Delivered'
    BY <2>2, ReserveDelivers, ProbeDelivers
  <2> QED BY <2>1, <2>2, ReceiverDelivers DEF Next
<1>2. Spec => []IInv
  BY Inductive
<1> QED BY InitDelivered, <1>1, <1>2, PTL DEF Spec

\* However replies are delayed and duplicated and probes interleave, the reply
\* ProbeHop returns answers its own packet, which had its TTL.
THEOREM OwnAnswers == Spec => []AnswersAreOwn
<1>1. Delivered => AnswersAreOwn
  BY DEF Delivered
<1> QED BY AlwaysDelivered, <1>1, PTL

-----------------------------------------------------------------------------
(* The calls of ProbeHop are those of Probing.                             *)

Call == [n \in Probes |-> IF pc[n] \in Held THEN "open" ELSE pc[n]]
Heard == [n \in Probes |-> answer[n].hop]

\* A step of ProbeHop that Probing does not see: the call goes on, with the ID,
\* the TTL and the answer it has.
LEMMA GoesOn ==
  ASSUME TypeOK, NEW n \in Probes, NEW s \in Held, pc[n] \in Held,
         pc' = [pc EXCEPT ![n] = s] \/ pc' = pc,
         UNCHANGED <<id, ttl, answer>>
  PROVE  UNCHANGED Promise!vars
<1>1. \A m \in Probes : pc'[m] \in Held <=> pc[m] \in Held
  BY DEF TypeOK
<1>2. \A m \in Probes : pc[m] \notin Held => pc'[m] = pc[m]
  BY DEF TypeOK
<1>3. Call' = Call
  BY <1>1, <1>2 DEF Call
<1> QED BY <1>3 DEF Call, Promise!vars

\* The calls Probing has open are the probes in progress.
LEMMA OpenAreInProgress == ASSUME TypeOK PROVE Promise!Open = InProgress
BY DEF Promise!Open, InProgress, TypeOK, Held

\* Both modules count with the same operator.
LEMMA SameCardinality == ASSUME NEW S PROVE Promise!Cardinality(S) = Cardinality(S)
BY DEF Promise!Cardinality, Cardinality

\* A reservation begins a call, with an ID no other one has.
LEMMA ReserveBegins ==
  ASSUME IInv, NEW n \in Probes, Reserve(n)
  PROVE  Promise!Begin(n)
<1>1. PICK i \in IDs : i \notin traces /\ id' = [id EXCEPT ![n] = i]
  BY DEF Reserve, NextID
<1>2. /\ pc[n] = "new" /\ pc' = [pc EXCEPT ![n] = "reserved"]
      /\ Cardinality(InProgress) < Slots /\ answer' = answer
  BY DEF Reserve
<1>3. PICK h \in TTLs : ttl' = [ttl EXCEPT ![n] = h]
  BY DEF Reserve
<1>4. Promise!Open = InProgress
  BY OpenAreInProgress DEF IInv
<1>5. i \in IDs \ {id[m] : m \in Promise!Open}
  BY <1>1, <1>4 DEF IInv, IDsAreExclusive
<1>6. Call[n] = "new" /\ Call' = [Call EXCEPT ![n] = "open"]
  BY <1>2 DEF Call, IInv, TypeOK, Held
<1>7. UNCHANGED Heard
  BY <1>2 DEF Heard
<1> QED BY <1>1, <1>2, <1>3, <1>4, <1>5, <1>6, <1>7, SameCardinality DEF Promise!Begin, Call, Heard

\* A call hears of one router at most: the one at its own TTL.
LEMMA TakeReplyHears ==
  ASSUME IInv, Delivered, AnswersAreOwn', NEW n \in Probes, TakeReply(n)
  PROVE  Promise!Hear(n) \/ UNCHANGED Promise!vars
<1> USE DEF IInv
<1>1. pc[n] = "waiting" /\ UNCHANGED <<id, ttl>>
  BY DEF TakeReply
<1>2. CASE UNCHANGED <<answer, pc>>
  BY <1>1, <1>2 DEF Promise!vars
<1>3. CASE /\ answer' = [answer EXCEPT ![n] = Head(channel[n])]
           /\ pc' = [pc EXCEPT ![n] = "unregister"]
  <2>1. Head(channel[n]) \in Replies
    BY DEF TakeReply, TypeOK
  <2>2. Head(channel[n]) # NoReply
    BY <2>1 DEF Replies, NoReply, Probes
  <2>3. answer'[n] = Head(channel[n]) /\ \A m \in Probes \ {n} : answer'[m] = answer[m]
    BY <1>3 DEF TypeOK
  <2>4. answer'[n].hop = ttl[n]
    BY <1>1, <2>2, <2>3 DEF AnswersAreOwn
  <2>5. answer[n] = NoReply
    BY <1>1 DEF Delivered, AnswersEnd
  <2>6. Heard[n] = 0
    BY <2>5 DEF Heard, NoReply
  <2>7. Heard' = [Heard EXCEPT ![n] = ttl[n]]
    BY <2>3, <2>4 DEF Heard
  <2>8. Call[n] = "open" /\ Call' = Call
    BY <1>1, <1>3 DEF Call, TypeOK, Held
  <2> QED BY <1>1, <2>6, <2>7, <2>8 DEF Promise!Hear, Call, Heard
<1> QED BY <1>2, <1>3 DEF TakeReply

\* The deferred release ends the call.
LEMMA ReleaseEnds ==
  ASSUME IInv, NEW n \in Probes, Release(n)
  PROVE  Promise!End(n)
<1> USE DEF IInv
<1>1. Call[n] = "open" /\ Call' = [Call EXCEPT ![n] = "done"]
  BY DEF Release, Call, TypeOK, Held
<1>2. /\ answer'[n] = NoReply
      /\ \A m \in Probes \ {n} : answer'[m] = answer[m]
  BY DEF Release, TypeOK
<1>3. Heard' = [Heard EXCEPT ![n] = 0]
  <2>1. answer'[n].hop = 0
    BY <1>2 DEF NoReply
  <2> QED BY <1>2, <2>1 DEF Heard
<1> QED BY <1>1, <1>3 DEF Release, Promise!End, Call, Heard

\* Every step of a probe is a step of its call, or none.
LEMMA ProbeStepsMap ==
  ASSUME IInv, Delivered, AnswersAreOwn', NEW n \in Probes, ProbeStep(n)
  PROVE  \/ Promise!Begin(n) \/ Promise!Hear(n) \/ Promise!End(n)
         \/ UNCHANGED Promise!vars
<1>1. CASE Reserve(n)
  BY <1>1, ReserveBegins
<1>2. CASE TakeReply(n)
  BY <1>2, TakeReplyHears
<1>3. CASE Release(n)
  BY <1>3, ReleaseEnds
<1>4. CASE ResolveFails(n)
  BY <1>4, GoesOn DEF ResolveFails, IInv, Held
<1>5. CASE Register(n)
  BY <1>5, GoesOn DEF Register, IInv, Held
<1>6. CASE SetTTL(n)
  BY <1>6, GoesOn DEF SetTTL, IInv, Held
<1>7. CASE Write(n)
  BY <1>7, GoesOn DEF Write, IInv, Held
<1>8. CASE WriteFails(n)
  BY <1>8, GoesOn DEF WriteFails, IInv, Held
<1>9. CASE WriteReturns(n)
  BY <1>9, GoesOn DEF WriteReturns, IInv, Held
<1>10. CASE GivesUp(n)
  BY <1>10, GoesOn DEF GivesUp, IInv, Held
<1>11. CASE Unregister(n)
  BY <1>11, GoesOn DEF Unregister, IInv, Held
<1> QED BY <1>1, <1>2, <1>3, <1>4, <1>5, <1>6, <1>7, <1>8, <1>9, <1>10, <1>11 DEF ProbeStep

\* With the allocator's rotation, the socket's TTL, the network, the receiver
\* and the channels between a call and its reply, NextTraceID and ProbeHop
\* implement Probing: an ID of its own for each call and one answer at most, of
\* the hop it asked for.
THEOREM Refinement == Spec => ImplementsProbing
<1>1. Init => Promise!Init
  <2> SUFFICES ASSUME Init PROVE Promise!Init
    OBVIOUS
  <2>1. Call = [n \in Probes |-> "new"]
    BY DEF Init, Call, Held
  <2>2. Heard = [n \in Probes |-> 0]
    BY DEF Init, Heard, NoReply
  <2> QED BY <2>1, <2>2 DEF Init, Promise!Init, Call, Heard
<1>2. ASSUME IInv, Delivered, Delivered', [Next]_vars
      PROVE  [Promise!Next]_Promise!vars
  <2>1. CASE UNCHANGED vars \/ Dispatch \/ \E r \in network : Receive(r)
    BY <2>1 DEF vars, probe, Dispatch, Receive, Promise!vars
  <2>2. ASSUME NEW n \in Probes, ProbeStep(n)
        PROVE  Promise!Next \/ UNCHANGED Promise!vars
    BY <1>2, <2>2, ProbeStepsMap DEF Promise!Next, Delivered
  <2> QED BY <1>2, <2>1, <2>2 DEF Next
<1> QED
  BY <1>1, <1>2, Inductive, AlwaysDelivered, PTL DEF Spec, ImplementsProbing, Promise!Spec

=============================================================================
