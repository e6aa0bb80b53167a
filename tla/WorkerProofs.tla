---------------------------- MODULE WorkerProofs ----------------------------
(***************************************************************************)
(* Theorems of Worker, for every sequence space, history, buffer, number   *)
(* of probes, resets and errors.                                           *)
(***************************************************************************)
EXTENDS Worker, FiniteSetTheorems, TLAPS

USE SeqAssumption, WorkerBounds

(***************************************************************************)
(* Sequence numbers. Two numbers less than a sequence space apart that have*)
(* the same number on the wire are equal.                                  *)
(***************************************************************************)
LEMMA SmallMultiple ==
  ASSUME NEW N \in Nat \ {0}, NEW d \in Int, N * d >= 0, N * d < N
  PROVE  N * d = 0
<1>1. d < 1
  <2>1. SUFFICES ASSUME d >= 1 PROVE FALSE
    OBVIOUS
  <2>2. N * d >= N * 1
    BY <2>1
  <2> QED BY <2>2
<1>2. d > -1
  <2>1. SUFFICES ASSUME d <= -1 PROVE FALSE
    OBVIOUS
  <2>2. N * d <= N * (-1)
    BY <2>1
  <2> QED BY <2>2
<1> QED BY <1>1, <1>2

LEMMA SameRemainder ==
  ASSUME NEW N \in Nat \ {0}, NEW a \in Nat, NEW b \in Nat,
         a % N = b % N, a <= b, b < a + N
  PROVE  a = b
<1> DEFINE q == a \div N
           r == b \div N
<1>1. q \in Int /\ r \in Int
  OBVIOUS
<1>2. a = (N * q) + (a % N) /\ b = (N * r) + (b % N) /\ a % N \in Int
  OBVIOUS
<1> HIDE DEF q, r
<1>3. b - a = N * (r - q)
  BY <1>1, <1>2
<1>4. N * (r - q) = 0
  BY <1>1, <1>3, SmallMultiple
<1> QED BY <1>3, <1>4

LEMMA SameWire ==
  ASSUME NEW m \in Nat, NEW n \in Nat, NEW last \in Nat,
         m <= last, last < m + SeqSpace, n <= last, last < n + SeqSpace,
         Wire(m) = Wire(n)
  PROVE  m = n
<1>1. CASE m <= n
  BY <1>1, SameRemainder DEF Wire
<1>2. CASE n <= m
  BY <1>2, SameRemainder DEF Wire
<1> QED BY <1>1, <1>2

LEMMA WireType ==
  ASSUME NEW n \in Nat
  PROVE  Wire(n) \in Wires
BY DEF Wire, Wires

LEMMA LastSeqType == LastSeq \in Nat
BY DEF LastSeq

(***************************************************************************)
(* recentSeqHistory: one entry per number on the wire, and not too many.   *)
(***************************************************************************)
Distinct(h) == \A i, j \in DOMAIN h : Wire(h[i].n) = Wire(h[j].n) => i = j

LEMMA DistinctIs ==
  ASSUME NEW h \in Seq(Entries)
  PROVE  Distinct(h) <=> \A i, j \in 1..Len(h) : Wire(h[i].n) = Wire(h[j].n) => i = j
<1>1. DOMAIN h = 1..Len(h)
  OBVIOUS
<1> QED BY <1>1, Zenon DEF Distinct

LEMMA WithoutEntry ==
  ASSUME TrackingOK, Distinct(hist), NEW o \in 1..Len(hist)
  PROVE  /\ Without(o) \in Seq(Entries) /\ Len(Without(o)) = Len(hist) - 1
         /\ \A j \in 1..Len(Without(o)) :
              /\ Wire(Without(o)[j].n) # Wire(hist[o].n)
              /\ \E i \in 1..Len(hist) : Without(o)[j] = hist[i]
         /\ Distinct(Without(o))
<1>1. hist \in Seq(Entries) /\ Len(hist) \in Nat
  BY DEF TrackingOK
<1>2. /\ Without(o) \in Seq(Entries) /\ Len(Without(o)) = Len(hist) - 1
      /\ DOMAIN Without(o) = 1..(Len(hist) - 1)
      /\ \A j \in 1..(Len(hist) - 1) :
           Without(o)[j] = IF j < o THEN hist[j] ELSE hist[j + 1]
  <2> DEFINE n == Len(hist)
             at(j) == IF j < o THEN hist[j] ELSE hist[j + 1]
  <2>1. Without(o) = [j \in 1..(n - 1) |-> at(j)]
    BY Zenon DEF Without
  <2>2. n \in Nat \ {0} /\ \A j \in 1..n : hist[j] \in Entries
    BY <1>1
  <2> HIDE DEF n
  <2>3. ASSUME NEW j \in 1..(n - 1)
        PROVE  at(j) \in Entries
    <3>1. j \in 1..n /\ j + 1 \in 1..n
      BY <2>2
    <3> QED BY <2>2, <3>1
  <2>4. Without(o) \in Seq(Entries) /\ Len(Without(o)) = n - 1
    BY <2>1, <2>2, <2>3
  <2>5. /\ DOMAIN Without(o) = 1..(n - 1)
        /\ \A j \in 1..(n - 1) : Without(o)[j] = at(j)
    BY <2>1, Zenon
  <2> QED BY <2>4, <2>5, Zenon DEF n, at
<1>3. \A j \in 1..(Len(hist) - 1) :
        LET i == IF j < o THEN j ELSE j + 1
        IN  i \in 1..Len(hist) /\ i # o /\ Without(o)[j] = hist[i]
  <2> SUFFICES ASSUME NEW j \in 1..(Len(hist) - 1), NEW i, i = IF j < o THEN j ELSE j + 1
               PROVE  i \in 1..Len(hist) /\ i # o /\ Without(o)[j] = hist[i]
    OBVIOUS
  <2>1. i \in 1..Len(hist) /\ i # o
    <3> DEFINE n == Len(hist)
    <3>1. n \in Nat /\ o \in 1..n /\ j \in 1..(n - 1)
      BY <1>1
    <3> HIDE DEF n
    <3>2. i \in 1..n /\ i # o
      BY <3>1
    <3> QED BY <3>2 DEF n
  <2> QED BY <1>2, <2>1
<1>4. \A i \in 1..Len(hist) : Wire(hist[i].n) = Wire(hist[o].n) => i = o
  BY <1>1, DistinctIs
<1>5. \A j \in 1..(Len(hist) - 1) : Wire(Without(o)[j].n) # Wire(hist[o].n)
  BY <1>3, <1>4
<1>6. Distinct(Without(o))
  <2>1. SUFFICES ASSUME NEW i \in 1..(Len(hist) - 1), NEW j \in 1..(Len(hist) - 1),
                        Wire(Without(o)[i].n) = Wire(Without(o)[j].n)
                 PROVE  i = j
    BY <1>2 DEF Distinct
  <2> DEFINE a == IF i < o THEN i ELSE i + 1
             b == IF j < o THEN j ELSE j + 1
  <2>2. /\ a \in 1..Len(hist) /\ b \in 1..Len(hist)
        /\ Without(o)[i] = hist[a] /\ Without(o)[j] = hist[b]
    BY <1>3
  <2>3. a = b
    <3> HIDE DEF a, b
    <3>1. Wire(hist[a].n) = Wire(hist[b].n)
      BY <2>1, <2>2
    <3>2. \A k, l \in 1..Len(hist) : Wire(hist[k].n) = Wire(hist[l].n) => k = l
      BY <1>1, DistinctIs
    <3> QED BY <2>2, <3>1, <3>2
  <2> QED BY <1>1, <2>3
<1> QED BY <1>2, <1>3, <1>5, <1>6

LEMMA AppendEntry ==
  ASSUME NEW h \in Seq(Entries), Distinct(h), NEW e \in Entries,
         \A j \in 1..Len(h) : Wire(h[j].n) # Wire(e.n)
  PROVE  /\ Append(h, e) \in Seq(Entries) /\ Len(Append(h, e)) = Len(h) + 1
         /\ \A j \in 1..Len(Append(h, e)) : Append(h, e)[j] = e \/ j \in 1..Len(h)
         /\ \A j \in 1..Len(h) : Append(h, e)[j] = h[j]
         /\ Distinct(Append(h, e))
<1> DEFINE all == Append(h, e)
<1>1. /\ all \in Seq(Entries) /\ Len(all) = Len(h) + 1 /\ Len(h) \in Nat
      /\ DOMAIN all = 1..(Len(h) + 1) /\ all[Len(h) + 1] = e
      /\ \A j \in 1..Len(h) : all[j] = h[j]
  OBVIOUS
<1>2. \A j \in 1..(Len(h) + 1) : j = Len(h) + 1 \/ j \in 1..Len(h)
  <2>1. \A n \in Nat : \A j \in 1..(n + 1) : j = n + 1 \/ j \in 1..n
    OBVIOUS
  <2> QED BY <1>1, <2>1, Zenon
<1> HIDE DEF all
<1>3. Distinct(all)
  <2>1. SUFFICES ASSUME NEW i \in 1..(Len(h) + 1), NEW j \in 1..(Len(h) + 1),
                        Wire(all[i].n) = Wire(all[j].n)
                 PROVE  i = j
    BY <1>1 DEF Distinct
  <2>2. CASE i \in 1..Len(h) /\ j \in 1..Len(h)
    <3>1. Wire(h[i].n) = Wire(h[j].n)
      BY <1>1, <2>1, <2>2
    <3>2. \A k, l \in 1..Len(h) : Wire(h[k].n) = Wire(h[l].n) => k = l
      BY DistinctIs
    <3> QED BY <2>2, <3>1, <3>2
  <2>3. CASE i = Len(h) + 1 \/ j = Len(h) + 1
    BY <1>1, <1>2, <2>1, <2>3
  <2> QED BY <1>2, <2>2, <2>3
<1> QED BY <1>1, <1>2, <1>3 DEF all

LEMMA EvictEntry ==
  ASSUME NEW h \in Seq(Entries), Len(h) <= HistCap + 1, Distinct(h)
  PROVE  LET kept == IF Len(h) > HistCap THEN Tail(h) ELSE h
         IN  /\ kept \in Seq(Entries) /\ Len(kept) <= HistCap
             /\ \A j \in 1..Len(kept) : \E i \in 1..Len(h) : kept[j] = h[i]
             /\ Distinct(kept)
<1>1. CASE Len(h) > HistCap
  <2>1. /\ Tail(h) \in Seq(Entries) /\ Len(Tail(h)) = Len(h) - 1
        /\ DOMAIN Tail(h) = 1..(Len(h) - 1)
        /\ \A j \in 1..(Len(h) - 1) : Tail(h)[j] = h[j + 1] /\ j + 1 \in 1..Len(h)
    BY <1>1
  <2>2. Len(h) \in Nat
    OBVIOUS
  <2>3. Distinct(Tail(h))
    <3>1. SUFFICES ASSUME NEW i \in 1..(Len(h) - 1), NEW j \in 1..(Len(h) - 1),
                          Wire(Tail(h)[i].n) = Wire(Tail(h)[j].n)
                   PROVE  i = j
      BY <2>1 DEF Distinct
    <3>2. i + 1 = j + 1
      <4>1. Wire(h[i + 1].n) = Wire(h[j + 1].n)
        BY <2>1, <3>1
      <4>2. \A k, l \in 1..Len(h) : Wire(h[k].n) = Wire(h[l].n) => k = l
        BY DistinctIs
      <4> QED BY <2>1, <4>1, <4>2
    <3> QED BY <2>2, <3>2
  <2> QED BY <1>1, <2>1, <2>2, <2>3
<1>2. CASE ~(Len(h) > HistCap)
  BY <1>2
<1> QED BY <1>1, <1>2

\* What was recorded replaces the entry of its number on the wire.
LEMMA RecordFacts ==
  ASSUME TrackingOK, Distinct(hist), NEW probe \in ProbeRecords, NEW kind \in Kinds
  PROVE  /\ Record(probe, kind) \in Seq(Entries)
         /\ Len(Record(probe, kind)) <= HistCap
         /\ Distinct(Record(probe, kind))
         /\ \A j \in 1..Len(Record(probe, kind)) :
              \/ Record(probe, kind)[j].n = probe.n
              \/ /\ Wire(Record(probe, kind)[j].n) # Wire(probe.n)
                 /\ \E i \in 1..Len(hist) : Record(probe, kind)[j] = hist[i]
<1> DEFINE w == Wire(probe.n)
           others == IF Indexed(w) = {} THEN hist
                     ELSE Without(CHOOSE i \in Indexed(w) : TRUE)
           new == [n |-> probe.n, window |-> probe.window, kind |-> kind]
           all == Append(others, new)
           kept == IF Len(all) > HistCap THEN Tail(all) ELSE all
<1>1. hist \in Seq(Entries) /\ Len(hist) <= HistCap /\ Len(hist) \in Nat
  BY DEF TrackingOK
<1>2. new \in Entries /\ new.n = probe.n
  BY DEF Entries, ProbeRecords
<1>3. /\ others \in Seq(Entries) /\ Len(others) <= HistCap
      /\ \A j \in 1..Len(others) : /\ Wire(others[j].n) # w
                                   /\ \E i \in 1..Len(hist) : others[j] = hist[i]
      /\ Distinct(others)
  <2>1. CASE Indexed(w) = {}
    <3>1. others = hist
      BY <2>1
    <3>2. \A j \in 1..Len(hist) : Wire(hist[j].n) # w
      BY <1>1, <2>1 DEF Indexed
    <3> HIDE DEF others
    <3> QED BY <1>1, <3>1, <3>2
  <2>2. CASE Indexed(w) # {}
    <3> DEFINE o == CHOOSE i \in Indexed(w) : TRUE
    <3>1. o \in 1..Len(hist) /\ Wire(hist[o].n) = w
      <4>1. o \in Indexed(w)
        BY <2>2
      <4> HIDE DEF o
      <4> QED BY <1>1, <4>1 DEF Indexed
    <3>2. others = Without(o)
      BY <2>2
    <3> HIDE DEF o, others
    <3>3. /\ Without(o) \in Seq(Entries) /\ Len(Without(o)) = Len(hist) - 1
          /\ \A j \in 1..Len(Without(o)) :
               /\ Wire(Without(o)[j].n) # Wire(hist[o].n)
               /\ \E i \in 1..Len(hist) : Without(o)[j] = hist[i]
          /\ Distinct(Without(o))
      BY <3>1, WithoutEntry
    <3>4. Len(others) <= HistCap
      BY <1>1, <3>2, <3>3
    <3> HIDE DEF w
    <3> QED BY <3>1, <3>2, <3>3, <3>4
  <2> QED BY <2>1, <2>2
<1> HIDE DEF others, new
<1>4. /\ all \in Seq(Entries) /\ Len(all) <= HistCap + 1 /\ Distinct(all)
      /\ \A j \in 1..Len(all) :
           \/ all[j].n = probe.n
           \/ Wire(all[j].n) # w /\ \E i \in 1..Len(hist) : all[j] = hist[i]
  <2>1. \A j \in 1..Len(others) : Wire(others[j].n) # Wire(new.n)
    BY <1>2, <1>3
  <2>2. /\ all \in Seq(Entries) /\ Len(all) = Len(others) + 1
        /\ \A j \in 1..Len(all) : all[j] = new \/ j \in 1..Len(others)
        /\ \A j \in 1..Len(others) : all[j] = others[j]
        /\ Distinct(all)
    BY <1>2, <1>3, <2>1, AppendEntry
  <2>3. Len(others) \in Nat
    BY <1>3
  <2> HIDE DEF all
  <2>4. Len(all) <= HistCap + 1
    BY <1>3, <2>2, <2>3
  <2>5. ASSUME NEW j \in 1..Len(all)
        PROVE  \/ all[j].n = probe.n
               \/ Wire(all[j].n) # w /\ \E i \in 1..Len(hist) : all[j] = hist[i]
    <3>1. CASE all[j] = new
      BY <1>2, <3>1
    <3>2. CASE j \in 1..Len(others)
      BY <1>3, <2>2, <3>2
    <3> QED BY <2>2, <3>1, <3>2
  <2> QED BY <2>2, <2>4, <2>5
<1> HIDE DEF all
<1>5. /\ kept \in Seq(Entries) /\ Len(kept) <= HistCap /\ Distinct(kept)
      /\ \A j \in 1..Len(kept) : \E i \in 1..Len(all) : kept[j] = all[i]
  BY <1>4, EvictEntry
<1>6. Record(probe, kind) = kept
  BY DEF Record, all, others, new
<1> HIDE DEF kept, w
<1>7. ASSUME NEW j \in 1..Len(kept)
      PROVE  \/ kept[j].n = probe.n
             \/ Wire(kept[j].n) # w /\ \E i \in 1..Len(hist) : kept[j] = hist[i]
  <2>1. PICK i \in 1..Len(all) : kept[j] = all[i]
    BY <1>5
  <2> QED BY <1>4, <2>1
<1> QED BY <1>5, <1>6, <1>7 DEF w

\* Every entry is what was recorded, or an old one of another number on the wire.
RecordsOne(h, probe) ==
  \A j \in 1..Len(h) :
    \/ h[j].n = probe.n
    \/ Wire(h[j].n) # Wire(probe.n) /\ \E i \in 1..Len(hist) : h[j] = hist[i]

LEMMA RecordEntries ==
  ASSUME TrackingOK, Distinct(hist), NEW probe \in ProbeRecords, NEW kind \in Kinds
  PROVE  RecordsOne(Record(probe, kind), probe)
BY RecordFacts, Zenon DEF RecordsOne

(***************************************************************************)
(* The inductive invariant.                                                *)
(***************************************************************************)

\* The outstanding probes are the latest ones, each under its number on the
\* wire; while a probe is being sent its number is free.
Tracked ==
  /\ \A w \in Outstanding :
       /\ Wire(unacked[w].n) = w
       /\ unacked[w].n <= seq /\ seq < unacked[w].n + Window
       /\ unacked[w].window <= window
       /\ pc \in {"write", "track"} => unacked[w].n < seq
  /\ window0 <= window
  /\ pc \in {"write", "track"} => seq # 0
  /\ pc = "sweep" => expired \subseteq Outstanding

\* The probes a reply to which is in the channel or may still arrive.
Expected == network \union {ch[i].n : i \in 1..Len(ch)}

\* No reply is so old that its number on the wire is in use again.
RepliesAreRecent == \A n \in Expected : n <= seq /\ seq < n + Lifetime

\* Until the worker ends, a probe that may be answered is outstanding, about to
\* be, or was settled after every other probe of its number on the wire.
Recorded ==
  pc \notin {"exiting", "exited"} =>
    \A n \in Expected :
      \/ unacked[Wire(n)].n = n
      \/ pc = "track" /\ n = seq
      \/ \A j \in 1..Len(hist) : Wire(hist[j].n) = Wire(n) => hist[j].n = n

\* A worker that was not stopped leaves its loop only when all is settled.
EndsSettled ==
  /\ doneSending => Count > 0 /\ seq = Count
  /\ ~stopping => cancelled = 0
  /\ ~stopping /\ pc \in {"exiting", "exited"} => doneSending /\ Outstanding = {}

Accounted ==
  sent = recv + (loss - unsent) + cancelled + Cardinality(Current)

IInv ==
  /\ TypeOK /\ Distinct(hist) /\ Tracked /\ RepliesAreRecent /\ Recorded
  /\ EndsSettled /\ Accounted

LEMMA InitIInv == Init => IInv
<1> SUFFICES ASSUME Init PROVE IInv
  OBVIOUS
<1>1. Outstanding = {} /\ Current = {}
  BY DEF Init, Outstanding, Current
<1>2. SendingOK
  <2>1. pc = "start" /\ seq = 0 /\ window0 = 0
    BY DEF Init
  <2>2. resolved \in BOOLEAN /\ doneSending \in BOOLEAN /\ listening \in BOOLEAN
    BY DEF Init
  <2> QED BY <2>1, <2>2, LastSeqType DEF SendingOK, Windows
<1>3. TrackingOK
  <2>1. hist = <<>> /\ expired = {} /\ unacked = [w \in Wires |-> None]
    BY DEF Init
  <2> QED BY <2>1 DEF TrackingOK
<1>4. OutsideOK
  <2>1. ch = <<>> /\ network = {} /\ extra = 0
    BY DEF Init
  <2>2. routed \in BOOLEAN /\ stopping \in BOOLEAN
    BY DEF Init
  <2> QED BY <2>1, <2>2 DEF OutsideOK
<1>5. CountersOK
  BY DEF Init, CountersOK, Windows
<1>6. Distinct(hist) /\ Recorded /\ RepliesAreRecent
  BY DEF Init, Distinct, Recorded, RepliesAreRecent, Expected
<1>7. Tracked /\ EndsSettled
  BY <1>1 DEF Init, Tracked, EndsSettled
<1>8. Accounted
  BY <1>1, FS_EmptySet DEF Init, Accounted
<1> QED BY <1>2, <1>3, <1>4, <1>5, <1>6, <1>7, <1>8 DEF IInv, TypeOK

\* A number on the wire that is not free holds a probe.
LEMMA OutstandingProbes ==
  ASSUME TypeOK, NEW w \in Outstanding
  PROVE  /\ w \in Wires /\ unacked[w] \in ProbeRecords
         /\ unacked[w].n \in Nat \ {0} /\ unacked[w].window \in Windows
BY LastSeqType DEF Outstanding, TypeOK, TrackingOK, ProbeRecords

LEMMA NoneHasNoNumber == None.n = 0 /\ None \notin ProbeRecords
BY LastSeqType DEF None, ProbeRecords

\* Outstanding probes with the same number on the wire as a recent one are it.
LEMMA FreeSlot ==
  ASSUME IInv, pc \in {"write", "track"}
  PROVE  /\ seq \in 1..LastSeq /\ Wire(seq) \in Wires
         /\ unacked[Wire(seq)] = None
<1>1. seq \in 1..LastSeq /\ seq \in Nat
  BY LastSeqType DEF IInv, TypeOK, SendingOK, Tracked
<1>2. Wire(seq) \in Wires
  BY <1>1, WireType
<1>3. SUFFICES ASSUME unacked[Wire(seq)] # None
               PROVE  FALSE
  BY <1>1, <1>2
<1> DEFINE w == Wire(seq)
<1>4. w \in Outstanding
  BY <1>2, <1>3 DEF Outstanding
<1>5. /\ unacked[w].n \in Nat /\ Wire(unacked[w].n) = Wire(seq)
      /\ unacked[w].n < seq /\ seq < unacked[w].n + Window
  BY <1>4, OutstandingProbes DEF IInv, Tracked
<1>6. unacked[w].n = seq
  <2> HIDE DEF w
  <2>1. \A m \in Nat : Wire(m) = Wire(seq) /\ m < seq /\ seq < m + Window => m = seq
    BY <1>1, SameWire
  <2> QED BY <1>5, <2>1
<1> QED BY <1>1, <1>5, <1>6

(***************************************************************************)
(* The steps: types.                                                       *)
(***************************************************************************)
LEMMA AddType ==
  ASSUME NEW c \in Nat, NEW w
  PROVE  Add(c, w) \in Nat
BY DEF Add

LEMMA SendingTyped ==
  ASSUME IInv, [Next]_vars
  PROVE  SendingOK'
<1> USE LastSeqType DEF IInv, TypeOK, SendingOK, CountersOK
<1>1. CASE UNCHANGED <<pc, sending>>
  BY <1>1 DEF sending
<1>2. CASE WorkerStep
  <2>1. CASE FirstLookup \/ TickerLookup \/ SendLookup
    BY <2>1 DEF FirstLookup, TickerLookup, SendLookup, BeginLookup
  <2>2. CASE LookupSucceeds \/ LookupFails
    BY <2>2 DEF LookupSucceeds, LookupFails, AfterIteration, sending
  <2>3. CASE NextProbe
    BY <2>3 DEF NextProbe
  <2>4. CASE WriteSucceeds \/ WriteFails \/ Track
    BY <2>4 DEF WriteSucceeds, WriteFails, Track, AfterIteration, sending
  <2>5. CASE ReplySettles \/ ReplyIsExtra \/ BeginSweep \/ SweepOne \/ SweepEnds
    BY <2>5 DEF ReplySettles, ReplyIsExtra, BeginSweep, SweepOne, SweepEnds, AfterIteration,
       sending
  <2>6. CASE SeesStop \/ CancelOne \/ Exit
    BY <2>6 DEF SeesStop, CancelOne, Exit, sending
  <2> QED BY <1>2, <2>1, <2>2, <2>3, <2>4, <2>5, <2>6 DEF WorkerStep
<1>3. CASE ~ WorkerStep
  BY <1>1, <1>3 DEF Next, Deliver, Unroute, Cancel, Reset, vars
<1> QED BY <1>2, <1>3

\* What a step does to the outstanding probes and the history.
TrackingSteps ==
  \/ UNCHANGED <<unacked, hist>>
  \/ /\ pc = "track" /\ pc' = "loop"
     /\ unacked' = [unacked EXCEPT ![Wire(seq)] = [n |-> seq, window |-> window0]]
     /\ UNCHANGED hist
  \/ /\ pc \in {"loop", "sweep"}
     /\ \E w \in Outstanding, kind \in Kinds :
          /\ unacked' = [unacked EXCEPT ![w] = None]
          /\ hist' = Record(unacked[w], kind)
  \/ /\ pc = "exiting" /\ pc' = pc
     /\ \E w \in Outstanding : unacked' = [unacked EXCEPT ![w] = None]
     /\ UNCHANGED hist

\* The reply at the head of the channel is to a probe that was sent.
LEMMA HeadReply ==
  ASSUME OutsideOK, ch # <<>>
  PROVE  /\ Head(ch) \in Replies /\ Head(ch).n \in 1..LastSeq /\ Head(ch).n \in Nat
         /\ Wire(Head(ch).n) \in Wires
         /\ Head(ch).n \in Expected
         /\ Tail(ch) \in Seq(Replies) /\ Len(Tail(ch)) = Len(ch) - 1
<1>1. Head(ch) \in Replies /\ Head(ch) = ch[1] /\ 1 \in 1..Len(ch)
  BY DEF OutsideOK
<1>2. Head(ch).n \in 1..LastSeq /\ Head(ch).n \in Nat
  BY <1>1, LastSeqType DEF Replies
<1>3. Tail(ch) \in Seq(Replies) /\ Len(Tail(ch)) = Len(ch) - 1
  BY DEF OutsideOK
<1> QED BY <1>1, <1>2, <1>3, WireType DEF Expected

LEMMA TrackingStep ==
  ASSUME IInv, [Next]_vars
  PROVE  TrackingSteps
<1>1. CASE ReplySettles
  <2> DEFINE w == Wire(Head(ch).n)
  <2>1. /\ pc = "loop" /\ ch # <<>> /\ unacked[w] # None
        /\ unacked' = [unacked EXCEPT ![w] = None]
        /\ hist' = Record(unacked[w], "acked")
    BY <1>1 DEF ReplySettles
  <2>2. w \in Outstanding
    BY <2>1, HeadReply DEF Outstanding, IInv, TypeOK
  <2> HIDE DEF w
  <2> QED BY <2>1, <2>2 DEF TrackingSteps, Kinds
<1>2. CASE SweepOne
  <2>1. PICK w \in expired : /\ unacked' = [unacked EXCEPT ![w] = None]
                             /\ hist' = Record(unacked[w], "timeout")
    BY <1>2 DEF SweepOne
  <2>2. pc = "sweep" /\ w \in Outstanding
    BY <1>2, <2>1 DEF SweepOne, IInv, Tracked
  <2> QED BY <2>1, <2>2 DEF TrackingSteps, Kinds
<1>3. CASE Track
  BY <1>3 DEF Track, TrackingSteps
<1>4. CASE CancelOne
  BY <1>4 DEF CancelOne, TrackingSteps
<1>5. CASE UNCHANGED <<unacked, hist>>
  BY <1>5 DEF TrackingSteps
<1> QED
  BY <1>1, <1>2, <1>3, <1>4, <1>5 DEF Next, WorkerStep, FirstLookup, TickerLookup, SendLookup,
     BeginLookup, LookupSucceeds, LookupFails, NextProbe, WriteSucceeds, WriteFails,
     ReplyIsExtra, BeginSweep, SweepEnds, SeesStop, Exit, Deliver, Unroute, Cancel, Reset,
     vars, tracking

LEMMA TrackingTyped ==
  ASSUME IInv, [Next]_vars
  PROVE  TrackingOK' /\ Distinct(hist)'
<1> USE DEF IInv, TypeOK
<1>1. /\ unacked' \in [Wires -> ProbeRecords \union {None}]
      /\ hist' \in Seq(Entries) /\ Len(hist') <= HistCap
      /\ Distinct(hist)'
  <2>1. CASE UNCHANGED <<unacked, hist>>
    BY <2>1 DEF TrackingOK, Distinct
  <2>2. CASE /\ pc = "track"
             /\ unacked' = [unacked EXCEPT ![Wire(seq)] = [n |-> seq, window |-> window0]]
             /\ UNCHANGED hist
    <3>1. [n |-> seq, window |-> window0] \in ProbeRecords
      BY <2>2, FreeSlot DEF ProbeRecords, SendingOK
    <3> QED BY <2>2, <3>1 DEF TrackingOK, Distinct
  <2>3. ASSUME NEW w \in Outstanding, NEW kind \in Kinds,
               unacked' = [unacked EXCEPT ![w] = None], hist' = Record(unacked[w], kind)
        PROVE  /\ unacked' \in [Wires -> ProbeRecords \union {None}]
               /\ hist' \in Seq(Entries) /\ Len(hist') <= HistCap
               /\ Distinct(hist)'
    <3>1. unacked[w] \in ProbeRecords
      BY OutstandingProbes
    <3>2. hist' \in Seq(Entries) /\ Len(hist') <= HistCap /\ Distinct(hist')
      BY <2>3, <3>1, RecordFacts
    <3> QED BY <2>3, <3>2 DEF TrackingOK, Distinct
  <2>4. ASSUME NEW w \in Outstanding,
               unacked' = [unacked EXCEPT ![w] = None], UNCHANGED hist
        PROVE  /\ unacked' \in [Wires -> ProbeRecords \union {None}]
               /\ hist' \in Seq(Entries) /\ Len(hist') <= HistCap
               /\ Distinct(hist)'
    BY <2>4 DEF TrackingOK, Distinct
  <2> QED BY <2>1, <2>2, <2>3, <2>4, TrackingStep DEF TrackingSteps
<1>2. expired' \in SUBSET Wires
  <2>1. CASE BeginSweep
    BY <2>1 DEF BeginSweep, Outstanding
  <2>2. CASE SweepOne
    BY <2>2 DEF SweepOne, TrackingOK
  <2>3. CASE UNCHANGED expired
    BY <2>3 DEF TrackingOK
  <2> QED
    BY <2>1, <2>2, <2>3 DEF Next, WorkerStep, FirstLookup, TickerLookup, SendLookup,
       BeginLookup, LookupSucceeds, LookupFails, NextProbe, WriteSucceeds, WriteFails,
       Track, ReplySettles, ReplyIsExtra, SweepEnds, SeesStop, CancelOne, Exit, Deliver,
       Unroute, Cancel, Reset, vars, tracking
<1> QED BY <1>1, <1>2 DEF TrackingOK

\* What a step does to the replies.
ReplySteps ==
  \/ /\ pc' = "write" /\ seq' = seq + 1 /\ ch' = ch /\ UNCHANGED <<unacked, hist>>
     /\ \A i \in DOMAIN ch : seq + 1 - ch[i].n < Lifetime
     /\ network' = {n \in network : seq + 1 - n < Lifetime}
  \/ /\ seq' = seq
     /\ \/ UNCHANGED <<ch, network>>
        \/ pc = "loop" /\ ch # <<>> /\ ch' = Tail(ch) /\ UNCHANGED network
        \/ pc = "write" /\ pc' = "track" /\ network' = network \union {seq} /\ ch' = ch
        \/ /\ network' \in SUBSET network
           /\ \E n \in network, err \in BOOLEAN :
                \/ UNCHANGED ch
                \/ Len(ch) < ReplyBuffer /\ ch' = Append(ch, [n |-> n, err |-> err])

LEMMA ReplyStep ==
  ASSUME IInv, [Next]_vars
  PROVE  ReplySteps
<1>1. CASE ReplySettles \/ ReplyIsExtra
  BY <1>1 DEF ReplySettles, ReplyIsExtra, ReplySteps, sending
<1>2. CASE NextProbe
  BY <1>2 DEF NextProbe, ReplySteps, tracking
<1>3. CASE WriteSucceeds
  BY <1>3 DEF WriteSucceeds, ReplySteps, sending
<1>4. CASE UNCHANGED <<ch, network, seq>>
  BY <1>4 DEF ReplySteps
<1>5. ASSUME NEW n \in 1..LastSeq, NEW err \in BOOLEAN, NEW last \in BOOLEAN,
             Deliver(n, err, last)
      PROVE  ReplySteps
  BY <1>5 DEF Deliver, ReplySteps, sending
<1>6. CASE FirstLookup \/ TickerLookup \/ SendLookup \/ LookupSucceeds \/ LookupFails
  BY <1>4, <1>6 DEF FirstLookup, TickerLookup, SendLookup, BeginLookup, LookupSucceeds,
     LookupFails, sending, outside
<1>7. CASE WriteFails \/ Track \/ BeginSweep \/ SweepOne \/ SweepEnds
  BY <1>4, <1>7 DEF WriteFails, Track, BeginSweep, SweepOne, SweepEnds, sending, outside
<1>8. CASE \/ SeesStop \/ CancelOne \/ Exit \/ Unroute \/ Cancel \/ Reset
           \/ UNCHANGED vars
  BY <1>4, <1>8 DEF SeesStop, CancelOne, Exit, Unroute, Cancel, Reset, vars, sending, outside
<1> QED BY <1>1, <1>2, <1>3, <1>5, <1>6, <1>7, <1>8 DEF Next, WorkerStep

LEMMA OutsideTyped ==
  ASSUME IInv, [Next]_vars
  PROVE  OutsideOK'
<1> USE DEF IInv, TypeOK
<1>1. ch' \in Seq(Replies) /\ Len(ch') <= ReplyBuffer
  <2>1. CASE ch' = ch
    BY <2>1 DEF OutsideOK
  <2>2. CASE ch # <<>> /\ ch' = Tail(ch)
    BY <2>2, HeadReply DEF OutsideOK
  <2>3. ASSUME NEW n \in network, NEW err \in BOOLEAN,
               Len(ch) < ReplyBuffer, ch' = Append(ch, [n |-> n, err |-> err])
        PROVE  ch' \in Seq(Replies) /\ Len(ch') <= ReplyBuffer
    <3>1. [n |-> n, err |-> err] \in Replies
      BY DEF OutsideOK, Replies
    <3> QED BY <2>3, <3>1 DEF OutsideOK
  <2> QED BY <2>1, <2>2, <2>3, ReplyStep DEF ReplySteps
<1>2. network' \in SUBSET (1..LastSeq)
  <2>1. pc = "write" => seq \in 1..LastSeq
    BY FreeSlot
  <2> QED BY <2>1, ReplyStep DEF ReplySteps, OutsideOK
<1>3. extra' \in 0..MaxExtra /\ routed' \in BOOLEAN /\ stopping' \in BOOLEAN
  <2>1. ASSUME NEW n \in 1..LastSeq, NEW err \in BOOLEAN, NEW last \in BOOLEAN,
               Deliver(n, err, last)
        PROVE  extra' \in 0..MaxExtra /\ UNCHANGED <<routed, stopping>>
    <3>1. \/ extra' = extra
          \/ extra < MaxExtra /\ extra' = extra + 1
      BY <2>1 DEF Deliver
    <3>2. UNCHANGED <<routed, stopping>>
      BY <2>1 DEF Deliver
    <3>3. extra \in 0..MaxExtra /\ MaxExtra \in Nat
      BY WorkerBounds DEF OutsideOK
    <3> QED BY <3>1, <3>2, <3>3
  <2>2. CASE Unroute
    BY <2>2 DEF Unroute, OutsideOK
  <2>3. CASE Cancel
    BY <2>3 DEF Cancel, OutsideOK
  <2>4. CASE UNCHANGED <<extra, routed, stopping>>
    BY <2>4 DEF OutsideOK
  <2>5. CASE WorkerStep \/ Reset \/ UNCHANGED vars
    BY <2>4, <2>5 DEF WorkerStep, FirstLookup, TickerLookup, SendLookup, BeginLookup,
       LookupSucceeds, LookupFails, NextProbe, WriteSucceeds, WriteFails, Track, ReplySettles,
       ReplyIsExtra, BeginSweep, SweepOne, SweepEnds, SeesStop, CancelOne, Exit, Reset,
       vars, outside
  <2>6. CASE \E n \in 1..LastSeq, err, last \in BOOLEAN : Deliver(n, err, last)
    BY <2>1, <2>6 DEF OutsideOK
  <2> QED BY <2>2, <2>3, <2>5, <2>6 DEF Next
<1> QED BY <1>1, <1>2, <1>3 DEF OutsideOK

(***************************************************************************)
(* The steps: the counters and the outstanding probes of the window.       *)
(***************************************************************************)
LEMMA CurrentCount ==
  ASSUME TypeOK
  PROVE  IsFiniteSet(Current) /\ Cardinality(Current) \in Nat
<1>1. IsFiniteSet(Wires)
  BY FS_Interval DEF Wires
<1>2. Current \subseteq Wires
  BY DEF Current, Outstanding
<1> QED BY <1>1, <1>2, FS_Subset, FS_CardinalityType

\* A probe that is settled leaves the outstanding ones of its window.
LEMMA SettlesOne ==
  ASSUME IInv, NEW w \in Outstanding, unacked' = [unacked EXCEPT ![w] = None],
         window' = window
  PROVE  /\ Outstanding' = Outstanding \ {w}
         /\ Cardinality(Current') =
              IF unacked[w].window = window THEN Cardinality(Current) - 1
              ELSE Cardinality(Current)
<1>1. \A v \in Wires : unacked'[v] = IF v = w THEN None ELSE unacked[v]
  BY DEF IInv, TypeOK, TrackingOK
<1>2. Outstanding' = Outstanding \ {w}
  BY <1>1 DEF Outstanding
<1>3. Current' = Current \ {w}
  BY <1>1, <1>2 DEF Current, Outstanding
<1>4. w \in Current <=> unacked[w].window = window
  BY DEF Current
<1>5. Cardinality(Current \ {w}) = IF w \in Current THEN Cardinality(Current) - 1
                                   ELSE Cardinality(Current)
  BY CurrentCount, FS_RemoveElement DEF IInv
<1> QED BY <1>2, <1>3, <1>4, <1>5

\* A probe that was sent joins them.
LEMMA TracksOne ==
  ASSUME IInv, Track
  PROVE  Cardinality(Current') =
           IF window0 = window THEN Cardinality(Current) + 1 ELSE Cardinality(Current)
<1> DEFINE s == Wire(seq)
<1>1. pc = "track" /\ window' = window
      /\ unacked' = [unacked EXCEPT ![s] = [n |-> seq, window |-> window0]]
  BY DEF Track
<1>2. s \in Wires /\ unacked[s] = None /\ seq # 0
  BY <1>1, FreeSlot
<1> HIDE DEF s
<1>3. \A v \in Wires : unacked'[v] = IF v = s THEN [n |-> seq, window |-> window0]
                                     ELSE unacked[v]
  BY <1>1, <1>2 DEF IInv, TypeOK, TrackingOK
<1>4. [n |-> seq, window |-> window0] # None
  BY <1>2 DEF None
<1>5. Outstanding' = Outstanding \union {s} /\ s \notin Outstanding
  BY <1>2, <1>3, <1>4 DEF Outstanding
<1>6. CASE window0 = window
  <2>1. Current' = Current \union {s} /\ s \notin Current
    BY <1>1, <1>2, <1>3, <1>5, <1>6 DEF Current, Outstanding
  <2>2. Cardinality(Current \union {s}) = Cardinality(Current) + 1
    BY <2>1, CurrentCount, FS_AddElement DEF IInv
  <2> QED BY <1>6, <2>1, <2>2
<1>7. CASE window0 # window
  <2>1. Current' = Current
    BY <1>1, <1>2, <1>3, <1>5, <1>7 DEF Current, Outstanding
  <2> QED BY <1>7, <2>1
<1> QED BY <1>6, <1>7

\* A step counts what it settles: each probe once, in its own window.
LEMMA CountersStep ==
  ASSUME IInv, [Next]_vars
  PROVE  CountersOK' /\ Accounted'
<1> USE DEF IInv, TypeOK, CountersOK
<1>0. recv \in Nat /\ loss \in Nat /\ unsent \in Nat /\ cancelled \in Nat
  OBVIOUS
<1>1. Cardinality(Current) \in Nat
  BY CurrentCount
<1>2. CASE Reset
  <2>1. /\ window' = window + 1 /\ window' \in Windows
        /\ sent' = 0 /\ recv' = 0 /\ loss' = 0 /\ cancelled' = 0
        /\ duplicates' = 0 /\ lateReplies' = 0 /\ unsent' = 0
        /\ unacked' = unacked
    BY <1>2 DEF Reset, Windows, tracking
  <2>2. Current' = {}
    <3>1. \A w \in Outstanding : unacked[w].window <= window /\ unacked[w].window \in Nat
      BY OutstandingProbes DEF Tracked, Windows
    <3>2. window \in Nat
      BY DEF Windows
    <3> QED BY <2>1, <3>1, <3>2 DEF Current, Outstanding
  <2>3. Accounted'
    BY <2>1, <2>2, FS_EmptySet DEF Accounted
  <2> QED BY <2>1, <2>3
<1>3. CASE Track
  <2>1. /\ sent' = Add(sent, window0) /\ sent' \in Nat
        /\ UNCHANGED <<window, recv, loss, cancelled, duplicates, lateReplies, unsent>>
    BY <1>3, AddType DEF Track
  <2>2. Accounted'
    BY <1>1, <1>3, <2>1, TracksOne DEF Accounted, Add, Counts
  <2> QED BY <2>1, <2>2
<1>4. CASE ReplySettles
  <2> DEFINE w == Wire(Head(ch).n)
  <2>1. /\ unacked[w] # None /\ ch # <<>>
        /\ unacked' = [unacked EXCEPT ![w] = None]
        /\ \/ loss' = Add(loss, unacked[w].window) /\ recv' = recv
           \/ recv' = Add(recv, unacked[w].window) /\ loss' = loss
        /\ UNCHANGED <<window, sent, cancelled, duplicates, lateReplies, unsent>>
    BY <1>4 DEF ReplySettles
  <2>2. w \in Outstanding
    BY <2>1, HeadReply DEF Outstanding
  <2> HIDE DEF w
  <2>3. loss' \in Nat /\ recv' \in Nat
    BY <2>1, AddType
  <2>4. Cardinality(Current') =
          IF unacked[w].window = window THEN Cardinality(Current) - 1
          ELSE Cardinality(Current)
    BY <2>1, <2>2, SettlesOne
  <2>5. CASE unacked[w].window = window
    <3>1. \/ loss' = loss + 1 /\ recv' = recv
          \/ recv' = recv + 1 /\ loss' = loss
      BY <2>1, <2>5 DEF Add, Counts
    <3>2. UNCHANGED <<sent, unsent, cancelled>>
      BY <2>1
    <3>3. Cardinality(Current') = Cardinality(Current) - 1
      BY <2>4, <2>5
    <3>4. Accounted'
      <4>1. CASE loss' = loss + 1 /\ recv' = recv
        BY <1>1, <1>0, <3>2, <3>3, <4>1 DEF Accounted
      <4>2. CASE recv' = recv + 1 /\ loss' = loss
        BY <1>1, <1>0, <3>2, <3>3, <4>2 DEF Accounted
      <4> QED BY <3>1, <4>1, <4>2
    <3> QED BY <2>1, <2>3, <3>4
  <2>6. CASE unacked[w].window # window
    <3>1. UNCHANGED <<loss, recv>>
      BY <2>1, <2>6 DEF Add, Counts
    <3>2. Accounted'
      BY <2>1, <2>4, <2>6, <3>1 DEF Accounted
    <3> QED BY <2>1, <2>3, <3>2
  <2> QED BY <2>5, <2>6
<1>5. CASE SweepOne
  <2>1. PICK w \in expired : /\ unacked' = [unacked EXCEPT ![w] = None]
                             /\ loss' = Add(loss, unacked[w].window)
    BY <1>5 DEF SweepOne
  <2>2. UNCHANGED <<window, sent, recv, cancelled, duplicates, lateReplies, unsent>>
    BY <1>5 DEF SweepOne
  <2>3. w \in Outstanding
    BY <1>5, <2>1 DEF SweepOne, Tracked
  <2>4. Cardinality(Current') =
          IF unacked[w].window = window THEN Cardinality(Current) - 1
          ELSE Cardinality(Current)
    BY <2>1, <2>2, <2>3, SettlesOne
  <2>5. loss' \in Nat
    BY <2>1, AddType
  <2>6. Accounted'
    BY <1>1, <2>1, <2>2, <2>4 DEF Accounted, Add, Counts
  <2> QED BY <2>2, <2>5, <2>6
<1>6. CASE CancelOne
  <2>1. PICK w \in Outstanding : /\ unacked' = [unacked EXCEPT ![w] = None]
                                 /\ cancelled' = Add(cancelled, unacked[w].window)
    BY <1>6 DEF CancelOne
  <2>2. UNCHANGED <<window, sent, recv, loss, duplicates, lateReplies, unsent>>
    BY <1>6 DEF CancelOne
  <2>4. Cardinality(Current') =
          IF unacked[w].window = window THEN Cardinality(Current) - 1
          ELSE Cardinality(Current)
    BY <2>1, <2>2, SettlesOne
  <2>5. cancelled' \in Nat
    BY <2>1, AddType
  <2>6. Accounted'
    BY <1>1, <2>1, <2>2, <2>4 DEF Accounted, Add, Counts
  <2> QED BY <2>2, <2>5, <2>6
<1>7. ASSUME UNCHANGED <<unacked, window, sent, recv, cancelled>>,
             \/ UNCHANGED <<loss, unsent>>
             \/ loss' = Add(loss, window0) /\ unsent' = Add(unsent, window0),
             duplicates' \in Nat, lateReplies' \in Nat
      PROVE  CountersOK' /\ Accounted'
  <2>1. loss' \in Nat /\ unsent' \in Nat
    BY <1>7, AddType
  <2>2. Current' = Current
    BY <1>7 DEF Current, Outstanding
  <2>3. loss' - unsent' = loss - unsent
    BY <1>7 DEF Add
  <2>4. Accounted'
    BY <1>7, <2>2, <2>3 DEF Accounted
  <2> QED BY <1>7, <2>1, <2>4
<1>8. CASE LookupFails \/ WriteFails
  BY <1>7, <1>8 DEF LookupFails, WriteFails, tracking
<1>9. CASE ReplyIsExtra
  BY <1>7, <1>9 DEF ReplyIsExtra, tracking
<1>10. CASE UNCHANGED <<unacked, window, counters>>
  BY <1>7, <1>10 DEF counters
<1> QED
  BY <1>2, <1>3, <1>4, <1>5, <1>6, <1>8, <1>9, <1>10 DEF Next, WorkerStep, FirstLookup,
     TickerLookup, SendLookup, BeginLookup, LookupSucceeds, NextProbe, WriteSucceeds,
     BeginSweep, SweepEnds, SeesStop, Exit, Deliver, Unroute, Cancel, vars, tracking

(***************************************************************************)
(* The steps: sequence numbers and replies.                                *)
(***************************************************************************)

\* After a step the outstanding probes are those of before, but for the one
\* that was tracked.
LEMMA OutstandingNext ==
  ASSUME IInv, [Next]_vars, NEW w \in Outstanding'
  PROVE  \/ w \in Outstanding /\ unacked'[w] = unacked[w]
         \/ /\ pc = "track" /\ pc' = "loop" /\ w = Wire(seq)
            /\ unacked'[w] = [n |-> seq, window |-> window0]
<1> USE DEF IInv, TypeOK, TrackingOK, Outstanding
<1>1. CASE UNCHANGED <<unacked, hist>>
  BY <1>1
<1>2. ASSUME NEW v \in Wires, unacked' = [unacked EXCEPT ![v] = None]
      PROVE  w \in Outstanding /\ unacked'[w] = unacked[w]
  BY <1>2
<1>3. CASE /\ pc = "track" /\ pc' = "loop"
           /\ unacked' = [unacked EXCEPT ![Wire(seq)] = [n |-> seq, window |-> window0]]
  <2>1. CASE w = Wire(seq)
    BY <1>3, <2>1
  <2>2. CASE w # Wire(seq)
    BY <1>3, <2>2
  <2> QED BY <2>1, <2>2
<1> QED BY <1>1, <1>2, <1>3, TrackingStep DEF TrackingSteps

\* What a step does to the sequence number and the windows.
SequenceSteps ==
  /\ window' \in {window, window + 1} /\ window0' \in {window0, window}
  /\ \/ seq' = seq /\ (pc' = "write" => pc = "write") /\ (pc' = "track" => pc \in {"write", "track"})
     \/ /\ seq' = seq + 1 /\ pc' = "write" /\ unacked' = unacked
        /\ \A w \in Outstanding : seq + 1 - unacked[w].n < Window

LEMMA SequenceStep ==
  ASSUME IInv, [Next]_vars
  PROVE  SequenceSteps
<1>1. CASE NextProbe
  BY <1>1 DEF NextProbe, SequenceSteps, tracking
<1>2. CASE FirstLookup \/ TickerLookup \/ SendLookup
  BY <1>2 DEF FirstLookup, TickerLookup, SendLookup, BeginLookup, SequenceSteps
<1>3. CASE LookupSucceeds \/ LookupFails
  BY <1>3 DEF LookupSucceeds, LookupFails, SequenceSteps, AfterIteration, sending
<1>4. CASE WriteSucceeds \/ WriteFails \/ Track
  BY <1>4 DEF WriteSucceeds, WriteFails, Track, SequenceSteps, AfterIteration, sending
<1>5. CASE ReplySettles \/ ReplyIsExtra \/ BeginSweep \/ SweepOne \/ SweepEnds
  BY <1>5 DEF ReplySettles, ReplyIsExtra, BeginSweep, SweepOne, SweepEnds, SequenceSteps,
     AfterIteration, sending
<1>6. CASE SeesStop \/ CancelOne \/ Exit \/ Unroute \/ Cancel \/ Reset \/ UNCHANGED vars
  BY <1>6 DEF SeesStop, CancelOne, Exit, Unroute, Cancel, Reset, vars, SequenceSteps, sending
<1>7. ASSUME NEW n \in 1..LastSeq, NEW err \in BOOLEAN, NEW last \in BOOLEAN,
             Deliver(n, err, last)
      PROVE  SequenceSteps
  BY <1>7 DEF Deliver, SequenceSteps, sending
<1> QED BY <1>1, <1>2, <1>3, <1>4, <1>5, <1>6, <1>7 DEF Next, WorkerStep

LEMMA TrackedStep ==
  ASSUME IInv, [Next]_vars
  PROVE  Tracked'
<1> USE DEF IInv, TypeOK
<1>1. seq \in Nat /\ window \in Nat /\ window0 \in Nat
  BY LastSeqType DEF SendingOK, CountersOK, Windows
<1>2. ASSUME NEW w \in Outstanding'
      PROVE  /\ Wire(unacked'[w].n) = w
             /\ unacked'[w].n <= seq' /\ seq' < unacked'[w].n + Window
             /\ unacked'[w].window <= window'
             /\ pc' \in {"write", "track"} => unacked'[w].n < seq'
  <2>1. CASE w \in Outstanding /\ unacked'[w] = unacked[w]
    <3>1. /\ unacked[w].n \in Nat /\ unacked[w].window \in Nat /\ Wire(unacked[w].n) = w
          /\ unacked[w].n <= seq /\ seq < unacked[w].n + Window /\ unacked[w].window <= window
          /\ pc \in {"write", "track"} => unacked[w].n < seq
      BY <2>1, OutstandingProbes DEF Tracked, Windows
    <3> QED BY <1>1, <2>1, <3>1, SequenceStep DEF SequenceSteps
  <2>2. CASE /\ pc = "track" /\ pc' = "loop" /\ w = Wire(seq)
             /\ unacked'[w] = [n |-> seq, window |-> window0]
    BY <1>1, <2>2, SequenceStep DEF SequenceSteps, Tracked
  <2> QED BY <2>1, <2>2, OutstandingNext
<1>3. window0' <= window' /\ (pc' \in {"write", "track"} => seq' # 0)
  BY <1>1, SequenceStep DEF SequenceSteps, Tracked
<1>4. pc' = "sweep" => expired' \subseteq Outstanding'
  <2>1. CASE BeginSweep
    BY <2>1 DEF BeginSweep, Outstanding
  <2>2. CASE SweepOne
    BY <2>2 DEF SweepOne, Tracked, Outstanding, TrackingOK
  <2>3. CASE pc' = "sweep" => pc = "sweep" /\ UNCHANGED tracking
    BY <2>3 DEF Tracked, Outstanding, tracking
  <2> QED
    BY <2>1, <2>2, <2>3 DEF Next, WorkerStep, FirstLookup, TickerLookup, SendLookup,
       BeginLookup, LookupSucceeds, LookupFails, NextProbe, WriteSucceeds, WriteFails,
       Track, ReplySettles, ReplyIsExtra, SweepEnds, SeesStop, CancelOne, Exit, Deliver,
       Unroute, Cancel, Reset, vars, AfterIteration
<1> QED BY <1>2, <1>3, <1>4 DEF Tracked

\* After a step no reply is expected that was not, but to the probe just sent.
LEMMA ExpectedNext ==
  ASSUME IInv, [Next]_vars, NEW n \in Expected'
  PROVE  /\ n \in Nat \ {0}
         /\ \/ n \in Expected /\ seq' = seq
            \/ n \in Expected /\ seq' = seq + 1 /\ seq + 1 - n < Lifetime
            \/ pc = "write" /\ pc' = "track" /\ n = seq /\ seq' = seq
<1> USE DEF IInv, TypeOK
<1>1. n \in Nat \ {0}
  <2>1. OutsideOK'
    BY OutsideTyped
  <2>2. network' \subseteq 1..LastSeq /\ ch' \in Seq(Replies)
    BY <2>1 DEF OutsideOK
  <2>3. ASSUME NEW i \in 1..Len(ch')
        PROVE  ch'[i].n \in 1..LastSeq
    <3>1. ch'[i] \in Replies
      BY <2>2
    <3> QED BY <3>1 DEF Replies
  <2>4. n \in 1..LastSeq
    BY <2>2, <2>3 DEF Expected
  <2> QED BY <2>4, LastSeqType
<1>2. ch \in Seq(Replies)
  BY DEF OutsideOK
<1>3. CASE n \in network'
  BY <1>1, <1>3, ReplyStep DEF ReplySteps, Expected
<1>4. CASE n \notin network'
  <2>1. PICK i \in 1..Len(ch') : n = ch'[i].n
    BY <1>4 DEF Expected
  <2>2. CASE ch' = ch
    <3>1. n \in Expected /\ \E j \in DOMAIN ch : n = ch[j].n
      BY <1>2, <2>1, <2>2 DEF Expected
    <3> QED BY <1>1, <1>4, <2>2, <3>1, ReplyStep DEF ReplySteps
  <2>3. CASE ch # <<>> /\ ch' = Tail(ch) /\ seq' = seq
    <3>1. i + 1 \in 1..Len(ch) /\ ch'[i] = ch[i + 1]
      BY <1>2, <2>1, <2>3
    <3> QED BY <1>1, <2>1, <2>3, <3>1 DEF Expected
  <2>4. ASSUME NEW m \in network, NEW err \in BOOLEAN, seq' = seq,
               ch' = Append(ch, [n |-> m, err |-> err])
        PROVE  n \in Expected /\ seq' = seq
    <3>1. \/ i \in 1..Len(ch) /\ ch'[i] = ch[i]
          \/ ch'[i] = [n |-> m, err |-> err]
      <4>1. [n |-> m, err |-> err] \in Replies
        BY DEF OutsideOK, Replies
      <4> QED BY <1>2, <2>1, <2>4, <4>1
    <3> QED BY <2>1, <2>4, <3>1 DEF Expected
  <2> QED BY <1>1, <2>2, <2>3, <2>4, ReplyStep DEF ReplySteps
<1> QED BY <1>3, <1>4

LEMMA RecentStep ==
  ASSUME IInv, [Next]_vars
  PROVE  RepliesAreRecent'
<1>1. SUFFICES ASSUME NEW n \in Expected'
               PROVE  n <= seq' /\ seq' < n + Lifetime
  BY DEF RepliesAreRecent
<1>2. seq \in Nat /\ Lifetime \in Nat \ {0} /\ n \in Nat
  BY LastSeqType, ExpectedNext DEF IInv, TypeOK, SendingOK
<1>3. n \in Expected => n <= seq /\ seq < n + Lifetime
  BY DEF IInv, RepliesAreRecent
<1> QED BY <1>2, <1>3, ExpectedNext

\* An outstanding probe with the number on the wire of a reply that is still
\* expected is the probe it answers.
LEMMA RecentMatch ==
  ASSUME IInv, NEW n \in Expected, n \in Nat, NEW w \in Outstanding,
         Wire(unacked[w].n) = Wire(n)
  PROVE  unacked[w].n = n
<1>1. /\ unacked[w].n \in Nat /\ seq \in Nat
      /\ unacked[w].n <= seq /\ seq < unacked[w].n + Window
  BY LastSeqType, OutstandingProbes DEF IInv, Tracked, TypeOK, SendingOK
<1>2. n <= seq /\ seq < n + Lifetime
  BY DEF IInv, RepliesAreRecent
<1>3. n \in Nat /\ Window < SeqSpace /\ Lifetime <= SeqSpace
  OBVIOUS
<1>4. seq < unacked[w].n + SeqSpace /\ seq < n + SeqSpace
  BY <1>1, <1>2, <1>3
<1>5. \A a, b \in Nat : a <= seq /\ seq < a + SeqSpace /\ b <= seq /\ seq < b + SeqSpace
                        /\ Wire(a) = Wire(b) => a = b
  BY <1>1, SameWire
<1> QED BY <1>1, <1>2, <1>3, <1>4, <1>5

\* The worker goes on from "track" with the probe outstanding, and never comes
\* back from its end.
LEMMA WorkerGoesOn ==
  ASSUME [Next]_vars
  PROVE  /\ pc = "track" =>
              \/ pc' = pc
              \/ /\ pc' = "loop"
                 /\ unacked' = [unacked EXCEPT ![Wire(seq)] = [n |-> seq, window |-> window0]]
         /\ pc \in {"exiting", "exited"} => pc' \in {"exiting", "exited"}
<1>1. CASE FirstLookup \/ TickerLookup \/ SendLookup \/ LookupSucceeds \/ LookupFails
  BY <1>1 DEF FirstLookup, TickerLookup, SendLookup, BeginLookup, LookupSucceeds, LookupFails
<1>2. CASE NextProbe \/ WriteSucceeds \/ WriteFails \/ Track
  BY <1>2 DEF NextProbe, WriteSucceeds, WriteFails, Track
<1>3. CASE ReplySettles \/ ReplyIsExtra \/ BeginSweep \/ SweepOne \/ SweepEnds
  BY <1>3 DEF ReplySettles, ReplyIsExtra, BeginSweep, SweepOne, SweepEnds
<1>4. CASE SeesStop \/ CancelOne \/ Exit
  BY <1>4 DEF SeesStop, CancelOne, Exit
<1>5. CASE UNCHANGED pc
  BY <1>5
<1> QED BY <1>1, <1>2, <1>3, <1>4, <1>5 DEF Next, WorkerStep, Deliver, Unroute, Cancel, Reset,
   vars

LEMMA RecordedStep ==
  ASSUME IInv, [Next]_vars
  PROVE  Recorded'
<1> USE DEF IInv, TypeOK
<1>1. SUFFICES ASSUME pc' \notin {"exiting", "exited"}, NEW n \in Expected'
               PROVE  \/ unacked'[Wire(n)].n = n
                      \/ pc' = "track" /\ n = seq'
                      \/ \A j \in 1..Len(hist') : Wire(hist'[j].n) = Wire(n) => hist'[j].n = n
  BY DEF Recorded
<1>2. pc \notin {"exiting", "exited"}
  BY <1>1, WorkerGoesOn
<1>3. n \in Nat \ {0} /\ Wire(n) \in Wires
  BY ExpectedNext, WireType
<1>4. CASE pc = "write" /\ pc' = "track" /\ n = seq /\ seq' = seq
  BY <1>4
<1>5. CASE n \in Expected
  \* The reply's probe is outstanding.
  <2>1. CASE unacked[Wire(n)].n = n
    <3>1. Wire(n) \in Outstanding
      BY <1>3, <2>1, NoneHasNoNumber DEF Outstanding
    <3>2. CASE UNCHANGED unacked
      BY <2>1, <3>2
    <3>3. CASE /\ pc = "track"
               /\ unacked' = [unacked EXCEPT ![Wire(seq)] = [n |-> seq, window |-> window0]]
      <4>1. unacked[Wire(seq)] = None
        BY <3>3, FreeSlot
      <4>2. Wire(seq) # Wire(n)
        BY <3>1, <4>1 DEF Outstanding
      <4> QED BY <1>3, <2>1, <3>3, <4>2 DEF TrackingOK
    <3>4. ASSUME NEW w \in Outstanding, NEW kind \in Kinds,
                 unacked' = [unacked EXCEPT ![w] = None], hist' = Record(unacked[w], kind)
          PROVE  \/ unacked'[Wire(n)].n = n
                 \/ \A j \in 1..Len(hist') : Wire(hist'[j].n) = Wire(n) => hist'[j].n = n
      <4>1. CASE w = Wire(n)
        <5>1. unacked[w] \in ProbeRecords /\ unacked[w].n = n
          BY <2>1, <4>1, OutstandingProbes
        <5>2. TrackingOK /\ Distinct(hist)
          OBVIOUS
        <5> HIDE DEF IInv, TypeOK
        <5>3. RecordsOne(hist', unacked[w])
          BY <3>4, <5>1, <5>2, RecordEntries
        <5> QED BY <5>1, <5>3 DEF RecordsOne
      <4>2. CASE w # Wire(n)
        BY <1>3, <2>1, <3>4, <4>2 DEF TrackingOK
      <4> QED BY <4>1, <4>2
    <3> QED BY <1>2, <3>2, <3>3, <3>4, TrackingStep DEF TrackingSteps
  \* It is about to be.
  <2>2. CASE pc = "track" /\ n = seq
    <3>1. CASE pc' = pc
      BY <2>2, <3>1, SequenceStep DEF SequenceSteps
    <3>2. CASE unacked' = [unacked EXCEPT ![Wire(seq)] = [n |-> seq, window |-> window0]]
      BY <1>3, <2>2, <3>2 DEF TrackingOK
    <3> QED BY <2>2, <3>1, <3>2, WorkerGoesOn
  \* It was the last one of its number on the wire that was settled.
  <2>3. CASE \A j \in 1..Len(hist) : Wire(hist[j].n) = Wire(n) => hist[j].n = n
    <3>1. CASE UNCHANGED hist
      BY <2>3, <3>1
    <3>2. ASSUME NEW w \in Outstanding, NEW kind \in Kinds, hist' = Record(unacked[w], kind)
          PROVE  \A j \in 1..Len(hist') : Wire(hist'[j].n) = Wire(n) => hist'[j].n = n
      <4>1. unacked[w] \in ProbeRecords
        BY OutstandingProbes
      <4>2. Wire(unacked[w].n) = Wire(n) => unacked[w].n = n
        BY <1>3, <1>5, RecentMatch
      <4>3. \A j \in 1..Len(hist') :
              hist'[j].n = unacked[w].n \/ \E i \in 1..Len(hist) : hist'[j] = hist[i]
        <5>1. TrackingOK /\ Distinct(hist)
          OBVIOUS
        <5> HIDE DEF IInv, TypeOK
        <5>2. RecordsOne(hist', unacked[w])
          BY <3>2, <4>1, <5>1, RecordEntries
        <5> QED BY <5>2 DEF RecordsOne
      <4> QED BY <2>3, <4>2, <4>3
    <3> QED BY <3>1, <3>2, TrackingStep DEF TrackingSteps
  <2> QED BY <1>2, <1>5, <2>1, <2>2, <2>3 DEF Recorded
<1> QED BY <1>4, <1>5, ExpectedNext

\* The worker is done sending only after its last probe.
LEMMA DoneStep ==
  ASSUME IInv, [Next]_vars, doneSending'
  PROVE  Count > 0 /\ seq' = Count
<1> USE DEF IInv, TypeOK, SendingOK, EndsSettled
<1>1. Count \in Nat /\ seq \in Nat /\ (Count > 0 => seq <= Count)
  BY LastSeqType DEF LastSeq
<1>2. CASE Track \/ WriteFails
  <2>1. doneSending' = (Count > 0 /\ seq >= Count) /\ seq' = seq
    BY <1>2 DEF Track, WriteFails
  <2>2. Count > 0 /\ seq >= Count
    BY <2>1
  <2> QED BY <1>1, <2>1, <2>2
<1>3. CASE NextProbe
  BY <1>1, <1>3 DEF NextProbe, LastSeq
<1>4. CASE UNCHANGED <<seq, doneSending>>
  BY <1>4
<1>5. CASE FirstLookup \/ TickerLookup \/ SendLookup \/ LookupSucceeds \/ LookupFails
  BY <1>4, <1>5 DEF FirstLookup, TickerLookup, SendLookup, BeginLookup, LookupSucceeds,
     LookupFails, sending
<1>6. CASE WriteSucceeds \/ ReplySettles \/ ReplyIsExtra \/ BeginSweep \/ SweepOne \/ SweepEnds
  BY <1>4, <1>6 DEF WriteSucceeds, ReplySettles, ReplyIsExtra, BeginSweep, SweepOne, SweepEnds,
     sending
<1>7. CASE \/ SeesStop \/ CancelOne \/ Exit \/ Unroute \/ Cancel \/ Reset
           \/ UNCHANGED vars
  BY <1>4, <1>7 DEF SeesStop, CancelOne, Exit, Unroute, Cancel, Reset, vars, sending
<1>8. ASSUME NEW n \in 1..LastSeq, NEW err \in BOOLEAN, NEW last \in BOOLEAN,
             Deliver(n, err, last)
      PROVE  UNCHANGED <<seq, doneSending>>
  BY <1>8 DEF Deliver, sending
<1> QED BY <1>2, <1>3, <1>4, <1>5, <1>6, <1>7, <1>8 DEF Next, WorkerStep

\* The end of an iteration of the loop: the worker leaves it when it is done and
\* nothing is outstanding any more.
LeavesSettled ==
  pc' \in {"exiting", "exited"} =>
    \/ pc \in {"exiting", "exited"} /\ UNCHANGED doneSending
       /\ (UNCHANGED unacked \/ Outstanding # {})
    \/ stopping
    \/ doneSending' /\ Outstanding' = {}

LEMMA LeavingStep ==
  ASSUME IInv, [Next]_vars
  PROVE  LeavesSettled
<1> USE DEF LeavesSettled
<1>1. CASE FirstLookup \/ TickerLookup \/ SendLookup
  BY <1>1 DEF FirstLookup, TickerLookup, SendLookup, BeginLookup
<1>2. CASE LookupSucceeds \/ LookupFails \/ WriteFails \/ SweepEnds
  BY <1>2 DEF LookupSucceeds, LookupFails, WriteFails, SweepEnds, AfterIteration, Outstanding,
     sending, tracking
<1>3. CASE NextProbe \/ WriteSucceeds \/ Track \/ BeginSweep
  BY <1>3 DEF NextProbe, WriteSucceeds, Track, BeginSweep
<1>4. CASE ReplySettles
  <2> DEFINE w == Wire(Head(ch).n)
  <2>1. /\ unacked[w] # None /\ ch # <<>> /\ window' = window
        /\ unacked' = [unacked EXCEPT ![w] = None]
        /\ pc' = AfterIteration(Outstanding \ {w}, doneSending) /\ doneSending' = doneSending
    BY <1>4 DEF ReplySettles, sending
  <2>2. w \in Outstanding
    BY <2>1, HeadReply DEF Outstanding, IInv, TypeOK
  <2> HIDE DEF w
  <2>3. Outstanding' = Outstanding \ {w}
    BY <2>1, <2>2, SettlesOne
  <2> QED BY <2>1, <2>3 DEF AfterIteration
<1>5. CASE ReplyIsExtra \/ SweepOne
  BY <1>5 DEF ReplyIsExtra, SweepOne
<1>6. CASE SeesStop \/ CancelOne \/ Exit
  BY <1>6 DEF SeesStop, CancelOne, Exit, sending, tracking
<1>7. CASE UNCHANGED <<pc, doneSending, unacked>>
  BY <1>7 DEF Outstanding
<1>8. CASE Unroute \/ Cancel \/ Reset \/ UNCHANGED vars
  BY <1>7, <1>8 DEF Unroute, Cancel, Reset, vars, sending, tracking
<1>9. ASSUME NEW n \in 1..LastSeq, NEW err \in BOOLEAN, NEW last \in BOOLEAN,
             Deliver(n, err, last)
      PROVE  UNCHANGED <<pc, doneSending, unacked>>
  BY <1>9 DEF Deliver, sending, tracking
<1> QED BY <1>1, <1>2, <1>3, <1>4, <1>5, <1>6, <1>7, <1>8, <1>9 DEF Next, WorkerStep

LEMMA StopStep ==
  ASSUME [Next]_vars
  PROVE  /\ stopping => stopping'
         /\ \/ cancelled' \in {cancelled, 0}
            \/ pc = "exiting" /\ Outstanding # {}
<1>1. CASE Cancel \/ Reset \/ CancelOne
  <2>1. CASE Cancel
    BY <2>1 DEF Cancel, counters
  <2>2. CASE Reset
    BY <2>2 DEF Reset, outside
  <2>3. CASE CancelOne
    BY <2>3 DEF CancelOne, outside
  <2> QED BY <1>1, <2>1, <2>2, <2>3
<1>2. CASE UNCHANGED <<stopping, cancelled>>
  BY <1>2
<1>3. CASE FirstLookup \/ TickerLookup \/ SendLookup \/ LookupSucceeds \/ LookupFails
  BY <1>2, <1>3 DEF FirstLookup, TickerLookup, SendLookup, BeginLookup, LookupSucceeds,
     LookupFails, outside, counters
<1>4. CASE NextProbe \/ WriteSucceeds \/ WriteFails \/ Track
  BY <1>2, <1>4 DEF NextProbe, WriteSucceeds, WriteFails, Track, outside, counters
<1>5. CASE ReplySettles \/ ReplyIsExtra \/ BeginSweep \/ SweepOne \/ SweepEnds
  BY <1>2, <1>5 DEF ReplySettles, ReplyIsExtra, BeginSweep, SweepOne, SweepEnds, outside,
     counters
<1>6. CASE SeesStop \/ Exit \/ Unroute \/ UNCHANGED vars
  BY <1>2, <1>6 DEF SeesStop, Exit, Unroute, vars, outside, counters
<1>7. ASSUME NEW n \in 1..LastSeq, NEW err \in BOOLEAN, NEW last \in BOOLEAN,
             Deliver(n, err, last)
      PROVE  UNCHANGED <<stopping, cancelled>>
  BY <1>7 DEF Deliver, counters
<1> QED BY <1>1, <1>2, <1>3, <1>4, <1>5, <1>6, <1>7 DEF Next, WorkerStep

LEMMA EndsSettledStep ==
  ASSUME IInv, [Next]_vars
  PROVE  EndsSettled'
<1> USE DEF IInv
<1>1. doneSending' => Count > 0 /\ seq' = Count
  BY DoneStep
<1>2. ~stopping' => cancelled' = 0
  BY StopStep DEF EndsSettled
<1>3. ASSUME ~stopping', pc' \in {"exiting", "exited"}
      PROVE  doneSending' /\ Outstanding' = {}
  <2>1. ~stopping
    BY <1>3, StopStep
  <2>2. CASE pc \in {"exiting", "exited"} /\ UNCHANGED <<doneSending, unacked>>
    BY <2>1, <2>2 DEF EndsSettled, Outstanding
  <2> QED BY <1>3, <2>1, <2>2, LeavingStep DEF LeavesSettled, EndsSettled
<1> QED BY <1>1, <1>2, <1>3 DEF EndsSettled

LEMMA Inductive ==
  ASSUME IInv, [Next]_vars
  PROVE  IInv'
<1>1. TypeOK'
  BY SendingTyped, TrackingTyped, OutsideTyped, CountersStep DEF TypeOK
<1>2. Distinct(hist)' /\ Accounted'
  BY TrackingTyped, CountersStep
<1>3. Tracked' /\ RepliesAreRecent' /\ Recorded' /\ EndsSettled'
  BY TrackedStep, RecentStep, RecordedStep, EndsSettledStep
<1> QED BY <1>1, <1>2, <1>3 DEF IInv

LEMMA Invariance == Spec => []IInv
<1>1. Init => IInv
  BY InitIInv
<1>2. IInv /\ [Next]_vars => IInv'
  BY Inductive
<1> QED BY <1>1, <1>2, PTL DEF Spec

(***************************************************************************)
(* The theorems.                                                           *)
(***************************************************************************)

\* The worker's variables and counters take the values they are meant to; its
\* history of settled sequence numbers (recentSeqHistory) stays in its capacity
\* and its reply channel in its buffer.
THEOREM TypeCorrect == Spec => []TypeOK
<1>1. IInv => TypeOK
  BY DEF IInv
<1> QED BY <1>1, Invariance, PTL

\* Every probe that was sent in the current statistics window (IncSent) is
\* answered, lost, cancelled or outstanding, exactly one of them.
THEOREM AccountedProbes == Spec => []EveryProbeAccounted
<1>1. IInv => EveryProbeAccounted
  BY DEF IInv, Accounted, EveryProbeAccounted
<1> QED BY <1>1, Invariance, PTL

\* settleReply credits a reply to, or counts it as a duplicate of, only the probe
\* it answers, although sequence numbers wrap on the wire.
THEOREM MatchedReplies == Spec => []RepliesMatchTheirProbe
<1>1. ASSUME IInv PROVE RepliesMatchTheirProbe
  <2> USE <1>1 DEF IInv, TypeOK
  <2>1. SUFFICES ASSUME pc = "loop", NEW i \in DOMAIN ch
                 PROVE  LET w == Wire(ch[i].n)
                        IN  /\ unacked[w] # None => unacked[w].n = ch[i].n
                            /\ unacked[w] = None =>
                                 \A j \in DOMAIN hist : Wire(hist[j].n) = w => hist[j].n = ch[i].n
    BY DEF RepliesMatchTheirProbe
  <2> DEFINE n == ch[i].n
  <2>2. n \in Expected /\ n \in Nat \ {0}
    <3>1. ch[i] \in Replies /\ i \in 1..Len(ch)
      BY DEF OutsideOK
    <3> QED BY <3>1, LastSeqType DEF Replies, Expected
  <2> HIDE DEF n
  <2>3. Wire(n) \in Wires
    BY <2>2, WireType
  <2>4. unacked[Wire(n)] # None => unacked[Wire(n)].n = n
    <3>1. SUFFICES ASSUME unacked[Wire(n)] # None PROVE unacked[Wire(n)].n = n
      OBVIOUS
    <3>2. Wire(n) \in Outstanding
      BY <2>3, <3>1 DEF Outstanding
    <3>3. Wire(unacked[Wire(n)].n) = Wire(n)
      BY <3>2 DEF Tracked
    <3> QED BY <2>2, <3>2, <3>3, RecentMatch
  <2>5. ASSUME unacked[Wire(n)] = None, NEW j \in DOMAIN hist, Wire(hist[j].n) = Wire(n)
        PROVE  hist[j].n = n
    <3>1. unacked[Wire(n)].n # n
      BY <2>2, <2>5, NoneHasNoNumber
    <3>2. DOMAIN hist = 1..Len(hist)
      BY DEF TrackingOK
    <3> QED BY <2>1, <2>2, <2>5, <3>1, <3>2 DEF Recorded
  <2> QED BY <2>4, <2>5 DEF n
<1> QED BY <1>1, Invariance, PTL

\* Without a user operation the worker leaves its loop only when it has sent
\* Count probes and none of them is outstanding or cancelled.
THEOREM SettledFinish == Spec => []FinishesOnlyWhenSettled
<1>1. IInv => FinishesOnlyWhenSettled
  BY DEF IInv, EndsSettled, FinishesOnlyWhenSettled
<1> QED BY <1>1, Invariance, PTL

(***************************************************************************)
(* What the worker counts is what Accounting counts.                       *)
(***************************************************************************)
Sending == pc \in {"write", "track"}
Outs == {unacked[w] : w \in Outstanding}

LEMMA AddIsOne ==
  ASSUME NEW c \in Nat, NEW w
  PROVE  Add(c, w) = c + Promise!One(w)
BY DEF Add, Counts, Promise!One

\* A step Accounting does not see.
LEMMA NothingCounted ==
  ASSUME UNCHANGED <<seq, window0, unacked, stopping, window, sent, recv, loss, cancelled>>,
         Sending' <=> Sending, pc' = "exited" <=> pc = "exited"
  PROVE  UNCHANGED Promise!vars
<1>1. {unacked[w] : w \in Outstanding}' = {unacked[w] : w \in Outstanding}
  BY DEF Outstanding
<1>2. UNCHANGED Promise!operation
  BY DEF Promise!operation, Sending
<1>3. UNCHANGED Promise!tally
  BY DEF Promise!tally
<1> QED BY <1>1, <1>2, <1>3 DEF Promise!vars

\* The probe that leaves its number on the wire is the only one like it.
LEMMA SettledLeaves ==
  ASSUME IInv, NEW w \in Outstanding, unacked' = [unacked EXCEPT ![w] = None]
  PROVE  unacked[w] \in Outs /\ Outs' = Outs \ {unacked[w]}
<1>1. \A v \in Wires : unacked'[v] = IF v = w THEN None ELSE unacked[v]
  BY DEF IInv, TypeOK, TrackingOK
<1>2. Outstanding' = Outstanding \ {w}
  BY <1>1 DEF Outstanding
<1>3. \A v \in Outstanding : unacked[v] = unacked[w] => v = w
  BY DEF IInv, Tracked
<1>4. \A v \in Outstanding \ {w} : unacked'[v] = unacked[v]
  BY <1>1 DEF Outstanding
<1> QED BY <1>2, <1>3, <1>4 DEF Outs

\* The probe that is tracked takes no other one's place.
LEMMA TrackedJoins ==
  ASSUME IInv, Track
  PROVE  Outs' = Outs \union {[n |-> seq, window |-> window0]}
<1> DEFINE s == Wire(seq)  probe == [n |-> seq, window |-> window0]
<1>1. s \in Wires /\ unacked[s] = None /\ seq # 0
  BY FreeSlot DEF Track
<1>2. unacked' = [unacked EXCEPT ![s] = probe]
  BY DEF Track
<1>3. probe # None
  BY <1>1 DEF None
<1> HIDE DEF s, probe
<1>4. \A v \in Wires : unacked'[v] = IF v = s THEN probe ELSE unacked[v]
  BY <1>1, <1>2 DEF IInv, TypeOK, TrackingOK
<1>5. Outstanding' = Outstanding \union {s} /\ s \notin Outstanding
  BY <1>1, <1>3, <1>4 DEF Outstanding
<1>6. /\ \A v \in Outstanding : unacked'[v] = unacked[v]
      /\ unacked'[s] = probe
  BY <1>1, <1>4, <1>5 DEF Outstanding
<1>7. Outs' = Outs \union {probe}
  BY <1>5, <1>6 DEF Outs
<1> QED BY <1>7 DEF probe

\* What is settled or discarded is outstanding.
LEMMA EndsAreSteps ==
  ASSUME NEW probe \in Outs, Promise!Settle(probe) \/ Promise!Discard(probe)
  PROVE  Promise!Next
<1>1. \E x \in {unacked[w] : w \in Outstanding} : Promise!Settle(x) \/ Promise!Discard(x)
  BY Zenon DEF Outs
<1> QED BY <1>1 DEF Promise!Next

\* A probe is settled once, as received or lost, in its own window.
LEMMA SettleMaps ==
  ASSUME IInv, NEW w \in Outstanding, unacked' = [unacked EXCEPT ![w] = None],
         \/ recv' = Add(recv, unacked[w].window) /\ loss' = loss
         \/ loss' = Add(loss, unacked[w].window) /\ recv' = recv,
         UNCHANGED <<seq, window0, stopping, window, sent, cancelled>>,
         ~ Sending, ~ Sending', pc # "exited", pc' # "exited"
  PROVE  Promise!Next
<1>1. PICK probe \in Outs : probe = unacked[w] /\ Outs' = Outs \ {probe}
  BY SettledLeaves
<1>2. \/ recv' = recv + Promise!One(probe.window) /\ loss' = loss
      \/ loss' = loss + Promise!One(probe.window) /\ recv' = recv
  BY <1>1, AddIsOne DEF IInv, TypeOK, CountersOK
<1>3. UNCHANGED Promise!operation
  BY DEF Promise!operation, Sending
<1>4. Promise!Settle(probe)
  BY <1>1, <1>2, <1>3 DEF Promise!Settle, Outs
<1> QED BY <1>4, EndsAreSteps

\* Every step of the worker, the receiver and the supervisor is one of
\* Accounting, or changes nothing there.
LEMMA StepsCount ==
  ASSUME IInv, [Next]_vars
  PROVE  Promise!Next \/ UNCHANGED Promise!vars
<1> USE DEF Sending
<1>1. CASE FirstLookup \/ TickerLookup \/ SendLookup
  <2>1. /\ ~ Sending /\ ~ Sending' /\ pc # "exited" /\ pc' # "exited"
        /\ window0' = window
        /\ UNCHANGED <<seq, unacked, stopping, window, sent, recv, loss, cancelled>>
    BY <1>1 DEF FirstLookup, TickerLookup, SendLookup, BeginLookup, tracking, outside, counters
  <2>2. Promise!Look
    BY <2>1 DEF Promise!Look, Promise!tally, Outstanding
  <2> QED BY <2>2 DEF Promise!Next
<1>2. CASE LookupFails
  <2>1. /\ ~ Sending /\ ~ Sending' /\ pc # "exited" /\ pc' # "exited"
        /\ loss' \in {loss, Add(loss, window0)}
        /\ UNCHANGED <<seq, window0, unacked, stopping, window, sent, recv, cancelled>>
    BY <1>2 DEF LookupFails, AfterIteration, sending, tracking, outside
  <2>2. CASE loss' = loss
    BY <2>1, <2>2, NothingCounted
  <2>3. CASE loss' = Add(loss, window0)
    <3>1. loss' = loss + Promise!One(window0)
      BY <2>3, AddIsOne DEF IInv, TypeOK, CountersOK
    <3>2. Promise!LookFails
      BY <2>1, <3>1 DEF Promise!LookFails, Promise!operation, Outstanding
    <3> QED BY <3>2 DEF Promise!Next
  <2> QED BY <2>1, <2>2, <2>3
<1>3. CASE NextProbe
  <2>1. /\ ~ Sending /\ Sending' /\ pc # "exited" /\ pc' # "exited"
        /\ seq' = seq + 1 /\ window0' = window /\ (Count > 0 => seq < Count)
        /\ UNCHANGED <<unacked, stopping, window, sent, recv, loss, cancelled>>
    BY <1>3 DEF NextProbe, LastSeq, tracking, counters
  <2>2. Promise!Create
    BY <2>1 DEF Promise!Create, Promise!tally, Outstanding
  <2> QED BY <2>2 DEF Promise!Next
<1>4. CASE WriteFails
  <2>1. /\ Sending /\ ~ Sending' /\ pc # "exited" /\ pc' # "exited"
        /\ loss' \in {loss, Add(loss, window0)}
        /\ UNCHANGED <<seq, window0, unacked, stopping, window, sent, recv, cancelled>>
    BY <1>4 DEF WriteFails, AfterIteration, tracking, outside
  <2>2. loss' \in {loss, loss + Promise!One(window0)}
    BY <2>1, AddIsOne DEF IInv, TypeOK, CountersOK
  <2>3. Promise!GiveUp
    BY <2>1, <2>2 DEF Promise!GiveUp, Outstanding
  <2> QED BY <2>3 DEF Promise!Next
<1>5. CASE Track
  <2>1. /\ Sending /\ ~ Sending' /\ pc # "exited" /\ pc' # "exited"
        /\ sent' = Add(sent, window0)
        /\ UNCHANGED <<seq, window0, stopping, window, recv, loss, cancelled>>
    BY <1>5 DEF Track, outside
  <2>2. sent' = sent + Promise!One(window0)
    BY <2>1, AddIsOne DEF IInv, TypeOK, CountersOK
  <2>3. Outs' = Outs \union {[n |-> seq, window |-> window0]}
    BY <1>5, TrackedJoins
  <2>4. Promise!Send
    BY <2>1, <2>2, <2>3 DEF Promise!Send, Outs
  <2> QED BY <2>4 DEF Promise!Next
<1>6. CASE ReplySettles
  <2> DEFINE w == Wire(Head(ch).n)
  <2>1. /\ unacked[w] # None /\ ch # <<>>
        /\ unacked' = [unacked EXCEPT ![w] = None]
        /\ \/ recv' = Add(recv, unacked[w].window) /\ loss' = loss
           \/ loss' = Add(loss, unacked[w].window) /\ recv' = recv
        /\ UNCHANGED <<seq, window0, stopping, window, sent, cancelled>>
    BY <1>6 DEF ReplySettles, sending
  <2>2. ~ Sending /\ ~ Sending' /\ pc # "exited" /\ pc' # "exited"
    BY <1>6 DEF ReplySettles, AfterIteration
  <2>3. w \in Outstanding
    BY <2>1, HeadReply DEF Outstanding, IInv, TypeOK
  <2> HIDE DEF w
  <2> QED BY <2>1, <2>2, <2>3, SettleMaps
<1>7. CASE SweepOne
  <2>1. PICK w \in expired : /\ unacked' = [unacked EXCEPT ![w] = None]
                             /\ loss' = Add(loss, unacked[w].window)
    BY <1>7 DEF SweepOne
  <2>2. /\ UNCHANGED <<seq, window0, stopping, window, sent, recv, cancelled>>
        /\ ~ Sending /\ ~ Sending' /\ pc # "exited" /\ pc' # "exited"
    BY <1>7 DEF SweepOne, sending, outside
  <2>3. w \in Outstanding
    BY <1>7, <2>1 DEF SweepOne, Tracked, IInv
  <2> QED BY <2>1, <2>2, <2>3, SettleMaps
<1>8. CASE CancelOne
  <2>1. PICK w \in Outstanding : /\ unacked' = [unacked EXCEPT ![w] = None]
                                 /\ cancelled' = Add(cancelled, unacked[w].window)
    BY <1>8 DEF CancelOne
  <2>2. /\ UNCHANGED <<seq, window0, stopping, window, sent, recv, loss>>
        /\ pc = "exiting" /\ pc' = pc
    BY <1>8 DEF CancelOne, sending, outside
  <2>3. stopping
    BY <2>1, <2>2 DEF IInv, EndsSettled
  <2>4. PICK probe \in Outs : probe = unacked[w] /\ Outs' = Outs \ {probe}
    BY <2>1, SettledLeaves
  <2>5. cancelled' = cancelled + Promise!One(probe.window)
    BY <2>1, <2>4, AddIsOne DEF IInv, TypeOK, CountersOK
  <2>6. Promise!Discard(probe)
    BY <2>2, <2>3, <2>4, <2>5 DEF Promise!Discard, Promise!operation, Outs
  <2> QED BY <2>6, EndsAreSteps
<1>9. CASE Exit
  <2>1. /\ pc = "exiting" /\ pc' = "exited" /\ Outstanding = {}
        /\ UNCHANGED <<seq, window0, unacked, stopping, window, sent, recv, loss, cancelled>>
    BY <1>9 DEF Exit, sending, tracking, outside, counters
  <2>2. stopping \/ (Count > 0 /\ seq = Count)
    BY <2>1 DEF IInv, EndsSettled
  <2>3. Outs = {} /\ Outs' = Outs
    BY <2>1 DEF Outs, Outstanding
  <2>4. Promise!End
    BY <2>1, <2>2, <2>3 DEF Promise!End, Promise!operation, Promise!tally, Outs
  <2> QED BY <2>4 DEF Promise!Next
<1>10. CASE Cancel
  <2>1. /\ ~ stopping /\ stopping'
        /\ UNCHANGED <<pc, seq, window0, unacked, window, sent, recv, loss, cancelled>>
    BY <1>10 DEF Cancel, sending, tracking, counters
  <2>2. Promise!Stop
    BY <2>1 DEF Promise!Stop, Promise!operation, Promise!tally, Outstanding
  <2> QED BY <2>2 DEF Promise!Next
<1>11. CASE Reset
  <2>1. /\ window' = window + 1
        /\ sent' = 0 /\ recv' = 0 /\ loss' = 0 /\ cancelled' = 0
        /\ UNCHANGED <<pc, seq, window0, unacked, stopping>>
    BY <1>11 DEF Reset, sending, tracking, outside
  <2>2. Promise!Reset
    BY <2>1 DEF Promise!Reset, Promise!operation, Outstanding
  <2> QED BY <2>2 DEF Promise!Next
<1>12. CASE LookupSucceeds \/ WriteSucceeds \/ ReplyIsExtra \/ BeginSweep \/ SweepEnds \/ SeesStop
  <2>1. /\ UNCHANGED <<seq, window0, unacked, stopping, window, sent, recv, loss, cancelled>>
        /\ Sending' <=> Sending
        /\ pc # "exited" /\ pc' # "exited"
    BY <1>12 DEF LookupSucceeds, WriteSucceeds, ReplyIsExtra, BeginSweep, SweepEnds, SeesStop,
       AfterIteration, sending, tracking, outside, counters
  <2> QED BY <2>1, NothingCounted
<1>13. ASSUME NEW n \in 1..LastSeq, NEW err \in BOOLEAN, NEW last \in BOOLEAN,
              Deliver(n, err, last)
       PROVE  UNCHANGED Promise!vars
  BY <1>13, NothingCounted DEF Deliver, sending, tracking, counters
<1>14. CASE Unroute \/ UNCHANGED vars
  BY <1>14, NothingCounted DEF Unroute, vars, sending, tracking, outside, counters
<1> QED BY <1>1, <1>2, <1>3, <1>4, <1>5, <1>6, <1>7, <1>8, <1>9, <1>10, <1>11, <1>12, <1>13, <1>14
  DEF Next, WorkerStep

\* The worker, with numbers that wrap on the wire, a bounded history, a sweep and
\* a receiver that races it, implements Accounting: each probe counted once as
\* sent and once as settled, in its own statistics window, and none discarded
\* but by a user operation.
THEOREM Refinement == Spec => ImplementsAccounting
<1>1. Init => Promise!Init
  <2> SUFFICES ASSUME Init PROVE Promise!Init
    OBVIOUS
  <2>1. {unacked[w] : w \in Outstanding} = {}
    BY DEF Init, Outstanding
  <2> QED BY <2>1 DEF Init, Promise!Init
<1>2. IInv /\ [Next]_vars => [Promise!Next]_Promise!vars
  BY StepsCount
<1> QED BY <1>1, <1>2, Invariance, PTL DEF Spec, ImplementsAccounting, Promise!Spec

=============================================================================
