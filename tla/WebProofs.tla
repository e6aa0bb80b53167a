------------------------------ MODULE WebProofs ------------------------------
(***************************************************************************)
(* Theorems of the web UI.  WebStream: what the streams show, for every    *)
(* number of streams, writes, iterations and failing requests.             *)
(* WebProcess and Privilege: nothing privileged runs while AsRealUser has  *)
(* given the privileges away, whoever has read the IDs before locking      *)
(* restores the right ones, and the web process is unprivileged, served as *)
(* long as it serves, and gone at the end, for every number of callers,    *)
(* failures and crashes.                                                   *)
(***************************************************************************)
EXTENDS WebStream, WebProcess, FiniteSetTheorems, TLAPS

USE WebAssumption

(***************************************************************************)
(* The inductive invariant.                                                *)
(***************************************************************************)

\* The generation is behind the statistics by the write that has not bumped it,
\* and the list by the edit that is not published.
Counted ==
  /\ gen <= data
  /\ dirty => data = gen + 1
  /\ ~dirty => data = gen
  /\ list <= data
  /\ editing => list < data

\* The iteration and the state determine the version of the source.
Versioned ==
  /\ src.state = "starting" => src.iter = 0 /\ src.version = 0
  /\ src.state = "running" => src.version + 1 = 2 * src.iter
  /\ src.state = "reloading" => src.version = 2 * src.iter
  /\ src.state = "stopped" => src.version = 2 * src.iter + 1
  /\ src.version = 0 => src.state = "starting"

\* A tag of the current version comes with the current state of the source.
Tells(tag, state) ==
  tag.version <= src.version /\ (tag.version = src.version => state = src.state)

\* A body holds what its tag stands for.
Holds(tag, content) == tag.gen <= content.data /\ Tells(tag, content.state)

\* What the backend works with: the source it loaded, the keys it computed from
\* it, its cache, and its answer.
Served ==
  /\ Holds(cache.key, cache.body)
  /\ Tells(loaded, loaded.state)
  /\ at \in {"keyed", "answered"} => key.gen <= gen /\ key.version = loaded.version
  /\ at = "answered" => Holds(key, body)
  /\ \A r \in relay : r.key.gen <= gen /\ Tells(r.key, r.state)

\* What it answered, and what became of it.
Delivered ==
  /\ Holds(fetched.tag, fetched.body)
  /\ \A s \in Streams : /\ Holds(got[s].tag, got[s].body)
                        /\ Holds(last[s], shown[s])

\* A final send begins when the source has come to rest, and its fetch returns
\* that state of the source or an error.
Final ==
  /\ server # "up" => src.state # "running"
  /\ \A s \in Streams :
       /\ stream[s] = "fetching" => holder = {s}
       /\ fresh[s] /\ stream[s] \in {"fetching", "writing"} => server # "up"
       /\ fresh[s] /\ stream[s] = "fetching" => loaded.version = src.version
       /\ fresh[s] /\ stream[s] = "writing" /\ ~got[s].err =>
            got[s].tag.version = src.version
       /\ stream[s] = "complete" => server # "up" /\ shown[s].state = src.state

IInv == TypeOK /\ Counted /\ Versioned /\ Served /\ Delivered /\ Final

LEMMA NoKeyType == NoKey \in Keys /\ NoBody \in Bodies /\ NoFetch \in Fetches
                   /\ NoSource \in Sources
<1>1. NoKey \in Keys
  BY DEF NoKey, Keys, MaxVersion
<1>2. NoBody \in Bodies
  BY DEF NoBody, Bodies, States
<1>3. NoSource \in Sources
  BY DEF NoSource, Sources, States, MaxVersion
<1> QED BY <1>1, <1>2, <1>3 DEF NoFetch, Fetches

LEMMA InitIInv == Init => IInv
<1> SUFFICES ASSUME Init PROVE IInv
  OBVIOUS
<1> USE DEF Init
<1>1. MeasuredOK
  <2>1. dirty \in BOOLEAN /\ editing \in BOOLEAN
    OBVIOUS
  <2>2. data \in 0..MaxWrites /\ gen \in 0..MaxWrites /\ list \in 0..MaxWrites
    OBVIOUS
  <2>3. src \in Sources
    BY NoKeyType
  <2> HIDE DEF Init
  <2> QED BY <2>1, <2>2, <2>3 DEF MeasuredOK
<1>2. BackendOK
  BY NoKeyType, FS_EmptySet DEF BackendOK, Points
<1>3. FrontendOK
  <2>1. fetched \in Fetches /\ faults \in 0..MaxFaults
    BY NoKeyType
  <2>6. young \in BOOLEAN
    OBVIOUS
  <2>2. holder \subseteq Streams /\ Cardinality(holder) <= 1
    BY FS_EmptySet
  <2>3. stream \in [Streams -> StreamStates] /\ fresh \in [Streams -> BOOLEAN]
    BY DEF StreamStates
  <2>4. last \in [Streams -> Keys] /\ shown \in [Streams -> Bodies] /\ got \in [Streams -> Fetches]
    BY NoKeyType
  <2>5. server \in {"up", "cancelled", "closed"}
    OBVIOUS
  <2> HIDE DEF Init
  <2> QED BY <2>1, <2>2, <2>3, <2>4, <2>5, <2>6 DEF FrontendOK
<1>4. Counted /\ Versioned
  BY DEF Counted, Versioned, NoSource
<1>5. Holds(NoKey, NoBody) /\ Tells(NoSource, NoSource.state)
  BY DEF Holds, Tells, NoKey, NoBody, NoSource
<1>6. Served
  BY <1>5 DEF Served
<1>7. Delivered
  BY <1>5 DEF Delivered, NoFetch
<1>8. Final
  BY DEF Final
<1> QED BY <1>1, <1>2, <1>3, <1>4, <1>6, <1>7, <1>8 DEF IInv, TypeOK

(***************************************************************************)
(* The measurement process.                                                *)
(***************************************************************************)

\* What its steps do as the rest sees them: the statistics grow, or the source
\* takes its next version.
MeasuredStep ==
  /\ UNCHANGED <<backend, frontend>>
  /\ \/ src' = src /\ gen' >= gen /\ data' >= data
     \/ /\ src'.version = src.version + 1 /\ UNCHANGED <<data, gen>>
        /\ server = "up"

Measurement ==
  \/ Writes \/ Bumps \/ Edits \/ Publishes
  \/ SetsProvider \/ MarksReloading \/ MarksStopped

LEMMA SourceType ==
  ASSUME IInv
  PROVE  /\ src.iter \in 0..MaxIter /\ src.version \in Nat /\ src.state \in States
         /\ gen \in Nat /\ data \in Nat /\ list \in Nat
         /\ src = [iter |-> src.iter, state |-> src.state, version |-> src.version]
BY DEF IInv, TypeOK, MeasuredOK, Sources, MaxVersion

LEMMA TransitionTyped ==
  ASSUME IInv, NEW i \in 0..MaxIter, NEW st \in States, NEW v \in Nat, v <= 2 * i + 1,
         src' = [iter |-> i, state |-> st, version |-> v]
  PROVE  /\ src' \in Sources /\ src'.iter = i /\ src'.state = st /\ src'.version = v
<1>1. i \in Nat /\ MaxIter \in Nat /\ i <= MaxIter
  OBVIOUS
<1>2. v <= 2 * MaxIter + 1
  BY <1>1
<1>3. v \in 0..MaxVersion
  BY <1>1, <1>2 DEF MaxVersion
<1> QED BY <1>3 DEF Sources

LEMMA MeasurementStep ==
  ASSUME IInv, Measurement
  PROVE  MeasuredOK' /\ Counted' /\ Versioned' /\ MeasuredStep
<1> USE SourceType DEF IInv, TypeOK
<1>1. CASE Writes \/ Bumps \/ Edits \/ Publishes
  <2>1. data' \in 0..MaxWrites /\ dirty' \in BOOLEAN /\ editing' \in BOOLEAN
    <3>1. CASE Writes
      BY <3>1 DEF Writes, MeasuredOK
    <3>3. CASE Edits
      BY <3>3 DEF Edits, MeasuredOK
    <3>2. CASE Bumps \/ Publishes
      BY <3>2 DEF Bumps, Publishes, MeasuredOK
    <3> QED BY <1>1, <3>1, <3>2, <3>3
  <2>2. Counted'
    <3>1. CASE Writes
      BY <3>1 DEF Writes, Counted
    <3>2. CASE Edits
      BY <3>2 DEF Edits, Counted
    <3>3. CASE Bumps
      BY <3>3 DEF Bumps, Counted
    <3>4. CASE Publishes
      BY <3>4 DEF Publishes, Counted
    <3> QED BY <1>1, <3>1, <3>2, <3>3, <3>4
  <2>3. src' = src /\ UNCHANGED <<backend, frontend>>
    BY <1>1 DEF Writes, Bumps, Edits, Publishes
  <2>4. gen' \in Nat /\ list' \in Nat /\ gen' >= gen /\ data' >= data
    BY <1>1 DEF Writes, Bumps, Edits, Publishes
  <2>5. gen' \in 0..MaxWrites /\ list' \in 0..MaxWrites
    BY <2>1, <2>2, <2>4 DEF Counted
  <2>6. MeasuredOK'
    BY <2>1, <2>3, <2>5 DEF MeasuredOK
  <2>7. Versioned'
    BY <2>3 DEF Versioned
  <2> QED BY <2>2, <2>3, <2>4, <2>6, <2>7 DEF MeasuredStep
<1>2. ASSUME NEW i \in 0..MaxIter, NEW st \in States, Transition(i, st),
             src.version + 1 <= 2 * i + 1, server = "up"
      PROVE  /\ MeasuredOK' /\ Counted' /\ MeasuredStep
             /\ src'.iter = i /\ src'.state = st /\ src'.version = src.version + 1
  <2>1. /\ src' = [iter |-> i, state |-> st, version |-> src.version + 1]
        /\ UNCHANGED <<data, gen, dirty, list, editing, backend, frontend>>
    BY <1>2 DEF Transition
  <2>2. /\ src' \in Sources /\ src'.iter = i /\ src'.state = st
        /\ src'.version = src.version + 1
    BY <1>2, <2>1, TransitionTyped
  <2>3. MeasuredOK' /\ Counted'
    BY <2>1, <2>2 DEF MeasuredOK, Counted
  <2>4. MeasuredStep
    BY <1>2, <2>1, <2>2 DEF MeasuredStep
  <2> QED BY <2>2, <2>3, <2>4
<1>3. CASE SetsProvider
  <2>1. /\ src.state \in {"starting", "reloading"} /\ src.iter < MaxIter /\ server = "up"
        /\ Transition(src.iter + 1, "running")
    BY <1>3 DEF SetsProvider
  <2>2. src.version = 2 * src.iter
    BY <2>1 DEF Versioned
  <2>3. /\ MeasuredOK' /\ Counted' /\ MeasuredStep /\ src'.state = "running"
        /\ src'.iter = src.iter + 1 /\ src'.version = src.version + 1
    BY <1>2, <2>1, <2>2 DEF States
  <2>4. Versioned'
    BY <2>2, <2>3 DEF Versioned
  <2> QED BY <2>3, <2>4
<1>4. CASE MarksReloading
  <2>1. src.state = "running" /\ Transition(src.iter, "reloading")
    BY <1>4 DEF MarksReloading
  <2>2. src.version + 1 = 2 * src.iter /\ server = "up"
    BY <2>1 DEF Versioned, Final, FrontendOK
  <2>3. /\ MeasuredOK' /\ Counted' /\ MeasuredStep /\ src'.state = "reloading"
        /\ src'.iter = src.iter /\ src'.version = src.version + 1
    BY <1>2, <2>1, <2>2 DEF States
  <2>4. Versioned'
    BY <2>2, <2>3 DEF Versioned
  <2> QED BY <2>3, <2>4
<1>5. CASE MarksStopped
  <2>1. src.state = "reloading" /\ server = "up" /\ Transition(src.iter, "stopped")
    BY <1>5 DEF MarksStopped
  <2>2. src.version = 2 * src.iter
    BY <2>1 DEF Versioned
  <2>3. /\ MeasuredOK' /\ Counted' /\ MeasuredStep /\ src'.state = "stopped"
        /\ src'.iter = src.iter /\ src'.version = src.version + 1
    BY <1>2, <2>1, <2>2 DEF States
  <2>4. Versioned'
    BY <2>2, <2>3 DEF Versioned
  <2> QED BY <2>3, <2>4
<1> QED BY <1>1, <1>3, <1>4, <1>5 DEF Measurement

\* The keys and tags there are.
LEMMA TagTypes ==
  ASSUME BackendOK, FrontendOK
  PROVE  /\ cache.key.version \in Nat /\ cache.key.gen \in Nat /\ cache.body.data \in Nat
         /\ loaded.version \in Nat /\ loaded.state \in States
         /\ key.version \in Nat /\ key.gen \in Nat /\ body.data \in Nat
         /\ \A r \in relay : r.key \in Keys /\ r.key.version \in Nat /\ r.state \in States
         /\ fetched.tag.version \in Nat
         /\ \A s \in Streams : /\ got[s] \in Fetches /\ got[s].tag.version \in Nat
                               /\ last[s].version \in Nat
<1> USE DEF Keys, Bodies, Sources, Fetches, MaxVersion
<1>1. /\ cache.key \in Keys /\ cache.body \in Bodies /\ loaded \in Sources
      /\ key \in Keys /\ body \in Bodies
      /\ \A r \in relay : r.key \in Keys /\ r.state \in States
  BY DEF BackendOK
<1>2. /\ fetched \in Fetches
      /\ \A s \in Streams : got[s] \in Fetches /\ last[s] \in Keys
  BY DEF FrontendOK
<1> QED BY <1>1, <1>2

LEMMA MeasurementPreserves ==
  ASSUME IInv, Measurement
  PROVE  IInv'
<1> USE DEF IInv, TypeOK
<1>1. MeasuredOK' /\ Counted' /\ Versioned' /\ MeasuredStep
  BY MeasurementStep
<1>2. BackendOK' /\ FrontendOK'
  BY <1>1 DEF MeasuredStep, BackendOK, FrontendOK, backend, frontend
<1>3. /\ src'.version \in Nat /\ gen' \in Nat /\ data' \in Nat /\ gen' >= gen /\ data' >= data
      /\ src'.version >= src.version
      /\ src'.version = src.version => src' = src
  <2>1. gen \in Nat /\ data \in Nat /\ src.version \in Nat
    BY SourceType
  <2>2. src'.version \in Nat /\ gen' \in Nat /\ data' \in Nat
    BY <1>1 DEF MeasuredOK, Sources, MaxVersion
  <2>3. CASE src' = src /\ gen' >= gen /\ data' >= data
    BY <2>1, <2>2, <2>3
  <2>4. CASE src'.version = src.version + 1 /\ UNCHANGED <<data, gen>>
    BY <2>1, <2>2, <2>4
  <2> QED BY <1>1, <2>3, <2>4 DEF MeasuredStep
<1>4. ASSUME NEW tag, tag.version \in Nat, NEW st, Tells(tag, st)
      PROVE  tag.version <= src'.version /\ (tag.version = src'.version => st = src'.state)
  BY <1>3, <1>4, SourceType DEF Tells
<1>5. ASSUME NEW tag, tag.version \in Nat, NEW b, Holds(tag, b)
      PROVE  /\ tag.gen <= b.data
             /\ tag.version <= src'.version /\ (tag.version = src'.version => b.state = src'.state)
  BY <1>4, <1>5 DEF Holds
<1>6. UNCHANGED <<cache, at, loaded, key, body, relay, fetched, holder, stream, last, got, shown,
                  fresh, server>>
  BY <1>1 DEF MeasuredStep, backend, frontend
<1>7. Served'
  <2>1. key.gen <= gen => key.gen <= gen'
    BY <1>3, SourceType, TagTypes
  <2>2. \A r \in relay : r.key.gen <= gen'
    BY <1>3, SourceType, TagTypes DEF Served, Keys
  <2>3. \A r \in relay : Tells(r.key, r.state)'
    BY <1>4, <1>6, TagTypes DEF Served, Tells
  <2>4. Holds(cache.key, cache.body)' /\ (at = "answered" => Holds(key, body)')
    BY <1>5, <1>6, TagTypes DEF Served, Holds, Tells
  <2>5. Tells(loaded, loaded.state)'
    BY <1>4, <1>6, TagTypes DEF Served, Tells
  <2> QED BY <1>6, <2>1, <2>2, <2>3, <2>4, <2>5 DEF Served
<1>8. Delivered'
  BY <1>5, <1>6, TagTypes DEF Delivered, Holds, Tells
<1>9. Final'
  <2>1. CASE src' = src
    BY <1>6, <2>1 DEF Final
  <2>2. CASE server = "up"
    BY <1>6, <2>2 DEF Final
  <2> QED BY <1>1, <2>1, <2>2 DEF MeasuredStep
<1> QED BY <1>1, <1>2, <1>7, <1>8, <1>9

LEMMA MeasuredKept ==
  ASSUME IInv, UNCHANGED measured
  PROVE  MeasuredOK' /\ Counted' /\ Versioned'
BY DEF IInv, TypeOK, measured, MeasuredOK, Counted, Versioned

(***************************************************************************)
(* The backend.                                                            *)
(***************************************************************************)
LEMMA CacheFacts ==
  ASSUME IInv, NEW k \in Keys, NEW st \in States, k.gen <= gen, Tells(k, st)
  PROVE  LET c == CacheGet(k, st)
         IN  c \in [key : Keys, body : Bodies] /\ c.key = k /\ Holds(k, c.body)
<1> USE DEF IInv, TypeOK
<1>1. CASE cache.key = k
  BY <1>1 DEF CacheGet, BackendOK, Served
<1>2. CASE cache.key # k
  <2> DEFINE b == [data |-> data, list |-> list, state |-> st, whole |-> TRUE]
  <2>1. b \in Bodies
    BY DEF Bodies, MeasuredOK
  <2>2. k.gen \in Nat
    BY DEF Keys
  <2>3. Holds(k, b)
    BY <2>2, SourceType DEF Holds, Counted, Tells
  <2>4. CacheGet(k, st) = [key |-> k, body |-> b]
    BY <1>2 DEF CacheGet
  <2> QED BY <2>1, <2>3, <2>4
<1> QED BY <1>1, <1>2

Answering == ReadsGeneration \/ AnswersFromCache \/ RelayArrives \/ RelayAnswered

LEMMA AnsweringPreserves ==
  ASSUME IInv, Answering
  PROVE  IInv'
<1> USE DEF IInv, TypeOK
<1>1. UNCHANGED measured /\ UNCHANGED frontend /\ UNCHANGED loaded
  BY DEF Answering, ReadsGeneration, AnswersFromCache, RelayArrives, RelayAnswered
<1>2. MeasuredOK' /\ Counted' /\ Versioned'
  BY <1>1, MeasuredKept
<1>3. FrontendOK' /\ Delivered' /\ Final'
  BY <1>1 DEF FrontendOK, Delivered, Final, Holds, Tells, measured, frontend
<1>4. src' = src /\ gen' = gen
  BY <1>1 DEF measured
<1>5. BackendOK' /\ Served'
  <2>1. CASE ReadsGeneration
    <3>1. /\ at' = "keyed" /\ key' = [gen |-> gen, version |-> loaded.version]
          /\ UNCHANGED <<cache, loaded, body, relay>>
      BY <2>1 DEF ReadsGeneration
    <3>2. key' \in Keys /\ key'.gen = gen /\ key'.version = loaded.version
      BY <3>1 DEF Keys, MeasuredOK, BackendOK, Sources
    <3>3. BackendOK'
      BY <3>1, <3>2 DEF BackendOK, Points
    <3>4. Served'
      BY <1>4, <3>1, <3>2, SourceType DEF Served, Holds, Tells
    <3> QED BY <3>3, <3>4
  <2>2. CASE AnswersFromCache
    <3>1. /\ at = "keyed" /\ at' = "answered" /\ cache' = CacheGet(key, loaded.state)
          /\ body' = cache'.body /\ UNCHANGED <<loaded, key, relay>>
      BY <2>2 DEF AnswersFromCache
    <3>2. key \in Keys /\ loaded.state \in States /\ key.gen <= gen /\ Tells(key, loaded.state)
      BY <3>1, TagTypes DEF BackendOK, Served, Tells
    <3>3. cache' \in [key : Keys, body : Bodies] /\ cache'.key = key /\ Holds(key, cache'.body)
      BY <3>1, <3>2, CacheFacts
    <3>4. BackendOK'
      BY <3>1, <3>3 DEF BackendOK, Points
    <3>5. Served'
      BY <1>4, <3>1, <3>3 DEF Served, Holds, Tells
    <3> QED BY <3>4, <3>5
  <2>3. CASE RelayArrives
    <3> DEFINE k == [gen |-> gen, version |-> src.version]
               r == [key |-> k, state |-> src.state]
    <3>1. relay' = {r} /\ UNCHANGED <<cache, at, loaded, key, body>>
      BY <2>3 DEF RelayArrives
    <3>2. k \in Keys /\ k.gen = gen /\ k.version = src.version
      BY DEF Keys, MeasuredOK, Sources
    <3> HIDE DEF k
    <3>3. r \in [key : Keys, state : States] /\ r.key = k /\ r.state = src.state
      BY <3>2, SourceType
    <3> HIDE DEF r
    <3>4. Cardinality(relay') <= 1
      <4>1. Cardinality({r}) = 1
        BY FS_Singleton
      <4>2. relay' = {r}
        BY <3>1
      <4> QED BY <4>1, <4>2
    <3>5. BackendOK'
      BY <3>1, <3>3, <3>4 DEF BackendOK
    <3>6. Tells(k, src.state) /\ k.gen <= gen
      BY <3>2, SourceType DEF Tells
    <3>7. Served'
      BY <1>4, <3>1, <3>3, <3>6 DEF Served, Holds, Tells
    <3> QED BY <3>5, <3>7
  <2>4. CASE RelayAnswered
    <3>1. PICK r \in relay : cache' = CacheGet(r.key, r.state)
      BY <2>4 DEF RelayAnswered
    <3>2. relay' = {} /\ UNCHANGED <<at, loaded, key, body>>
      BY <2>4 DEF RelayAnswered
    <3>3. cache' \in [key : Keys, body : Bodies] /\ cache'.key = r.key
          /\ Holds(r.key, cache'.body)
      BY <3>1, CacheFacts, TagTypes DEF Served
    <3>4. Cardinality(relay') <= 1
      BY <3>2, FS_EmptySet
    <3>5. BackendOK'
      BY <3>2, <3>3, <3>4 DEF BackendOK
    <3>6. Served'
      BY <1>4, <3>2, <3>3 DEF Served, Holds, Tells
    <3> QED BY <3>5, <3>6
  <2> QED BY <2>1, <2>2, <2>3, <2>4 DEF Answering
<1> QED BY <1>2, <1>3, <1>5

(***************************************************************************)
(* The fetcher.                                                            *)
(***************************************************************************)

\* A result is returned to the stream that asked.
LEMMA ReceivedPreserves ==
  ASSUME IInv, NEW s \in Streams, NEW result \in Fetches, Received(s, result),
         faults' \in 0..MaxFaults, Holds(result.tag, result.body),
         fresh[s] /\ ~result.err => result.tag.version = src.version
  PROVE  IInv'
<1> USE DEF IInv, TypeOK
<1>1. /\ stream[s] = "fetching" /\ stream' = [stream EXCEPT ![s] = "writing"]
      /\ fetched' = result /\ got' = [got EXCEPT ![s] = result] /\ holder' = {}
      /\ UNCHANGED <<young, last, shown, fresh, server>>
  BY DEF Received, Goes
<1>2. /\ at' = "idle" /\ loaded' = NoSource /\ key' = NoKey /\ body' = NoBody
      /\ UNCHANGED <<cache, relay>>
  BY DEF Received, Responds
<1>3. UNCHANGED measured
  BY DEF Received
<1>4. src' = src /\ gen' = gen
  BY <1>3 DEF measured
<1>5. MeasuredOK' /\ Counted' /\ Versioned'
  BY <1>3, MeasuredKept
<1>6. BackendOK'
  BY <1>2, NoKeyType DEF BackendOK, Points
<1>7. FrontendOK'
  BY <1>1, FS_EmptySet DEF FrontendOK, StreamStates
<1>8. Served'
  <2>1. Tells(NoSource, NoSource.state)
    BY SourceType DEF Tells, NoSource, Versioned
  <2> QED BY <1>2, <1>4, <2>1 DEF Served, Holds, Tells
<1>9. \A r \in Streams : /\ stream'[r] = IF r = s THEN "writing" ELSE stream[r]
                         /\ got'[r] = IF r = s THEN result ELSE got[r]
  BY <1>1 DEF FrontendOK
<1>10. Delivered'
  BY <1>1, <1>4, <1>9 DEF Delivered, Holds, Tells
<1>11. Final'
  <2>1. holder = {s}
    BY <1>1 DEF Final
  <2>2. \A r \in Streams : stream[r] = "fetching" => r = s
    BY <2>1 DEF Final
  <2> QED BY <1>1, <1>4, <1>9, <2>2 DEF Final
<1> QED BY <1>5, <1>6, <1>7, <1>8, <1>10, <1>11

LEMMA FetchPreserves ==
  ASSUME IInv, NEW s \in Streams, Fetch(s) \/ ReadFails(s) \/ RequestFails(s)
  PROVE  IInv'
<1> USE DEF IInv, TypeOK
<1>1. stream[s] = "fetching"
  BY DEF Fetch, NotModified, Modified, Unavailable, ReadFails, RequestFails, Received
<1>2. fetched \in Fetches /\ key \in Keys /\ body \in Bodies /\ faults \in 0..MaxFaults
  BY DEF FrontendOK, BackendOK
<1>3. fresh[s] /\ at = "answered" => key.version = src.version
  BY <1>1 DEF Final, Served
<1>4. CASE NotModified(s)
  <2> DEFINE result == [fetched EXCEPT !.err = FALSE]
  <2>1. at = "answered" /\ key = fetched.tag /\ Received(s, result) /\ faults' = faults
    BY <1>4 DEF NotModified
  <2>2. result \in Fetches /\ result.tag = fetched.tag /\ result.body = fetched.body
    BY <1>2 DEF Fetches
  <2>3. Holds(result.tag, result.body)
    BY <2>2 DEF Delivered
  <2> HIDE DEF result
  <2> QED BY <1>2, <1>3, <2>1, <2>2, <2>3, ReceivedPreserves
<1>5. CASE Modified(s)
  <2> DEFINE result == [tag |-> key, body |-> body, err |-> FALSE]
  <2>1. at = "answered" /\ Received(s, result) /\ faults' = faults
    BY <1>5 DEF Modified
  <2>2. result \in Fetches /\ result.tag = key /\ result.body = body
    BY <1>2 DEF Fetches
  <2>3. Holds(result.tag, result.body)
    BY <2>1, <2>2 DEF Served
  <2> HIDE DEF result
  <2> QED BY <1>2, <1>3, <2>1, <2>2, <2>3, ReceivedPreserves
<1>6. CASE ReadFails(s)
  <2> DEFINE cut == [body EXCEPT !.whole = FALSE]
             result == [tag |-> key, err |-> TRUE, body |-> cut]
  <2>1. at = "answered" /\ Received(s, result) /\ faults < MaxFaults /\ faults' = faults + 1
    BY <1>6 DEF ReadFails
  <2>2. cut \in Bodies /\ cut.data = body.data /\ cut.state = body.state
    BY <1>2 DEF Bodies
  <2>3. result \in Fetches /\ result.tag = key /\ result.body = cut /\ result.err
    BY <1>2, <2>2 DEF Fetches
  <2>4. Holds(result.tag, result.body)
    BY <2>1, <2>2, <2>3 DEF Served, Holds
  <2>5. faults' \in 0..MaxFaults
    BY <1>2, <2>1
  <2> HIDE DEF result
  <2> QED BY <2>1, <2>3, <2>4, <2>5, ReceivedPreserves
<1>7. CASE Unavailable(s) \/ RequestFails(s)
  <2>1. Received(s, NoFetch)
    BY <1>7 DEF Unavailable, RequestFails
  <2>2. faults' \in 0..MaxFaults
    <3>1. CASE Unavailable(s)
      BY <1>2, <3>1 DEF Unavailable
    <3>2. CASE RequestFails(s)
      BY <1>2, <3>2 DEF RequestFails
    <3> QED BY <1>7, <3>1, <3>2
  <2>3. NoFetch \in Fetches /\ NoFetch.err /\ Holds(NoFetch.tag, NoFetch.body)
    BY NoKeyType, SourceType DEF NoFetch, Holds, Tells, NoKey, NoBody, Versioned
  <2> QED BY <2>1, <2>2, <2>3, ReceivedPreserves
<1> QED BY <1>4, <1>5, <1>6, <1>7 DEF Fetch

(***************************************************************************)
(* The streams.                                                            *)
(***************************************************************************)
LEMMA PollsPreserve ==
  ASSUME IInv, NEW s \in Streams, Polls(s) \/ SendsFinal(s)
  PROVE  IInv'
<1> USE DEF IInv, TypeOK
<1>1. PICK isFinal \in BOOLEAN :
        /\ stream[s] \in {"new", "waiting"} /\ Gets(s, isFinal)
        /\ isFinal => server = "cancelled"
  BY DEF Polls, SendsFinal
<1>2. holder = {} /\ fresh' = [fresh EXCEPT ![s] = isFinal]
      /\ UNCHANGED <<measured, fetched, faults, last, shown, server>>
  BY <1>1 DEF Gets, Reuses, Asks
<1>3. MeasuredOK' /\ Counted' /\ Versioned' /\ src' = src /\ gen' = gen
  BY <1>2, MeasuredKept DEF measured
<1>4. \A r \in Streams : stream[r] # "fetching"
  BY <1>2 DEF Final
<1>5. \A r \in Streams : fresh'[r] = IF r = s THEN isFinal ELSE fresh[r]
  BY <1>2 DEF FrontendOK
<1>6. CASE Reuses(s, isFinal)
  <2>1. /\ got' = [got EXCEPT ![s] = fetched] /\ stream' = [stream EXCEPT ![s] = "writing"]
        /\ ~isFinal /\ UNCHANGED <<backend, young, holder>>
    BY <1>6 DEF Reuses, Goes
  <2>2. \A r \in Streams : /\ stream'[r] = IF r = s THEN "writing" ELSE stream[r]
                           /\ got'[r] = IF r = s THEN fetched ELSE got[r]
    BY <2>1 DEF FrontendOK
  <2>3. BackendOK' /\ Served'
    BY <1>3, <2>1 DEF BackendOK, Served, Holds, Tells, backend
  <2>4. FrontendOK'
    BY <1>2, <2>1 DEF FrontendOK, StreamStates
  <2>5. Delivered'
    BY <1>2, <1>3, <2>2 DEF Delivered, Holds, Tells
  <2>6. Final'
    BY <1>2, <1>3, <1>4, <1>5, <2>1, <2>2 DEF Final
  <2> QED BY <1>3, <2>3, <2>4, <2>5, <2>6
<1>7. CASE Asks(s, isFinal)
  <2>1. /\ holder' = {s} /\ young' = TRUE /\ got' = got
        /\ stream' = [stream EXCEPT ![s] = "fetching"]
        /\ at' = "loaded" /\ loaded' = src /\ UNCHANGED <<key, body, cache, relay>>
    BY <1>7 DEF Asks, Goes, Arrives
  <2>2. \A r \in Streams : stream'[r] = IF r = s THEN "fetching" ELSE stream[r]
    BY <2>1 DEF FrontendOK
  <2>3. BackendOK'
    BY <2>1 DEF BackendOK, MeasuredOK, Points
  <2>4. Served'
    BY <1>3, <2>1, SourceType DEF Served, Holds, Tells
  <2>5. FrontendOK'
    <3>1. holder' \subseteq Streams /\ Cardinality(holder') <= 1
      <4>1. Cardinality({s}) = 1
        BY FS_Singleton
      <4> QED BY <2>1, <4>1
    <3>2. stream' \in [Streams -> StreamStates] /\ fresh' \in [Streams -> BOOLEAN]
      BY <1>2, <2>1 DEF FrontendOK, StreamStates
    <3>3. young' \in BOOLEAN
      BY <2>1
    <3> QED BY <1>2, <2>1, <3>1, <3>2, <3>3 DEF FrontendOK
  <2>6. Delivered'
    BY <1>2, <1>3, <2>1 DEF Delivered, Holds, Tells
  <2>7. Final'
    <3>1. server' # "up" => src'.state # "running"
      BY <1>2, <1>3 DEF Final
    <3>2. isFinal => server' # "up"
      BY <1>1, <1>2
    <3>3. ASSUME NEW r \in Streams
          PROVE  /\ stream'[r] = "fetching" => r = s
                 /\ fresh'[r] /\ stream'[r] \in {"fetching", "writing"} => server' # "up"
                 /\ fresh'[r] /\ stream'[r] = "writing" /\ ~got'[r].err =>
                      got'[r].tag.version = src'.version
                 /\ stream'[r] = "complete" => server' # "up" /\ shown'[r].state = src'.state
      <4>1. CASE r = s
        BY <1>5, <2>2, <3>2, <4>1
      <4>2. CASE r # s
        BY <1>2, <1>3, <1>4, <1>5, <2>1, <2>2, <4>2 DEF Final
      <4> QED BY <4>1, <4>2
    <3>4. loaded'.version = src'.version /\ holder' = {s}
      BY <1>3, <2>1
    <3> QED BY <3>1, <3>3, <3>4 DEF Final
  <2> QED BY <1>3, <2>3, <2>4, <2>5, <2>6, <2>7
<1> QED BY <1>1, <1>6, <1>7 DEF Gets

LEMMA WritesPreserve ==
  ASSUME IInv, NEW s \in Streams,
         Skips(s) \/ Pushes(s) \/ WriteBlocks(s) \/ Disconnects(s)
  PROVE  IInv'
<1> USE DEF IInv, TypeOK
<1>1. PICK where \in StreamStates :
        /\ stream' = [stream EXCEPT ![s] = where]
        /\ got' = [got EXCEPT ![s] = NoFetch]
        /\ UNCHANGED <<measured, backend, fetched, young, holder, faults, fresh, server>>
        /\ \/ where \in {"stuck", "ended"}
           \/ stream[s] = "writing" /\ where = AfterSend(s)
        /\ stream[s] # "fetching"
  <2>1. CASE Skips(s) \/ Pushes(s)
    <3>1. stream[s] = "writing" /\ Ends(s, AfterSend(s)) /\ AfterSend(s) \in StreamStates
      BY <2>1 DEF Skips, Pushes, AfterSend, StreamStates
    <3> QED BY <3>1 DEF Ends, Goes
  <2>2. CASE WriteBlocks(s)
    <3>1. stream[s] = "writing" /\ Ends(s, "stuck") /\ "stuck" \in StreamStates
      BY <2>2 DEF WriteBlocks, StreamStates
    <3>2. /\ stream' = [stream EXCEPT ![s] = "stuck"]
          /\ got' = [got EXCEPT ![s] = NoFetch]
          /\ UNCHANGED <<measured, backend, fetched, young, holder, faults, fresh, server>>
      BY <3>1 DEF Ends, Goes
    <3> QED BY <3>1, <3>2
  <2>3. CASE Disconnects(s)
    <3>1. stream[s] # "fetching" /\ Ends(s, "ended") /\ "ended" \in StreamStates
      BY <2>3 DEF Disconnects, StreamStates
    <3>2. /\ stream' = [stream EXCEPT ![s] = "ended"]
          /\ got' = [got EXCEPT ![s] = NoFetch]
          /\ UNCHANGED <<measured, backend, fetched, young, holder, faults, fresh, server>>
      BY <3>1 DEF Ends, Goes
    <3> QED BY <3>1, <3>2
  <2> QED BY <2>1, <2>2, <2>3
<1>2. MeasuredOK' /\ Counted' /\ Versioned' /\ src' = src /\ gen' = gen
  BY <1>1, MeasuredKept DEF measured
<1>3. BackendOK' /\ Served' /\ loaded' = loaded
  BY <1>1, <1>2 DEF BackendOK, Served, Holds, Tells, backend
<1>4. got[s] \in Fetches /\ Holds(got[s].tag, got[s].body)
  BY DEF FrontendOK, Delivered
<1>5. NoFetch \in Fetches /\ Holds(NoKey, NoBody)
  BY NoKeyType, SourceType DEF Holds, Tells, NoKey, NoBody, Versioned
<1>6. PICK tag \in Keys, content \in Bodies :
        /\ last' = [last EXCEPT ![s] = tag] /\ shown' = [shown EXCEPT ![s] = content]
        /\ Holds(tag, content)
        /\ where # "ended" /\ where # "stuck" => tag = got[s].tag \/ got[s].err
  <2>1. CASE Skips(s)
    <3>1. /\ last' = [last EXCEPT ![s] = last[s]] /\ shown' = [shown EXCEPT ![s] = shown[s]]
          /\ last[s] \in Keys /\ shown[s] \in Bodies /\ Holds(last[s], shown[s])
      BY <2>1 DEF Skips, FrontendOK, Delivered
    <3>2. last[s] = got[s].tag \/ got[s].err
      BY <2>1 DEF Skips, Unchanged
    <3> QED BY <3>1, <3>2
  <2>2. CASE Pushes(s)
    <3>1. /\ last' = [last EXCEPT ![s] = got[s].tag]
          /\ shown' = [shown EXCEPT ![s] = got[s].body]
      BY <2>2 DEF Pushes
    <3>2. got[s].tag \in Keys /\ got[s].body \in Bodies
      BY <1>4 DEF Fetches
    <3> QED BY <1>4, <3>1, <3>2
  <2>3. CASE WriteBlocks(s)
    <3>1. /\ last' = [last EXCEPT ![s] = last[s]] /\ shown' = [shown EXCEPT ![s] = shown[s]]
          /\ last[s] \in Keys /\ shown[s] \in Bodies /\ Holds(last[s], shown[s])
      BY <2>3 DEF WriteBlocks, FrontendOK, Delivered
    <3>2. where = "stuck"
      <4>1. stream' = [stream EXCEPT ![s] = "stuck"]
        BY <2>3 DEF WriteBlocks, Ends, Goes
      <4> QED BY <1>1, <4>1 DEF FrontendOK
    <3> QED BY <3>1, <3>2
  <2>4. CASE Disconnects(s)
    <3>1. last' = [last EXCEPT ![s] = NoKey] /\ shown' = [shown EXCEPT ![s] = NoBody]
      BY <2>4 DEF Disconnects
    <3>2. where = "ended"
      <4>1. stream' = [stream EXCEPT ![s] = "ended"]
        BY <2>4 DEF Disconnects, Ends, Goes
      <4> QED BY <1>1, <4>1 DEF FrontendOK
    <3> QED BY <1>5, <3>1, <3>2, NoKeyType
  <2> QED BY <2>1, <2>2, <2>3, <2>4
<1>7. \A r \in Streams :
        /\ stream'[r] = IF r = s THEN where ELSE stream[r]
        /\ got'[r] = IF r = s THEN NoFetch ELSE got[r]
        /\ last'[r] = IF r = s THEN tag ELSE last[r]
        /\ shown'[r] = IF r = s THEN content ELSE shown[r]
  BY <1>1, <1>6 DEF FrontendOK
<1>8. FrontendOK'
  <2>1. /\ stream' \in [Streams -> StreamStates] /\ got' \in [Streams -> Fetches]
        /\ last' \in [Streams -> Keys] /\ shown' \in [Streams -> Bodies]
    BY <1>1, <1>5, <1>6 DEF FrontendOK
  <2> QED BY <1>1, <2>1 DEF FrontendOK
<1>9. Delivered'
  BY <1>1, <1>2, <1>5, <1>6, <1>7 DEF Delivered, Holds, Tells, NoFetch
<1>10. Final'
  <2>1. where = "complete" => server # "up" /\ content.state = src.state
    <3>1. SUFFICES ASSUME where = "complete"
                   PROVE  server # "up" /\ content.state = src.state
      OBVIOUS
    <3>2. stream[s] = "writing" /\ fresh[s] /\ ~got[s].err
      BY <1>1, <3>1 DEF AfterSend
    <3>3. tag.version = src.version
      BY <1>6, <3>1, <3>2 DEF Final
    <3> QED BY <1>6, <3>2, <3>3 DEF Final, Holds, Tells
  <2>2. where \in {"waiting", "ended", "stuck", "complete"}
    BY <1>1 DEF AfterSend
  <2>3. server' # "up" => src'.state # "running"
    BY <1>1, <1>2 DEF Final
  <2>4. ASSUME NEW r \in Streams
        PROVE  /\ stream'[r] = "fetching" => holder' = {r}
               /\ fresh'[r] /\ stream'[r] \in {"fetching", "writing"} => server' # "up"
               /\ fresh'[r] /\ stream'[r] = "fetching" => loaded'.version = src'.version
               /\ fresh'[r] /\ stream'[r] = "writing" /\ ~got'[r].err =>
                    got'[r].tag.version = src'.version
               /\ stream'[r] = "complete" => server' # "up" /\ shown'[r].state = src'.state
    <3>1. CASE r = s
      BY <1>1, <1>2, <1>7, <2>1, <2>2, <3>1
    <3>2. CASE r # s
      BY <1>1, <1>2, <1>3, <1>7, <3>2 DEF Final
    <3> QED BY <3>1, <3>2
  <2> QED BY <2>3, <2>4 DEF Final
<1> QED BY <1>2, <1>3, <1>8, <1>9, <1>10

(***************************************************************************)
(* The shutdown.                                                           *)
(***************************************************************************)
LEMMA ClosingPreserves ==
  ASSUME IInv, Ages \/ Cancels \/ ShutsDown \/ ClosesByForce \/ UNCHANGED vars
  PROVE  IInv'
<1> USE DEF IInv, TypeOK
<1>1. UNCHANGED measured /\ UNCHANGED <<fetched, faults, last, got, shown, fresh>>
  BY DEF Ages, Cancels, ShutsDown, ClosesByForce, vars, frontend
<1>2. MeasuredOK' /\ Counted' /\ Versioned' /\ src' = src /\ gen' = gen
  BY <1>1, MeasuredKept DEF measured
<1>3. Delivered'
  BY <1>1, <1>2 DEF Delivered, Holds, Tells
<1>4. CASE Ages \/ Cancels \/ ShutsDown \/ UNCHANGED vars
  <2>1. UNCHANGED backend /\ UNCHANGED <<holder, stream>>
    BY <1>4 DEF Ages, Cancels, ShutsDown, vars, frontend
  <2>2. BackendOK' /\ Served'
    BY <1>2, <2>1 DEF BackendOK, Served, Holds, Tells, backend
  <2>3. young' \in BOOLEAN
    <3>1. CASE Ages
      BY <3>1 DEF Ages
    <3>2. CASE young' = young
      BY <3>2 DEF FrontendOK
    <3> QED BY <1>4, <3>1, <3>2 DEF Cancels, ShutsDown, vars, frontend
  <2>4. server' \in {"up", "cancelled", "closed"} /\ (server' = "up" => server = "up")
        /\ (server' # "up" => src.state # "running")
    BY <1>4 DEF Ages, Cancels, ShutsDown, vars, frontend, FrontendOK, Final
  <2>5. FrontendOK'
    BY <1>1, <2>1, <2>3, <2>4 DEF FrontendOK
  <2>6. Final'
    BY <1>1, <1>2, <2>1, <2>4 DEF Final, backend
  <2> QED BY <1>2, <1>3, <2>2, <2>5, <2>6
<1>5. CASE ClosesByForce
  <2>1. /\ server = "cancelled" /\ server' = "closed" /\ holder' = {} /\ young' = young
        /\ stream' = [s \in Streams |-> IF Closed(s) THEN stream[s] ELSE "ended"]
    BY <1>5 DEF ClosesByForce
  <2>2. /\ at' = "idle" /\ loaded' = NoSource /\ key' = NoKey /\ body' = NoBody
        /\ UNCHANGED <<cache, relay>>
    BY <1>5 DEF ClosesByForce, Responds
  <2>3. \A s \in Streams : /\ stream'[s] \in {"complete", "ended"}
                           /\ stream'[s] = "complete" => stream[s] = "complete"
    BY <2>1 DEF Closed
  <2>4. BackendOK'
    BY <2>2, NoKeyType DEF BackendOK, Points
  <2>5. Served'
    <3>1. Tells(NoSource, NoSource.state)
      BY SourceType DEF Tells, NoSource, Versioned
    <3> QED BY <1>2, <2>2, <3>1 DEF Served, Holds, Tells
  <2>6. FrontendOK'
    <3>1. stream' \in [Streams -> StreamStates]
      BY <2>1 DEF FrontendOK, StreamStates
    <3> QED BY <1>1, <2>1, <3>1, FS_EmptySet DEF FrontendOK
  <2>7. Final'
    BY <1>1, <1>2, <2>1, <2>3 DEF Final
  <2> QED BY <1>2, <1>3, <2>4, <2>5, <2>6, <2>7
<1> QED BY <1>4, <1>5

LEMMA Inductive ==
  ASSUME IInv, [Next]_vars
  PROVE  IInv'
<1>1. CASE Measurement
  BY <1>1, MeasurementPreserves
<1>2. CASE Answering
  BY <1>2, AnsweringPreserves
<1>3. ASSUME NEW s \in Streams,
             \/ Fetch(s) \/ ReadFails(s) \/ RequestFails(s)
             \/ StreamStep(s) \/ WriteBlocks(s) \/ Disconnects(s)
      PROVE  IInv'
  <2>1. CASE Fetch(s) \/ ReadFails(s) \/ RequestFails(s)
    BY <2>1, FetchPreserves
  <2>2. CASE Polls(s) \/ SendsFinal(s)
    BY <2>2, PollsPreserve
  <2>3. CASE Skips(s) \/ Pushes(s) \/ WriteBlocks(s) \/ Disconnects(s)
    BY <2>3, WritesPreserve
  <2> QED BY <1>3, <2>1, <2>2, <2>3 DEF StreamStep
<1>4. CASE Ages \/ Cancels \/ ShutsDown \/ ClosesByForce \/ UNCHANGED vars
  BY <1>4, ClosingPreserves
<1> QED BY <1>1, <1>2, <1>3, <1>4 DEF Next, Measurement, Answering, BackendStep, Over

(***************************************************************************)
(* The theorem.                                                            *)
(***************************************************************************)

\* Every body that travels with a tag (snapshotCache.get, the fetcher, the
\* streams) holds what the tag stands for, and a stream that ended with the
\* server shows the final state of the run (handleStream).
THEOREM TrueSnapshots == Spec => []SnapshotsAreTrue
<1>1. Init => IInv
  BY InitIInv
<1>2. IInv /\ [Next]_vars => IInv'
  BY Inductive
<1>3. IInv => SnapshotsAreTrue
  BY DEF IInv, Served, Delivered, Final, Holds, SnapshotsAreTrue, TagsNeverOverstate,
     FinalStateShown, TypeOK, BackendOK, FrontendOK, Keys, Bodies
<1> QED BY <1>1, <1>2, <1>3, PTL DEF Spec

(***************************************************************************)
(* Browsers only go forward.                                               *)
(***************************************************************************)

\* What was delivered is no later than what the backend has: the cached body,
\* and the source, the key and the body of the request it works on.
Reached(tag, content) ==
  /\ tag.gen <= gen /\ tag.version <= src.version
  /\ content.data <= cache.body.data /\ content.list <= cache.body.list
  /\ at # "idle" => tag.version <= loaded.version
  /\ at \in {"keyed", "answered"} => tag.gen <= key.gen
  /\ at = "answered" => content.data <= body.data /\ content.list <= body.list

\* The backend's answer is no later than its cache, and has a real tag.
Backed ==
  /\ cache.body.data <= data /\ cache.body.list <= list
  /\ at = "answered" => body.data <= cache.body.data /\ body.list <= cache.body.list
  /\ loaded.iter # 0 => loaded.version # 0
  /\ at \in {"keyed", "answered"} => key.version # 0

\* A browser shows nothing later than what its stream is about to send, nor
\* than what the fetcher keeps, unless that was reset by a failure.
Ordered ==
  /\ fetched.tag = NoKey => fetched.err
  /\ Reached(fetched.tag, fetched.body)
  /\ \A s \in Streams :
       /\ Reached(last[s], shown[s]) /\ Reached(got[s].tag, got[s].body)
       /\ fetched.tag # NoKey =>
            /\ NotAfter(last[s], shown[s], fetched.tag, fetched.body)
            /\ NotAfter(got[s].tag, got[s].body, fetched.tag, fetched.body)
       /\ ~got[s].err => NotAfter(last[s], shown[s], got[s].tag, got[s].body)

LEMMA Naturals ==
  /\ \A k \in Keys : k.gen \in Nat /\ k.version \in Nat
  /\ \A b \in Bodies : b.data \in Nat /\ b.list \in Nat
  /\ \A x \in Fetches : x.tag \in Keys /\ x.body \in Bodies
BY DEF Keys, Bodies, Fetches, MaxVersion

LEMMA ItemTypes ==
  ASSUME TypeOK
  PROVE  /\ gen \in Nat /\ data \in Nat /\ list \in Nat /\ src.version \in Nat
         /\ cache.body \in Bodies /\ body \in Bodies /\ key \in Keys /\ loaded.version \in Nat
         /\ fetched.tag \in Keys /\ fetched.body \in Bodies
         /\ \A s \in Streams : /\ last[s] \in Keys /\ shown[s] \in Bodies
                               /\ got[s].tag \in Keys /\ got[s].body \in Bodies
<1>1. gen \in Nat /\ data \in Nat /\ list \in Nat /\ src.version \in Nat
  BY DEF TypeOK, MeasuredOK, Sources, MaxVersion
<1>2. cache.body \in Bodies /\ body \in Bodies /\ key \in Keys /\ loaded.version \in Nat
  BY DEF TypeOK, BackendOK, Sources, MaxVersion
<1>3. /\ fetched.tag \in Keys /\ fetched.body \in Bodies
      /\ \A s \in Streams : /\ last[s] \in Keys /\ shown[s] \in Bodies
                            /\ got[s].tag \in Keys /\ got[s].body \in Bodies
  BY Naturals DEF TypeOK, FrontendOK
<1> QED BY <1>1, <1>2, <1>3

LEMMA NotAfterItself ==
  ASSUME NEW t \in Keys, NEW b \in Bodies
  PROVE  NotAfter(t, b, t, b) /\ NotAfter(NoKey, NoBody, t, b)
BY Naturals DEF NotAfter, NoKey, NoBody

\* How the measurement, the cache and the request move.
Flow ==
  /\ gen' >= gen /\ src'.version >= src.version
  /\ cache'.body.data >= cache.body.data /\ cache'.body.list >= cache.body.list
  /\ \/ at' = "idle"
     \/ at' = "loaded" /\ loaded' = src
     \/ UNCHANGED <<at, loaded, key, body>>
     \/ at = "loaded" /\ at' = "keyed" /\ loaded' = loaded /\ key'.gen = gen
     \/ at = "keyed" /\ at' = "answered" /\ UNCHANGED <<loaded, key>> /\ body' = cache'.body

\* The cache is replaced by what is measured now, which is no older.
LEMMA CacheMoves ==
  ASSUME IInv, Backed, NEW k, NEW st, cache' = CacheGet(k, st)
  PROVE  /\ cache'.body.data >= cache.body.data /\ cache'.body.list >= cache.body.list
         /\ cache'.body.data <= data /\ cache'.body.list <= list
<1>1. /\ data \in Nat /\ list \in Nat
      /\ cache.body.data \in Nat /\ cache.body.list \in Nat
  BY ItemTypes, Naturals DEF IInv
<1>2. CASE cache.key = k
  BY <1>1, <1>2 DEF CacheGet, Backed
<1>3. CASE cache.key # k
  <2>1. cache'.body.data = data /\ cache'.body.list = list
    BY <1>3 DEF CacheGet
  <2> QED BY <1>1, <2>1 DEF Backed
<1> QED BY <1>2, <1>3

LEMMA MeasurementFlows ==
  ASSUME IInv, Backed, Measurement
  PROVE  Flow /\ Backed'
<1>0. /\ gen \in Nat /\ data \in Nat /\ list \in Nat /\ src.version \in Nat
      /\ cache.body.data \in Nat /\ cache.body.list \in Nat
  BY ItemTypes, Naturals DEF IInv
<1>1. gen' >= gen /\ data' >= data /\ list' >= list /\ src'.version >= src.version
  BY <1>0 DEF Measurement, Writes, Bumps, Edits, Publishes, SetsProvider, MarksReloading,
     MarksStopped, Transition
<1>2. UNCHANGED backend
  BY MeasurementStep DEF MeasuredStep
<1>3. data' \in Nat /\ list' \in Nat
  BY <1>0 DEF Measurement, Writes, Bumps, Edits, Publishes, SetsProvider, MarksReloading,
     MarksStopped, Transition
<1>4. Flow
  BY <1>0, <1>1, <1>2 DEF Flow, backend
<1>5. Backed'
  BY <1>0, <1>1, <1>2, <1>3 DEF Backed, backend
<1> QED BY <1>4, <1>5

LEMMA AnsweringFlows ==
  ASSUME IInv, Backed, Answering
  PROVE  Flow /\ Backed'
<1>0. /\ gen \in Nat /\ data \in Nat /\ list \in Nat /\ src.version \in Nat
      /\ cache.body.data \in Nat /\ cache.body.list \in Nat
      /\ body.data \in Nat /\ body.list \in Nat
  BY ItemTypes, Naturals DEF IInv
<1>1. UNCHANGED <<gen, data, list, src>> /\ UNCHANGED loaded
  BY DEF Answering, ReadsGeneration, AnswersFromCache, RelayArrives, RelayAnswered, measured
<1>2. CASE ReadsGeneration
  <2>1. /\ at = "loaded" /\ at' = "keyed" /\ loaded.iter # 0
        /\ key' = [gen |-> gen, version |-> loaded.version] /\ UNCHANGED <<cache, body>>
    BY <1>2 DEF ReadsGeneration
  <2> QED BY <1>0, <1>1, <2>1 DEF Flow, Backed
<1>3. CASE AnswersFromCache
  <2>1. /\ at = "keyed" /\ at' = "answered" /\ key' = key
        /\ cache' = CacheGet(key, loaded.state) /\ body' = cache'.body
    BY <1>3 DEF AnswersFromCache
  <2>2. /\ cache'.body.data >= cache.body.data /\ cache'.body.list >= cache.body.list
        /\ cache'.body.data <= data /\ cache'.body.list <= list
    BY <2>1, CacheMoves
  <2>3. cache'.body.data \in Nat /\ cache'.body.list \in Nat
    BY <1>3, AnsweringPreserves, Naturals DEF Answering, IInv, TypeOK, BackendOK
  <2>4. Flow
    BY <1>0, <1>1, <2>1, <2>2 DEF Flow
  <2>5. Backed'
    BY <1>1, <2>1, <2>2, <2>3 DEF Backed
  <2> QED BY <2>4, <2>5
<1>4. CASE RelayArrives
  <2>1. UNCHANGED <<cache, at, key, body>>
    BY <1>4 DEF RelayArrives
  <2> QED BY <1>0, <1>1, <2>1 DEF Flow, Backed
<1>5. CASE RelayAnswered
  <2>1. UNCHANGED <<at, key, body>> /\ \E r \in relay : cache' = CacheGet(r.key, r.state)
    BY <1>5 DEF RelayAnswered
  <2>2. /\ cache'.body.data >= cache.body.data /\ cache'.body.list >= cache.body.list
        /\ cache'.body.data <= data /\ cache'.body.list <= list
    BY <2>1, CacheMoves
  <2>3. cache'.body.data \in Nat /\ cache'.body.list \in Nat
    BY <1>5, AnsweringPreserves, Naturals DEF Answering, IInv, TypeOK, BackendOK
  <2>4. Flow
    BY <1>0, <1>1, <2>1, <2>2 DEF Flow
  <2>5. Backed'
    BY <1>0, <1>1, <2>1, <2>2, <2>3 DEF Backed
  <2> QED BY <2>4, <2>5
<1> QED BY <1>2, <1>3, <1>4, <1>5 DEF Answering

\* A request begins, ends, or is not touched.
LEMMA RequestFlows ==
  ASSUME IInv, Backed, UNCHANGED measured,
         \/ UNCHANGED backend
         \/ Arrives
         \/ Responds
  PROVE  Flow /\ Backed'
<1>0. /\ gen \in Nat /\ src.version \in Nat
      /\ cache.body.data \in Nat /\ cache.body.list \in Nat
  BY ItemTypes, Naturals DEF IInv
<1>1. CASE UNCHANGED backend
  BY <1>0, <1>1 DEF Flow, Backed, measured, backend
<1>2. CASE Arrives
  <2>1. src.iter # 0 => src.version # 0
    BY DEF IInv, Versioned, TypeOK, MeasuredOK, Sources, States
  <2>2. at' = "loaded" /\ loaded' = src /\ UNCHANGED <<cache, gen, data, list, src>>
    BY <1>2 DEF Arrives, measured
  <2> QED BY <1>0, <2>1, <2>2 DEF Flow, Backed
<1>3. CASE Responds
  <2>1. at' = "idle" /\ loaded' = NoSource /\ UNCHANGED <<cache, gen, data, list, src>>
    BY <1>3 DEF Responds, measured
  <2> QED BY <1>0, <2>1 DEF Flow, Backed, NoSource
<1> QED BY <1>1, <1>2, <1>3

\* What was reached stays reached.
LEMMA ReachedStays ==
  ASSUME TypeOK, TypeOK', Backed, Flow, NEW t \in Keys, NEW b \in Bodies, Reached(t, b)
  PROVE  Reached(t, b)'
<1>1. /\ gen \in Nat /\ gen' \in Nat /\ src.version \in Nat /\ src'.version \in Nat
      /\ loaded.version \in Nat /\ key.gen \in Nat
      /\ cache.body.data \in Nat /\ cache.body.list \in Nat
      /\ cache'.body.data \in Nat /\ cache'.body.list \in Nat
      /\ body.data \in Nat /\ body.list \in Nat
  <2>1. gen' \in Nat /\ src'.version \in Nat /\ cache'.body \in Bodies
    BY DEF TypeOK, MeasuredOK, BackendOK, Sources, MaxVersion
  <2> QED BY <2>1, ItemTypes, Naturals
<1>2. t.gen \in Nat /\ t.version \in Nat /\ b.data \in Nat /\ b.list \in Nat
  BY Naturals
<1>3. /\ t.gen <= gen' /\ t.version <= src'.version
      /\ b.data <= cache'.body.data /\ b.list <= cache'.body.list
  BY <1>1, <1>2 DEF Reached, Flow
<1>4. /\ at' # "idle" => t.version <= loaded'.version
      /\ at' \in {"keyed", "answered"} => t.gen <= key'.gen
      /\ at' = "answered" => b.data <= body'.data /\ b.list <= body'.list
  <2>1. CASE at' = "idle"
    BY <2>1
  <2>2. CASE at' = "loaded" /\ loaded' = src
    BY <2>2 DEF Reached
  <2>3. CASE UNCHANGED <<at, loaded, key, body>>
    BY <2>3 DEF Reached
  <2>4. CASE at = "loaded" /\ at' = "keyed" /\ loaded' = loaded /\ key'.gen = gen
    BY <2>4 DEF Reached
  <2>5. CASE /\ at = "keyed" /\ at' = "answered" /\ UNCHANGED <<loaded, key>>
             /\ body' = cache'.body
    BY <1>3, <2>5 DEF Reached
  <2> QED BY <2>1, <2>2, <2>3, <2>4, <2>5 DEF Flow
<1> QED BY <1>3, <1>4 DEF Reached

LEMMA NothingIsReached == ASSUME TypeOK PROVE Reached(NoKey, NoBody)
BY ItemTypes, Naturals DEF Reached, NoKey, NoBody

\* Nothing is delivered.
LEMMA OrderStays ==
  ASSUME IInv, IInv', Backed, Flow, Ordered, UNCHANGED <<fetched, got, last, shown>>
  PROVE  Ordered'
<1>1. TypeOK /\ TypeOK'
  BY DEF IInv
<1>2. Reached(fetched.tag, fetched.body)'
  BY <1>1, ItemTypes, ReachedStays DEF Ordered
<1>3. \A s \in Streams : Reached(last[s], shown[s])' /\ Reached(got[s].tag, got[s].body)'
  BY <1>1, ItemTypes, ReachedStays DEF Ordered
<1> QED BY <1>2, <1>3 DEF Ordered

\* The request of a stream is answered.
LEMMA ReceivedOrders ==
  ASSUME IInv, IInv', Backed, Ordered, NEW s \in Streams,
         NEW tag \in Keys, NEW content \in Bodies, NEW err \in BOOLEAN,
         Received(s, [tag |-> tag, body |-> content, err |-> err]),
         Reached(tag, content), tag = NoKey => err,
         tag # NoKey => \A t \in Streams : /\ NotAfter(last[t], shown[t], tag, content)
                                           /\ NotAfter(got[t].tag, got[t].body, tag, content)
  PROVE  Flow /\ Backed' /\ Ordered'
<1>1. /\ fetched' = [tag |-> tag, body |-> content, err |-> err]
      /\ got' = [got EXCEPT ![s] = [tag |-> tag, body |-> content, err |-> err]]
      /\ UNCHANGED <<last, shown>>
      /\ UNCHANGED measured /\ Responds
  BY DEF Received
<1>2. Flow /\ Backed'
  BY <1>1, RequestFlows
<1>3. TypeOK /\ TypeOK'
  BY DEF IInv
<1>4. Reached(tag, content)'
  BY <1>2, <1>3, ReachedStays
<1>5. \A t \in Streams : got'[t] = IF t = s THEN [tag |-> tag, body |-> content, err |-> err]
                                   ELSE got[t]
  BY <1>1, <1>3 DEF TypeOK, FrontendOK
<1>6. fetched'.tag = tag /\ fetched'.body = content /\ fetched'.err = err
  BY <1>1
<1>7. ASSUME NEW t \in Streams
      PROVE  /\ Reached(last[t], shown[t])' /\ Reached(got[t].tag, got[t].body)'
             /\ tag # NoKey => /\ NotAfter(last'[t], shown'[t], tag, content)
                               /\ NotAfter(got'[t].tag, got'[t].body, tag, content)
             /\ ~got'[t].err => NotAfter(last'[t], shown'[t], got'[t].tag, got'[t].body)
  <2>1. last[t] \in Keys /\ shown[t] \in Bodies /\ Reached(last[t], shown[t])
    BY <1>3, ItemTypes DEF Ordered
  <2>2. Reached(last[t], shown[t])'
    BY <1>1, <1>2, <1>3, <2>1, ReachedStays
  <2>3. CASE t = s
    <3>1. got'[t].tag = tag /\ got'[t].body = content /\ got'[t].err = err
      BY <1>5, <2>3
    <3>2. NotAfter(tag, content, tag, content)
      BY NotAfterItself
    <3>3. Reached(got[t].tag, got[t].body)'
      BY <1>4, <3>1
    <3> QED BY <1>1, <2>2, <3>1, <3>2, <3>3
  <2>4. CASE t # s
    <3>1. got'[t] = got[t]
      BY <1>5, <2>4
    <3>2. got[t].tag \in Keys /\ got[t].body \in Bodies /\ Reached(got[t].tag, got[t].body)
      BY <1>3, ItemTypes DEF Ordered
    <3>3. Reached(got[t].tag, got[t].body)'
      BY <1>2, <1>3, <3>1, <3>2, ReachedStays
    <3>4. ~got[t].err => NotAfter(last[t], shown[t], got[t].tag, got[t].body)
      BY DEF Ordered
    <3> QED BY <1>1, <2>2, <3>1, <3>3, <3>4
  <2> QED BY <2>3, <2>4
<1>8. Reached(fetched.tag, fetched.body)'
  BY <1>4, <1>6
<1> QED BY <1>2, <1>6, <1>7, <1>8 DEF Ordered

\* Everything delivered is no later than the answer to the request.
LEMMA AnswerIsNewest ==
  ASSUME IInv, at = "answered", NEW t \in Keys, NEW b \in Bodies, Reached(t, b)
  PROVE  NotAfter(t, b, key, body)
BY DEF Reached, NotAfter, IInv, Served

LEMMA Recovered ==
  ASSUME NEW f \in Fetches, NEW g, g = [f EXCEPT !.err = FALSE]
  PROVE  g = [tag |-> f.tag, body |-> f.body, err |-> FALSE]
<1> HIDE DEF Keys, Bodies
<1> QED BY DEF Fetches

LEMMA FetchOrders ==
  ASSUME IInv, IInv', Backed, Ordered, NEW s \in Streams,
         Fetch(s) \/ ReadFails(s) \/ RequestFails(s)
  PROVE  Flow /\ Backed' /\ Ordered'
<1>0. TypeOK
  BY DEF IInv
<1>1. /\ fetched.tag \in Keys /\ fetched.body \in Bodies /\ fetched \in Fetches
      /\ key \in Keys /\ body \in Bodies
  BY <1>0, ItemTypes DEF TypeOK, FrontendOK
<1>2. at = "answered" => key # NoKey
  BY DEF Backed, NoKey
<1>3. CASE NotModified(s)
  <2>1. /\ at = "answered" /\ key = fetched.tag
        /\ Received(s, [fetched EXCEPT !.err = FALSE])
    BY <1>3 DEF NotModified
  <2>2. [fetched EXCEPT !.err = FALSE] =
          [tag |-> fetched.tag, body |-> fetched.body, err |-> FALSE]
    BY <1>1, Recovered
  <2>3. Received(s, [tag |-> fetched.tag, body |-> fetched.body, err |-> FALSE])
    BY <2>1, <2>2
  <2>4. PICK tag \in Keys, content \in Bodies : tag = fetched.tag /\ content = fetched.body
    BY <1>1
  <2>5. Received(s, [tag |-> tag, body |-> content, err |-> FALSE])
    BY <2>3, <2>4 DEF Received
  <2>6. /\ Reached(tag, content) /\ tag # NoKey
        /\ \A t \in Streams : /\ NotAfter(last[t], shown[t], tag, content)
                              /\ NotAfter(got[t].tag, got[t].body, tag, content)
    BY <1>2, <2>1, <2>4 DEF Ordered
  <2> QED BY <2>5, <2>6, ReceivedOrders
<1>4. CASE at = "answered" /\ (Modified(s) \/ ReadFails(s))
  <2>1. PICK content \in Bodies, err \in BOOLEAN :
          /\ Received(s, [tag |-> key, body |-> content, err |-> err])
          /\ content.data = body.data /\ content.list = body.list
    <3>1. CASE Modified(s)
      BY <1>1, <3>1 DEF Modified
    <3>2. CASE ReadFails(s)
      <4>1. /\ [body EXCEPT !.whole = FALSE] \in Bodies
            /\ [body EXCEPT !.whole = FALSE].data = body.data
            /\ [body EXCEPT !.whole = FALSE].list = body.list
        BY <1>1 DEF Bodies
      <4>2. Received(s, [tag |-> key, err |-> TRUE, body |-> [body EXCEPT !.whole = FALSE]])
        BY <3>2 DEF ReadFails
      <4> QED BY <4>1, <4>2
    <3> QED BY <1>4, <3>1, <3>2
  <2>2. PICK tag \in Keys : tag = key
    BY <1>1
  <2>3. Received(s, [tag |-> tag, body |-> content, err |-> err])
    BY <2>1, <2>2 DEF Received
  <2>4. Reached(tag, content) /\ tag # NoKey
    <3>1. /\ key.gen <= gen /\ key.version <= src.version /\ key.version <= loaded.version
          /\ key.gen <= key.gen
      BY <1>1, <1>4, Naturals DEF IInv, Served, Holds, Tells
    <3>2. content.data \in Nat /\ content.list \in Nat
      BY Naturals
    <3> QED BY <1>2, <1>4, <2>1, <2>2, <3>1, <3>2 DEF Reached, Backed
  <2>5. ASSUME NEW t \in Streams
        PROVE  /\ NotAfter(last[t], shown[t], tag, content)
               /\ NotAfter(got[t].tag, got[t].body, tag, content)
    <3>1. /\ last[t] \in Keys /\ shown[t] \in Bodies /\ Reached(last[t], shown[t])
          /\ got[t].tag \in Keys /\ got[t].body \in Bodies
          /\ Reached(got[t].tag, got[t].body)
      BY <1>0, ItemTypes DEF Ordered
    <3>2. /\ NotAfter(last[t], shown[t], key, body)
          /\ NotAfter(got[t].tag, got[t].body, key, body)
      BY <1>4, <3>1, AnswerIsNewest
    <3> QED BY <2>1, <2>2, <3>2 DEF NotAfter
  <2> QED BY <2>3, <2>4, <2>5, ReceivedOrders
<1>5. CASE Unavailable(s) \/ RequestFails(s)
  <2>1. Received(s, [tag |-> NoKey, body |-> NoBody, err |-> TRUE])
    BY <1>5 DEF Unavailable, RequestFails, NoFetch
  <2>2. NoKey \in Keys /\ NoBody \in Bodies /\ Reached(NoKey, NoBody)
    BY <1>0, NoKeyType, NothingIsReached
  <2>3. PICK tag \in Keys, content \in Bodies : tag = NoKey /\ content = NoBody
    BY <2>2
  <2>4. Received(s, [tag |-> tag, body |-> content, err |-> TRUE]) /\ Reached(tag, content)
    BY <2>1, <2>2, <2>3 DEF Received
  <2> QED BY <2>3, <2>4, ReceivedOrders
<1> QED BY <1>3, <1>4, <1>5 DEF Fetch, Modified, ReadFails

\* The fetcher returns its last result again, or asks.
LEMMA PollsOrder ==
  ASSUME IInv, IInv', Backed, Ordered, NEW s \in Streams, Polls(s) \/ SendsFinal(s)
  PROVE  Flow /\ Backed' /\ Ordered'
<1>0. TypeOK /\ TypeOK'
  BY DEF IInv
<1>1. PICK isFinal \in BOOLEAN : Reuses(s, isFinal) \/ Asks(s, isFinal)
  BY DEF Polls, SendsFinal, Gets
<1>2. CASE Asks(s, isFinal)
  <2>1. UNCHANGED measured /\ Arrives /\ UNCHANGED <<fetched, got, last, shown>>
    BY <1>2 DEF Asks
  <2>2. Flow /\ Backed'
    BY <2>1, RequestFlows
  <2> QED BY <2>1, <2>2, OrderStays
<1>3. CASE Reuses(s, isFinal)
  <2>1. /\ got' = [got EXCEPT ![s] = fetched] /\ UNCHANGED <<fetched, last, shown>>
        /\ UNCHANGED measured /\ UNCHANGED backend
    BY <1>3 DEF Reuses
  <2>2. Flow /\ Backed'
    BY <2>1, RequestFlows
  <2>3. Reached(fetched.tag, fetched.body)'
    BY <1>0, <2>1, <2>2, ItemTypes, ReachedStays DEF Ordered
  <2>4. \A t \in Streams : got'[t] = IF t = s THEN fetched ELSE got[t]
    BY <1>0, <2>1 DEF TypeOK, FrontendOK
  <2>5. ASSUME NEW t \in Streams
        PROVE  /\ Reached(last[t], shown[t])' /\ Reached(got[t].tag, got[t].body)'
               /\ fetched.tag # NoKey =>
                    /\ NotAfter(last[t], shown[t], fetched.tag, fetched.body)
                    /\ NotAfter(got'[t].tag, got'[t].body, fetched.tag, fetched.body)
               /\ ~got'[t].err => NotAfter(last[t], shown[t], got'[t].tag, got'[t].body)
    <3>1. Reached(last[t], shown[t])'
      BY <1>0, <2>1, <2>2, ItemTypes, ReachedStays DEF Ordered
    <3>2. CASE t = s
      <4>1. got'[t] = fetched
        BY <2>4, <3>2
      <4>2. NotAfter(fetched.tag, fetched.body, fetched.tag, fetched.body)
        BY <1>0, ItemTypes, NotAfterItself
      <4>3. Reached(got[t].tag, got[t].body)'
        BY <2>1, <2>3, <4>1
      <4> QED BY <3>1, <4>1, <4>2, <4>3 DEF Ordered
    <3>3. CASE t # s
      <4>1. got'[t] = got[t]
        BY <2>4, <3>3
      <4>2. Reached(got[t].tag, got[t].body)'
        BY <1>0, <2>2, <4>1, ItemTypes, ReachedStays DEF Ordered
      <4> QED BY <3>1, <4>1, <4>2 DEF Ordered
    <3> QED BY <3>2, <3>3
  <2>6. fetched'.tag = NoKey => fetched'.err
    BY <2>1 DEF Ordered
  <2> QED BY <2>1, <2>2, <2>3, <2>5, <2>6 DEF Ordered
<1> QED BY <1>1, <1>2, <1>3

\* What a stream shows after a step of its own.
LEMMA WritesShow ==
  ASSUME IInv, Ordered, NEW s \in Streams,
         Skips(s) \/ Pushes(s) \/ WriteBlocks(s) \/ Disconnects(s)
  PROVE  /\ got' = [got EXCEPT ![s] = NoFetch] /\ fetched' = fetched
         /\ UNCHANGED measured /\ UNCHANGED backend
         /\ \A t \in Streams \ {s} : last'[t] = last[t] /\ shown'[t] = shown[t]
         /\ \/ last'[s] = last[s] /\ shown'[s] = shown[s]
            \/ ~got[s].err /\ last'[s] = got[s].tag /\ shown'[s] = got[s].body
            \/ last'[s] = NoKey /\ shown'[s] = NoBody /\ stream'[s] = "ended"
<1> USE DEF IInv, TypeOK, FrontendOK
<1>1. CASE Skips(s) \/ WriteBlocks(s)
  BY <1>1 DEF Skips, WriteBlocks, Ends
<1>2. CASE Pushes(s)
  BY <1>2 DEF Pushes, Ends, Unchanged
<1>3. CASE Disconnects(s)
  BY <1>3 DEF Disconnects, Ends, Goes
<1> QED BY <1>1, <1>2, <1>3

LEMMA WritesOrder ==
  ASSUME IInv, IInv', Backed, Ordered, NEW s \in Streams,
         Skips(s) \/ Pushes(s) \/ WriteBlocks(s) \/ Disconnects(s)
  PROVE  Flow /\ Backed' /\ Ordered'
<1>0. TypeOK /\ TypeOK'
  BY DEF IInv
<1>1. Flow /\ Backed' /\ fetched' = fetched
  BY WritesShow, RequestFlows
<1>2. \A t \in Streams : got'[t] = IF t = s THEN NoFetch ELSE got[t]
  BY <1>0, WritesShow DEF TypeOK, FrontendOK
<1>3. Reached(fetched.tag, fetched.body)'
  BY <1>0, <1>1, ItemTypes, ReachedStays DEF Ordered
<1>4. NoKey \in Keys /\ NoBody \in Bodies /\ Reached(NoKey, NoBody)'
  BY <1>0, <1>1, NoKeyType, NothingIsReached, ReachedStays
<1>5. NotAfter(NoKey, NoBody, fetched.tag, fetched.body)
  BY <1>0, ItemTypes, NotAfterItself
<1>6. ASSUME NEW t \in Streams
      PROVE  /\ Reached(last[t], shown[t])' /\ Reached(got[t].tag, got[t].body)'
             /\ fetched.tag # NoKey =>
                  /\ NotAfter(last'[t], shown'[t], fetched.tag, fetched.body)
                  /\ NotAfter(got'[t].tag, got'[t].body, fetched.tag, fetched.body)
             /\ ~got'[t].err => NotAfter(last'[t], shown'[t], got'[t].tag, got'[t].body)
  <2>0. /\ last[t] \in Keys /\ shown[t] \in Bodies /\ Reached(last[t], shown[t])
        /\ got[t].tag \in Keys /\ got[t].body \in Bodies
        /\ Reached(got[t].tag, got[t].body)
        /\ fetched.tag # NoKey =>
             /\ NotAfter(last[t], shown[t], fetched.tag, fetched.body)
             /\ NotAfter(got[t].tag, got[t].body, fetched.tag, fetched.body)
        /\ ~got[t].err => NotAfter(last[t], shown[t], got[t].tag, got[t].body)
    BY <1>0, ItemTypes DEF Ordered
  <2>1. PICK t1, t2 \in Keys, b1, b2 \in Bodies :
          t1 = last[t] /\ b1 = shown[t] /\ t2 = got[t].tag /\ b2 = got[t].body
    BY <2>0
  <2>2. Reached(t1, b1)' /\ Reached(t2, b2)'
    BY <1>0, <1>1, <2>0, <2>1, ReachedStays
  <2>3. CASE t # s
    <3>1. last'[t] = t1 /\ shown'[t] = b1 /\ got'[t].tag = t2 /\ got'[t].body = b2
          /\ got'[t].err = got[t].err
      BY <1>2, <2>1, <2>3, WritesShow
    <3> QED BY <2>0, <2>1, <2>2, <3>1
  <2>4. CASE t = s
    <3>1. got'[t].tag = NoKey /\ got'[t].body = NoBody /\ got'[t].err
      BY <1>2, <2>4 DEF NoFetch
    <3>2. \/ last'[t] = t1 /\ shown'[t] = b1
          \/ last'[t] = t2 /\ shown'[t] = b2
          \/ last'[t] = NoKey /\ shown'[t] = NoBody
      BY <2>1, <2>4, WritesShow
    <3>3. Reached(last[t], shown[t])'
      BY <1>4, <2>2, <3>2
    <3>4. Reached(got[t].tag, got[t].body)'
      BY <1>4, <3>1
    <3>5. fetched.tag # NoKey => NotAfter(last'[t], shown'[t], fetched.tag, fetched.body)
      BY <1>5, <2>0, <2>1, <3>2
    <3> QED BY <1>5, <3>1, <3>3, <3>4, <3>5
  <2> QED BY <2>3, <2>4
<1>7. fetched'.tag = NoKey => fetched'.err
  BY <1>1 DEF Ordered
<1> QED BY <1>1, <1>3, <1>6, <1>7 DEF Ordered

LEMMA InitOrdered == Init => Backed /\ Ordered
<1> SUFFICES ASSUME Init PROVE Backed /\ Ordered
  OBVIOUS
<1>1. Backed
  BY DEF Init, Backed, NoSource, NoBody
<1>2. Reached(NoKey, NoBody)
  BY DEF Init, Reached, NoKey, NoBody, NoSource
<1>3. NotAfter(NoKey, NoBody, NoKey, NoBody)
  BY NoKeyType, NotAfterItself
<1>4. Ordered
  BY <1>2, <1>3 DEF Init, Ordered, NoFetch
<1> QED BY <1>1, <1>4

\* A browser shows what its stream sends, which is no older; a browser that is
\* opened anew begins with nothing.
LEMMA StepsGoForward ==
  ASSUME IInv, IInv', Backed, Ordered, [Next]_vars
  PROVE  /\ Backed' /\ Ordered'
         /\ \A s \in Streams :
              stream'[s] # "ended" => NotAfter(last[s], shown[s], last'[s], shown'[s])
<1> DEFINE Forward == \A s \in Streams :
             stream'[s] # "ended" => NotAfter(last[s], shown[s], last'[s], shown'[s])
<1>0. \A s \in Streams : NotAfter(last[s], shown[s], last[s], shown[s])
  BY ItemTypes, NotAfterItself DEF IInv
<1>1. ASSUME UNCHANGED <<last, shown>> PROVE Forward
  BY <1>0, <1>1
<1>2. CASE Measurement
  <2>1. UNCHANGED <<fetched, got, last, shown>>
    BY <1>2, MeasurementStep DEF MeasuredStep, frontend
  <2> QED BY <1>1, <1>2, <2>1, MeasurementFlows, OrderStays
<1>3. CASE Answering
  <2>1. UNCHANGED <<fetched, got, last, shown>>
    BY <1>3 DEF Answering, ReadsGeneration, AnswersFromCache, RelayArrives, RelayAnswered,
       frontend
  <2> QED BY <1>1, <1>3, <2>1, AnsweringFlows, OrderStays
<1>4. CASE Ages \/ Cancels \/ ShutsDown \/ ClosesByForce \/ UNCHANGED vars
  <2>1. UNCHANGED measured /\ UNCHANGED <<fetched, got, last, shown>>
        /\ (UNCHANGED backend \/ Responds)
    BY <1>4 DEF Ages, Cancels, ShutsDown, ClosesByForce, vars, frontend
  <2>2. Flow /\ Backed'
    BY <2>1, RequestFlows
  <2> QED BY <1>1, <2>1, <2>2, OrderStays
<1>5. ASSUME NEW s \in Streams, Fetch(s) \/ ReadFails(s) \/ RequestFails(s)
      PROVE  Backed' /\ Ordered' /\ Forward
  <2>1. UNCHANGED <<last, shown>>
    BY <1>5 DEF Fetch, NotModified, Modified, Unavailable, ReadFails, RequestFails, Received
  <2> QED BY <1>1, <1>5, <2>1, FetchOrders
<1>6. ASSUME NEW s \in Streams, Polls(s) \/ SendsFinal(s)
      PROVE  Backed' /\ Ordered' /\ Forward
  <2>1. UNCHANGED <<last, shown>>
    BY <1>6 DEF Polls, SendsFinal, Gets, Reuses, Asks
  <2> QED BY <1>1, <1>6, <2>1, PollsOrder
<1>7. ASSUME NEW s \in Streams, Skips(s) \/ Pushes(s) \/ WriteBlocks(s) \/ Disconnects(s)
      PROVE  Backed' /\ Ordered' /\ Forward
  <2>1. ~got[s].err => NotAfter(last[s], shown[s], got[s].tag, got[s].body)
    BY DEF Ordered
  <2>2. Forward
    BY <1>0, <1>7, <2>1, WritesShow
  <2> QED BY <1>7, <2>2, WritesOrder
<1> HIDE DEF Forward
<1>8. ASSUME NEW s \in Streams,
             \/ Fetch(s) \/ ReadFails(s) \/ RequestFails(s)
             \/ StreamStep(s) \/ WriteBlocks(s) \/ Disconnects(s)
      PROVE  Backed' /\ Ordered' /\ Forward
  <2>1. \/ Fetch(s) \/ ReadFails(s) \/ RequestFails(s)
        \/ Polls(s) \/ SendsFinal(s)
        \/ Skips(s) \/ Pushes(s) \/ WriteBlocks(s) \/ Disconnects(s)
    BY <1>8 DEF StreamStep
  <2>2. CASE Fetch(s) \/ ReadFails(s) \/ RequestFails(s)
    BY <2>2, <1>5
  <2>3. CASE Polls(s) \/ SendsFinal(s)
    BY <2>3, <1>6
  <2>4. CASE Skips(s) \/ Pushes(s) \/ WriteBlocks(s) \/ Disconnects(s)
    BY <2>4, <1>7
  <2> QED BY <2>1, <2>2, <2>3, <2>4
<1>9. CASE Next
  BY <1>9, <1>2, <1>3, <1>4, <1>8
  DEF Next, Measurement, Answering, BackendStep, Over, Forward
<1> QED BY <1>4, <1>9 DEF Forward

\* No push takes a browser back, whatever the fetcher reuses, whatever requests
\* fail, and whatever relayed requests put into the cache (snapshotFetcher.get,
\* snapshotCache.get, handleStream).
THEOREM BrowsersGoForward == Spec => NeverGoesBack
<1>1. Init => IInv /\ Backed /\ Ordered
  BY InitIInv, InitOrdered
<1>2. IInv /\ Backed /\ Ordered /\ [Next]_vars => (IInv /\ Backed /\ Ordered)'
  BY Inductive, StepsGoForward
<1>3. IInv /\ Backed /\ Ordered /\ [Next]_vars =>
        [\A s \in Streams :
           stream'[s] # "ended" => NotAfter(last[s], shown[s], last'[s], shown'[s])]_vars
  BY Inductive, StepsGoForward
<1> QED BY <1>1, <1>2, <1>3, PTL DEF Spec, NeverGoesBack

(***************************************************************************)
(* Privilege and WebProcess.                                               *)
(***************************************************************************)

\* An installation is setuid or setgid, not both: then the process only ever
\* has the installed IDs or the user's, and a caller that reads them outside
\* the lock reads one or the other.
OneBit == ~(SetUid /\ SetGid)

Seen == {Installed, RealIds}

AnyPlace == Locked \cup {"idle", "readGroup", "plain", "wants"}

SeenTypes ==
  /\ ids \in Seen
  /\ real \in [Reals -> AnyPlace]
  /\ saved \in [Reals -> Seen]
  /\ raw \in [Raws -> {"idle", "wants", "inside"}]

OneHolder == \A r, s \in Reals : real[r] \in Locked /\ real[s] \in Locked => r = s

NoneBeside ==
  \A r \in Reals : real[r] \in Locked => \A w \in Raws : raw[w] # "inside"

\* Who switches read the installed IDs, and will restore those.
RestoresInstalled ==
  \A r \in Reals : real[r] \in Locked \cup {"wants"} => saved[r] = Installed

\* What the process still has, or has again, at each place of the section.
HasAtPlaces ==
  \A r \in Reals :
    /\ real[r] = "dropGroup" => ids = Installed
    /\ real[r] \in {"dropUser", "undoGroup", "restoreGroup"} =>
         ids.user = Installed.user

PrivInv ==
  /\ SeenTypes /\ OneHolder /\ NoneBeside /\ RestoresInstalled
  /\ ~lost => PrivilegesRestored /\ HasAtPlaces

-----------------------------------------------------------------------------

\* Any mixture of a user and a group that were seen is again one that was.
LEMMA MixturesAreSeen ==
  ASSUME OneBit, NEW i \in Seen, NEW j \in Seen
  PROVE  /\ [i EXCEPT !.user = j.user] \in Seen
         /\ [i EXCEPT !.group = j.group] \in Seen
BY PrivilegeAssumption DEF OneBit, Seen, Installed, RealIds

\* IDs with the installed user and the installed group are the installed ones.
LEMMA BothRestored ==
  ASSUME NEW i \in Seen, i.user = Installed.user
  PROVE  [i EXCEPT !.group = Installed.group] = Installed
BY DEF Seen, Installed, RealIds

\* IDs that were seen and differ from the user's are the installed ones.
LEMMA OtherIsInstalled ==
  ASSUME NEW i \in Seen, i # RealIds
  PROVE  i = Installed
BY DEF Seen

-----------------------------------------------------------------------------

LEMMA Initially == ProcessInit => PrivInv
BY DEF ProcessInit, PrivInit, PrivInv, SeenTypes, Seen, AnyPlace, OneHolder, NoneBeside,
       RestoresInstalled, HasAtPlaces, PrivilegesRestored, Locked

\* The steps of a caller of Privileged change only its place, and it comes in
\* only while nobody has the lock.
LEMMA RawSteps ==
  ASSUME PrivInv, NEW w \in Raws, RLock(w) \/ RUnlock(w)
  PROVE  PrivInv'
BY DEF PrivInv, SeenTypes, OneHolder, NoneBeside, RestoresInstalled, HasAtPlaces,
       PrivilegesRestored, Holders, RLock, RUnlock

\* A caller that only reads the IDs, or runs without the lock.
LEMMA UnlockedSteps ==
  ASSUME OneBit, PrivInv, NEW r \in Reals,
         ReadsUser(r) \/ ReadsGroup(r) \/ PlainDone(r)
  PROVE  PrivInv'
<1> USE DEF Moves
<1>1. /\ UNCHANGED <<ids, raw, lost>>
      /\ real[r] \notin Locked /\ real'[r] \notin Locked
      /\ real'[r] \in AnyPlace
      /\ \A s \in Reals \ {r} : real'[s] = real[s] /\ saved'[s] = saved[s]
      /\ real' \in [Reals -> AnyPlace]
  BY DEF ReadsUser, ReadsGroup, PlainDone, PrivInv, SeenTypes, AnyPlace, Locked
<1>2. saved'[r] \in Seen /\ saved' \in [Reals -> Seen]
  <2>1. CASE ReadsUser(r)
    BY <2>1, MixturesAreSeen DEF ReadsUser, PrivInv, SeenTypes
  <2>2. CASE ReadsGroup(r)
    BY <2>2, MixturesAreSeen DEF ReadsGroup, PrivInv, SeenTypes
  <2>3. CASE PlainDone(r)
    BY <2>3 DEF PlainDone, PrivInv, SeenTypes
  <2> QED BY <2>1, <2>2, <2>3
<1>3. real'[r] = "wants" => saved'[r] = Installed
  <2>1. CASE ReadsGroup(r)
    <3>1. real'[r] = "wants" => saved'[r] # RealIds
      BY <2>1 DEF ReadsGroup, PrivInv, SeenTypes
    <3> QED BY <3>1, <1>2, OtherIsInstalled
  <2>2. CASE ReadsUser(r) \/ PlainDone(r)
    BY <2>2 DEF ReadsUser, PlainDone, PrivInv, SeenTypes
  <2> QED BY <2>1, <2>2
<1>4. RestoresInstalled'
  BY <1>1, <1>3 DEF PrivInv, RestoresInstalled
<1>5. Holders' = Holders
  BY <1>1 DEF Holders
<1>6. (~lost => PrivilegesRestored /\ HasAtPlaces)'
  BY <1>1, <1>5 DEF PrivInv, PrivilegesRestored, HasAtPlaces, Locked
<1> QED
  BY <1>1, <1>2, <1>4, <1>6 DEF PrivInv, SeenTypes, OneHolder, NoneBeside

\* The lock is taken while nobody has it, so from the installed IDs.
LEMMA LockStep ==
  ASSUME PrivInv, NEW r \in Reals, Lock(r)
  PROVE  PrivInv'
<1> USE DEF Moves, Locked
<1>1. UNCHANGED <<ids, saved, raw, lost>> /\ real' = [real EXCEPT ![r] = "dropGroup"]
  BY DEF Lock
<1>2. Holders = {} /\ real[r] = "wants" /\ \A w \in Raws : raw[w] # "inside"
  BY DEF Lock
<1>3. \A s \in Reals \ {r} : real'[s] = real[s] /\ real[s] \notin Locked
  BY <1>1, <1>2 DEF Holders, PrivInv, SeenTypes
<1>4. real'[r] = "dropGroup" /\ real' \in [Reals -> AnyPlace]
  BY <1>1 DEF PrivInv, SeenTypes, AnyPlace
<1>5. ~lost => ids = Installed
  BY <1>2 DEF PrivInv, PrivilegesRestored
<1>6. Holders' # {}
  BY <1>4 DEF Holders
<1>7. (~lost => PrivilegesRestored /\ HasAtPlaces)'
  BY <1>1, <1>3, <1>4, <1>5, <1>6 DEF PrivilegesRestored, HasAtPlaces
<1> QED
  BY <1>1, <1>2, <1>3, <1>4, <1>7
  DEF PrivInv, SeenTypes, OneHolder, NoneBeside, RestoresInstalled

\* The steps inside the section: the holder moves on and the others stay.
LEMMA InsideSteps ==
  ASSUME OneBit, PrivInv, NEW r \in Reals, NEW from \in Locked, NEW to \in Locked,
         Moves(r, from, to), UNCHANGED <<saved, raw, lost>>,
         ids' \in Seen,
         to \in {"dropUser", "undoGroup", "restoreGroup"} /\ ~lost
           => ids'.user = Installed.user,
         to # "dropGroup"
  PROVE  PrivInv'
<1> USE DEF Moves
<1>1. /\ real[r] \in Locked /\ real'[r] = to
      /\ real' \in [Reals -> AnyPlace]
      /\ \A s \in Reals \ {r} : real'[s] = real[s]
  BY DEF PrivInv, SeenTypes, AnyPlace
<1>2. \A s \in Reals \ {r} : real[s] \notin Locked
  BY <1>1 DEF PrivInv, OneHolder
<1>3. Holders' # {}
  BY <1>1 DEF Holders
<1>4. (~lost => PrivilegesRestored /\ HasAtPlaces)'
  BY <1>1, <1>2, <1>3 DEF PrivilegesRestored, HasAtPlaces, Locked
<1> QED
  BY <1>1, <1>2, <1>4
  DEF PrivInv, SeenTypes, OneHolder, NoneBeside, RestoresInstalled

\* The deferred Unlock: nobody has the lock after it, and the IDs are the
\* installed ones unless a failure to restore them was reported.
LEMMA ReturnSteps ==
  ASSUME PrivInv, NEW r \in Reals, NEW from \in Locked,
         Returns(r, from), UNCHANGED saved,
         ids' \in Seen, ids' = Installed \/ lost'
  PROVE  PrivInv'
<1> USE DEF Returns, Moves
<1>1. /\ real[r] \in Locked /\ real'[r] = "idle"
      /\ real' \in [Reals -> AnyPlace]
      /\ \A s \in Reals \ {r} : real'[s] = real[s] /\ real[s] \notin Locked
  BY DEF PrivInv, SeenTypes, AnyPlace, OneHolder
<1>2. raw' \in [Raws -> {"idle", "wants", "inside"}]
  BY DEF Admitted, PrivInv, SeenTypes
<1>3. \A s \in Reals : real'[s] \notin Locked
  BY <1>1 DEF Locked
<1>4. (~lost => PrivilegesRestored /\ HasAtPlaces)'
  BY <1>3 DEF PrivilegesRestored, HasAtPlaces, Locked
<1> QED
  BY <1>1, <1>2, <1>3, <1>4
  DEF PrivInv, SeenTypes, OneHolder, NoneBeside, RestoresInstalled, Locked

\* The switch to the user's IDs, the rollback and the way back.
LEMMA LockedSteps ==
  ASSUME OneBit, PrivInv, NEW r \in Reals,
         DropsGroup(r) \/ DropsUser(r) \/ UndoesGroup(r) \/ FnDone(r)
           \/ RestoresUser(r) \/ RestoresGroup(r)
  PROVE  PrivInv'
<1>1. ids \in Seen /\ RealIds \in Seen /\ Installed \in Seen
  BY DEF PrivInv, SeenTypes, Seen
<1>2. real[r] \in Locked => saved[r] = Installed
  BY DEF PrivInv, RestoresInstalled
<1>3. real[r] = "dropGroup" /\ ~lost => ids = Installed
  BY DEF PrivInv, HasAtPlaces
<1>4. real[r] \in {"dropUser", "undoGroup", "restoreGroup"} /\ ~lost
        => ids.user = Installed.user
  BY DEF PrivInv, HasAtPlaces
<1>5. CASE DropsGroup(r)
  <2>1. CASE Moves(r, "dropGroup", "dropUser")
             /\ ids' = [ids EXCEPT !.group = RealIds.group]
             /\ UNCHANGED <<saved, raw, lost>>
    <3>1. ids' \in Seen
      BY <2>1, <1>1, MixturesAreSeen
    <3>2. ids'.user = ids.user
      BY <2>1, <1>1 DEF Seen, Installed, RealIds
    <3>3. ~lost => ids'.user = Installed.user
      BY <2>1, <3>2, <1>3 DEF Moves
    <3> QED
      BY <2>1, <3>1, <3>3, InsideSteps DEF Locked
  <2>2. CASE Returns(r, "dropGroup") /\ UNCHANGED <<ids, saved, lost>>
    BY <2>2, <1>1, <1>3, ReturnSteps DEF Locked, Returns, Moves
  <2> QED
    BY <1>5, <2>1, <2>2 DEF DropsGroup
<1>6. CASE DropsUser(r)
  <2>1. CASE Moves(r, "dropUser", "inside")
             /\ ids' = [ids EXCEPT !.user = RealIds.user]
             /\ UNCHANGED <<saved, raw, lost>>
    <3>1. ids' \in Seen
      BY <2>1, <1>1, MixturesAreSeen
    <3> QED
      BY <2>1, <3>1, InsideSteps DEF Locked
  <2>2. CASE Moves(r, "dropUser", "undoGroup") /\ UNCHANGED <<ids, saved, raw, lost>>
    BY <2>2, <1>1, <1>4, InsideSteps DEF Locked, Moves
  <2> QED
    BY <1>6, <2>1, <2>2 DEF DropsUser
<1>7. ASSUME NEW from \in {"undoGroup", "restoreGroup"},
             Returns(r, from), UNCHANGED saved,
             \/ ids' = [ids EXCEPT !.group = saved[r].group] /\ UNCHANGED lost
             \/ lost' = TRUE /\ UNCHANGED ids
      PROVE  PrivInv'
  <2>1. saved[r] = Installed /\ (~lost => ids.user = Installed.user)
    BY <1>7, <1>2, <1>4 DEF Returns, Moves, Locked
  <2>2. ids' \in Seen
    BY <1>7, <2>1, <1>1, MixturesAreSeen
  <2>3. ids' = Installed \/ lost'
    <3>1. CASE ids' = [ids EXCEPT !.group = saved[r].group] /\ UNCHANGED lost /\ ~lost
      BY <3>1, <2>1, <1>1, BothRestored
    <3>2. CASE lost' \/ (UNCHANGED lost /\ lost)
      BY <3>2
    <3> QED BY <1>7, <3>1, <3>2
  <2> QED
    BY <1>7, <2>2, <2>3, ReturnSteps DEF Locked
<1>8. CASE FnDone(r)
  BY <1>8, <1>1, InsideSteps DEF FnDone, Locked
<1>9. CASE RestoresUser(r)
  <2>1. CASE Moves(r, "restoreUser", "restoreGroup")
             /\ ids' = [ids EXCEPT !.user = saved[r].user]
             /\ UNCHANGED <<saved, raw, lost>>
    <3>1. saved[r] = Installed
      BY <2>1, <1>2 DEF Moves, Locked
    <3>2. ids' \in Seen
      BY <2>1, <3>1, <1>1, MixturesAreSeen
    <3>3. ids'.user = Installed.user
      BY <2>1, <3>1, <1>1 DEF Seen, Installed, RealIds
    <3> QED
      BY <2>1, <3>2, <3>3, InsideSteps DEF Locked
  <2>2. CASE Returns(r, "restoreUser") /\ lost' = TRUE /\ UNCHANGED <<ids, saved>>
    BY <2>2, <1>1, ReturnSteps DEF Locked
  <2> QED
    BY <1>9, <2>1, <2>2 DEF RestoresUser
<1> QED
  BY <1>5, <1>6, <1>7, <1>8, <1>9 DEF UndoesGroup, RestoresGroup

-----------------------------------------------------------------------------

\* Every step of the two processes and of their callers keeps the invariant.
LEMMA Steps ==
  ASSUME OneBit, PrivInv, [ProcessNext]_processVars
  PROVE  PrivInv'
<1>1. CASE UNCHANGED privVars
  BY <1>1 DEF privVars, PrivInv, SeenTypes, OneHolder, NoneBeside,
              RestoresInstalled, HasAtPlaces, PrivilegesRestored, Holders
<1>2. ASSUME NEW r \in Reals, ReadsUser(r) \/ Lock(r) \/ AsRealUserStep(r)
      PROVE  PrivInv'
  BY <1>2, UnlockedSteps, LockStep, LockedSteps DEF AsRealUserStep
<1>3. ASSUME NEW w \in Raws, RLock(w) \/ RUnlock(w)
      PROVE  PrivInv'
  BY <1>3, RawSteps
<1> QED
  BY <1>1, <1>2, <1>3 DEF ProcessNext, processVars, privVars, ByProcesses, ByCallers

\* The IDs on the way into a section, and in it.
Switched ==
  \A r \in Reals : /\ real[r] = "dropUser" => ids.group = RealIds.group
                   /\ real[r] = "inside" => ids = RealIds

\* A step that leaves the IDs alone, and takes nobody further in.
LEMMA StaysSwitched ==
  ASSUME Switched, ids' = ids,
         \A s \in Reals : real'[s] \in {"dropUser", "inside"} => real'[s] = real[s]
  PROVE  Switched'
BY DEF Switched

\* A step of the holder, which changes the IDs for nobody else.
LEMMA HolderSwitches ==
  ASSUME PrivInv, NEW r \in Reals, NEW from \in Locked, NEW to, Moves(r, from, to),
         to = "dropUser" => ids'.group = RealIds.group,
         to = "inside" => ids' = RealIds
  PROVE  Switched'
<1>1. \A s \in Reals : real'[s] = IF s = r THEN to ELSE real[s]
  BY DEF Moves, PrivInv, SeenTypes
<1>2. \A s \in Reals \ {r} : real[s] \notin Locked
  BY DEF Moves, PrivInv, OneHolder
<1> QED BY <1>1, <1>2 DEF Switched, Locked

LEMMA SwitchedSteps ==
  ASSUME PrivInv, Switched, [ProcessNext]_processVars
  PROVE  Switched'
<1>1. ids \in [user: {"root", "user"}, group: {"root", "user"}]
  BY DEF PrivInv, SeenTypes, Seen, Installed, RealIds
<1>2. CASE UNCHANGED privVars
  BY <1>2 DEF privVars, Switched
<1>3. ASSUME NEW r \in Reals, ReadsUser(r) \/ Lock(r) \/ ReadsGroup(r) \/ PlainDone(r) \/ FnDone(r)
      PROVE  Switched'
  <2>1. \A s \in Reals : real'[s] \in {"dropUser", "inside"} => real'[s] = real[s]
    BY <1>3 DEF ReadsUser, Lock, ReadsGroup, PlainDone, FnDone, Moves, PrivInv, SeenTypes
  <2>2. ids' = ids
    BY <1>3 DEF ReadsUser, Lock, ReadsGroup, PlainDone, FnDone
  <2> QED BY <2>1, <2>2, StaysSwitched
<1>4. ASSUME NEW r \in Reals, DropsGroup(r)
      PROVE  Switched'
  <2>1. CASE Moves(r, "dropGroup", "dropUser") /\ ids' = [ids EXCEPT !.group = RealIds.group]
    <3>1. ids'.group = RealIds.group
      BY <1>1, <2>1
    <3> QED BY <2>1, <3>1, HolderSwitches DEF Locked
  <2>2. CASE Returns(r, "dropGroup")
    BY <2>2, HolderSwitches DEF Returns, Locked
  <2> QED BY <1>4, <2>1, <2>2 DEF DropsGroup
<1>5. ASSUME NEW r \in Reals, DropsUser(r)
      PROVE  Switched'
  <2>1. CASE Moves(r, "dropUser", "inside") /\ ids' = [ids EXCEPT !.user = RealIds.user]
    <3>1. ids.group = RealIds.group
      BY <2>1 DEF Moves, Switched
    <3>2. ids' = RealIds
      BY <1>1, <2>1, <3>1 DEF RealIds
    <3> QED BY <2>1, <3>2, HolderSwitches DEF Locked
  <2>2. CASE Moves(r, "dropUser", "undoGroup")
    BY <2>2, HolderSwitches DEF Locked
  <2> QED BY <1>5, <2>1, <2>2 DEF DropsUser
<1>6. ASSUME NEW r \in Reals, UndoesGroup(r) \/ RestoresUser(r) \/ RestoresGroup(r)
      PROVE  Switched'
  <2>1. CASE Returns(r, "undoGroup") \/ Returns(r, "restoreUser") \/ Returns(r, "restoreGroup")
    BY <2>1, HolderSwitches DEF Returns, Locked
  <2>2. CASE Moves(r, "restoreUser", "restoreGroup")
    BY <2>2, HolderSwitches DEF Locked
  <2> QED BY <1>6, <2>1, <2>2 DEF UndoesGroup, RestoresUser, RestoresGroup
<1>7. ASSUME NEW w \in Raws, RLock(w) \/ RUnlock(w)
      PROVE  Switched'
  BY <1>7, StaysSwitched DEF RLock, RUnlock
<1>8. ASSUME NEW r \in Reals, ReadsUser(r) \/ Lock(r) \/ AsRealUserStep(r)
      PROVE  Switched'
  BY <1>3, <1>4, <1>5, <1>6, <1>8 DEF AsRealUserStep
<1> QED
  BY <1>2, <1>7, <1>8 DEF ProcessNext, processVars, privVars, ByProcesses, ByCallers

LEMMA Guards == PrivInv /\ Switched => PrivilegesAreGuarded
BY DEF PrivInv, SeenTypes, NoneBeside, PrivilegesAreGuarded, PrivilegesRestored,
       PrivilegedKeepsPrivileges, SectionsAreReal, Switched, Holders

\* A process that is setuid or setgid has the privileges of its installation
\* whenever an operation is inside Privileged, and whenever no section of
\* AsRealUser is open, unless a failed restore was reported: whichever of the
\* system calls fail, and although every caller reads the IDs before it locks.
\* What runs in a section has the IDs of the invoking user.
THEOREM PrivilegesGuarded ==
  ASSUME OneBit
  PROVE  ProcessSpec => []PrivilegesAreGuarded
<1>1. ProcessInit => PrivInv /\ Switched
  <2>1. ProcessInit => Switched
    BY DEF ProcessInit, PrivInit, Switched
  <2> QED BY <2>1, Initially
<1>2. PrivInv /\ Switched /\ [ProcessNext]_processVars => PrivInv' /\ Switched'
  BY Steps, SwitchedSteps
<1> QED
  BY <1>1, <1>2, Guards, PTL DEF ProcessSpec

-----------------------------------------------------------------------------
(* The web process *)

\* What startSplitWebUI has set up, and what is gone, at each place of mping.
MpingOwns ==
  /\ mping \in {"token", "serve", "spawn"} => child = "none"
  /\ mping \in {"spawn", "starting", "reap", "running", "closing"} =>
       service = "serving"
  /\ mping \in {"cleanup", "closeBackend", "removeDir", "failed", "closed"} => ~Alive
  /\ mping \in {"removeDir", "failed", "closed"} => service # "serving"
  /\ mping \in {"failed", "closed"} => dir = {}
  /\ mping = "token" => dir = {} /\ service = "none"
  /\ mping = "serve" => service = "none"

\* The child has come to listen, and to serve, only without privileges.
Unprivileged == left = {} \/ (left = {"group"} /\ SetGid /\ ~SetUid)

ListensUnprivileged == child = "listening" \/ Serving => Unprivileged

WebInv == WebTypeOK /\ MpingOwns /\ ListensUnprivileged

\* Each call and each failure counts within the bound.
LEMMA FailuresCount ==
  ASSUME PrivTypeOK, Fails
  PROVE  failed' \in 0 .. MaxFailed
BY PrivilegeAssumption DEF PrivTypeOK, Fails

LEMMA WebInitially == ProcessInit => PrivTypeOK /\ WebInv
<1>1. ProcessInit => PrivTypeOK
  <2>1. Installed \in Ids
    BY PrivilegeAssumption DEF Ids, Installed
  <2>2. 0 \in 0 .. MaxFailed
    BY PrivilegeAssumption
  <2>3. ProcessInit => failed = 0 /\ PrivInit
    BY DEF ProcessInit
  <2> QED
    BY <2>1, <2>2, <2>3 DEF PrivInit, PrivTypeOK
<1>2. ProcessInit => WebInv
  BY DEF ProcessInit, WebInv, WebTypeOK, Dirs, MpingOwns, ListensUnprivileged, Unprivileged, Alive, Serving
<1> QED BY <1>1, <1>2

\* What the callers do beside the two processes keeps to the types.
LEMMA CallerTypes ==
  ASSUME PrivTypeOK,
         \/ \E r \in Reals : ReadsUser(r) \/ Lock(r) \/ AsRealUserStep(r)
         \/ \E w \in Raws : RLock(w) \/ RUnlock(w)
  PROVE  PrivTypeOK'
<1> USE DEF PrivTypeOK, Ids, Locked, Moves
<1>1. ASSUME NEW r \in Reals, ReadsUser(r) \/ ReadsGroup(r) \/ PlainDone(r) \/ Lock(r)
      PROVE  PrivTypeOK'
  <2>1. CASE ReadsUser(r)
    BY <2>1 DEF ReadsUser
  <2>2. CASE ReadsGroup(r)
    BY <2>2 DEF ReadsGroup
  <2>3. CASE PlainDone(r) \/ Lock(r)
    BY <2>3 DEF PlainDone, Lock
  <2> QED
    BY <1>1, <2>1, <2>2, <2>3
<1>2. ASSUME NEW r \in Reals, DropsGroup(r) \/ DropsUser(r) \/ FnDone(r)
      PROVE  PrivTypeOK'
  BY <1>2, FailuresCount DEF DropsGroup, DropsUser, FnDone, Returns, Admitted, RealIds
<1>3. ASSUME NEW r \in Reals, UndoesGroup(r) \/ RestoresUser(r) \/ RestoresGroup(r)
      PROVE  PrivTypeOK'
  <2>1. ids' \in Ids
    BY <1>3 DEF UndoesGroup, RestoresUser, RestoresGroup
  <2>2. lost' \in BOOLEAN
    BY <1>3 DEF UndoesGroup, RestoresUser, RestoresGroup
  <2>3. failed' \in 0 .. MaxFailed
    BY <1>3, FailuresCount DEF UndoesGroup, RestoresUser, RestoresGroup
  <2> QED
    BY <1>3, <2>1, <2>2, <2>3
    DEF UndoesGroup, RestoresUser, RestoresGroup, Returns, Admitted
<1>4. ASSUME NEW w \in Raws, RLock(w) \/ RUnlock(w)
      PROVE  PrivTypeOK'
  BY <1>4 DEF RLock, RUnlock
<1> QED
  BY <1>1, <1>2, <1>3, <1>4 DEF AsRealUserStep

\* startSplitWebUI, the reader goroutine and Close, and a crash of mping.
LEMMA MpingSteps ==
  ASSUME WebInv, MpingStep \/ Closes \/ Crash
  PROVE  WebInv'
<1> USE DEF WebInv
<1>1. CASE ListenWebSocket
  <2>1. WebTypeOK'
    <3>1. dir' \in Dirs
      BY <1>1 DEF ListenWebSocket, Dirs, WebTypeOK
    <3>2. /\ mping' \in {"serve", "failed"}
          /\ UNCHANGED <<child, service, stdin, out, line, left>>
      BY <1>1 DEF ListenWebSocket
    <3> QED BY <3>1, <3>2 DEF WebTypeOK
  <2>2. MpingOwns'
    BY <1>1 DEF ListenWebSocket, MpingOwns, Alive, WebTypeOK
  <2>3. ListensUnprivileged'
    BY <1>1 DEF ListenWebSocket, ListensUnprivileged, Unprivileged, Serving
  <2> QED BY <2>1, <2>2, <2>3
<1>2. CASE ServeBackend
  <2>1. WebTypeOK'
    <3>1. dir' \in Dirs
      BY <1>2 DEF ServeBackend, Dirs, WebTypeOK
    <3> QED BY <1>2, <3>1 DEF ServeBackend, WebTypeOK
  <2>2. MpingOwns'
    BY <1>2 DEF ServeBackend, MpingOwns, Alive, WebTypeOK
  <2>3. ListensUnprivileged'
    BY <1>2 DEF ServeBackend, ListensUnprivileged, Unprivileged, Serving
  <2> QED BY <2>1, <2>2, <2>3
<1>3. CASE Spawn
  <2>1. WebTypeOK'
    BY <1>3 DEF Spawn, WebTypeOK
  <2>2. MpingOwns'
    BY <1>3 DEF Spawn, MpingOwns, Alive, WebTypeOK
  <2>3. ListensUnprivileged'
    BY <1>3 DEF Spawn, ListensUnprivileged, Unprivileged, Serving
  <2> QED BY <2>1, <2>2, <2>3
<1>4. CASE ReaderDelivers
  <2>1. WebTypeOK'
    <3>1. UNCHANGED <<mping, child, dir, service, stdin, out, left, failed>>
      BY <1>4 DEF ReaderDelivers
    <3>2. line' \in {"none", "empty", "ready", "error"}
      BY <1>4 DEF ReaderDelivers, WebTypeOK
    <3> QED BY <3>1, <3>2 DEF WebTypeOK
  <2>2. MpingOwns'
    BY <1>4 DEF ReaderDelivers, MpingOwns, Alive, WebTypeOK
  <2>3. ListensUnprivileged'
    BY <1>4 DEF ReaderDelivers, ListensUnprivileged, Unprivileged, Serving
  <2> QED BY <2>1, <2>2, <2>3
<1>5. CASE Ready
  <2>1. WebTypeOK'
    BY <1>5 DEF Ready, WebTypeOK
  <2>2. MpingOwns'
    BY <1>5 DEF Ready, MpingOwns, Alive, WebTypeOK
  <2>3. ListensUnprivileged'
    BY <1>5 DEF Ready, ListensUnprivileged, Unprivileged, Serving
  <2> QED BY <2>1, <2>2, <2>3
<1>6. CASE StartFails
  <2>1. WebTypeOK'
    BY <1>6 DEF StartFails, Kills, Alive, WebTypeOK
  <2>2. MpingOwns'
    BY <1>6 DEF StartFails, Kills, Alive, MpingOwns, WebTypeOK
  <2>3. ListensUnprivileged'
    BY <1>6 DEF StartFails, Kills, Alive, ListensUnprivileged, Unprivileged, Serving
  <2> QED BY <2>1, <2>2, <2>3
<1>7. CASE Reaped
  <2>1. WebTypeOK'
    BY <1>7 DEF Reaped, WebTypeOK
  <2>2. MpingOwns'
    BY <1>7 DEF Reaped, MpingOwns, Alive, WebTypeOK
  <2>3. ListensUnprivileged'
    BY <1>7 DEF Reaped, ListensUnprivileged, Unprivileged, Serving
  <2> QED BY <2>1, <2>2, <2>3
<1>8. CASE CleansUp
  <2>1. WebTypeOK'
    <3>1. dir' \in Dirs
      BY <1>8 DEF CleansUp, Dirs, WebTypeOK
    <3> QED BY <1>8, <3>1 DEF CleansUp, WebTypeOK
  <2>2. MpingOwns'
    BY <1>8 DEF CleansUp, MpingOwns, Alive, WebTypeOK
  <2>3. ListensUnprivileged'
    BY <1>8 DEF CleansUp, ListensUnprivileged, Unprivileged, Serving
  <2> QED BY <2>1, <2>2, <2>3
<1>9. CASE Closes
  <2>1. WebTypeOK'
    BY <1>9 DEF Closes, WebTypeOK
  <2>2. MpingOwns'
    BY <1>9 DEF Closes, MpingOwns, Alive, WebTypeOK
  <2>3. ListensUnprivileged'
    BY <1>9 DEF Closes, ListensUnprivileged, Unprivileged, Serving
  <2> QED BY <2>1, <2>2, <2>3
<1>10. CASE FrontendGone
  <2>1. WebTypeOK'
    BY <1>10 DEF FrontendGone, WebTypeOK
  <2>2. MpingOwns'
    BY <1>10 DEF FrontendGone, MpingOwns, Alive, WebTypeOK
  <2>3. ListensUnprivileged'
    BY <1>10 DEF FrontendGone, ListensUnprivileged, Unprivileged, Serving
  <2> QED BY <2>1, <2>2, <2>3
<1>11. CASE CloseTimesOut
  <2>1. WebTypeOK'
    BY <1>11 DEF CloseTimesOut, Kills, Alive, WebTypeOK
  <2>2. MpingOwns'
    BY <1>11 DEF CloseTimesOut, Kills, Alive, MpingOwns, WebTypeOK
  <2>3. ListensUnprivileged'
    BY <1>11 DEF CloseTimesOut, Kills, Alive, ListensUnprivileged, Unprivileged, Serving
  <2> QED BY <2>1, <2>2, <2>3
<1>12. CASE ClosesBackend
  <2>1. WebTypeOK'
    BY <1>12 DEF ClosesBackend, WebTypeOK
  <2>2. MpingOwns'
    BY <1>12 DEF ClosesBackend, MpingOwns, Alive, WebTypeOK
  <2>3. ListensUnprivileged'
    BY <1>12 DEF ClosesBackend, ListensUnprivileged, Unprivileged, Serving
  <2> QED BY <2>1, <2>2, <2>3
<1>13. CASE RemovesDir
  <2>1. WebTypeOK'
    <3>1. dir' \in Dirs
      BY <1>13 DEF RemovesDir, Dirs, WebTypeOK
    <3> QED BY <1>13, <3>1 DEF RemovesDir, WebTypeOK
  <2>2. MpingOwns'
    BY <1>13 DEF RemovesDir, MpingOwns, Alive, WebTypeOK
  <2>3. ListensUnprivileged'
    BY <1>13 DEF RemovesDir, ListensUnprivileged, Unprivileged, Serving
  <2> QED BY <2>1, <2>2, <2>3
<1>14. CASE Crash
  <2>1. WebTypeOK'
    BY <1>14 DEF Crash, WebTypeOK
  <2>2. MpingOwns'
    BY <1>14 DEF Crash, MpingOwns, Alive, WebTypeOK
  <2>3. ListensUnprivileged'
    BY <1>14 DEF Crash, ListensUnprivileged, Unprivileged, Serving
  <2> QED BY <2>1, <2>2, <2>3
<1> QED
  BY <1>1, <1>2, <1>3, <1>4, <1>5, <1>6, <1>7, <1>8, <1>9, <1>10, <1>11, <1>12, <1>13, <1>14 DEF MpingStep

\* runWebProcess, and a child that is killed.
LEMMA ChildSteps ==
  ASSUME WebInv, ChildStep \/ ChildDies
  PROVE  WebInv'
<1> USE DEF WebInv
<1>1. CASE DropTo
  <2>0. PICK kept \in SUBSET MayKeep :
          /\ left' = kept
          /\ \/ Dropped(kept) /\ child' = "listening" /\ Says(out)
             \/ ~Dropped(kept) /\ child' = "exited" /\ Says("error")
    BY <1>1 DEF DropTo
  <2>1. WebTypeOK'
    BY <2>0 DEF MayKeep, Says, WebTypeOK
  <2>2. MpingOwns'
    BY <1>1, <2>0 DEF DropTo, Says, MpingOwns, Alive, WebTypeOK
  <2>3. Dropped(kept) => Unprivileged'
    BY <2>0 DEF Dropped, MayKeep, Kinds, Unprivileged
  <2>4. ListensUnprivileged'
    <3>1. CASE Dropped(kept)
      BY <2>3, <3>1 DEF ListensUnprivileged
    <3>2. CASE child' = "exited"
      BY <3>2 DEF ListensUnprivileged, Serving
    <3> QED BY <2>0, <3>1, <3>2
  <2> QED BY <2>1, <2>2, <2>4
<1>2. CASE StartFrontend
  <2>1. WebTypeOK'
    BY <1>2 DEF StartFrontend, Says, WebTypeOK
  <2>2. MpingOwns'
    BY <1>2 DEF StartFrontend, Says, MpingOwns, Alive, WebTypeOK
  <2>3. ListensUnprivileged'
    BY <1>2 DEF StartFrontend, Says, ListensUnprivileged, Unprivileged, Serving
  <2> QED BY <2>1, <2>2, <2>3
<1>3. CASE Reports
  <2>1. WebTypeOK'
    BY <1>3 DEF Reports, Says, WebTypeOK
  <2>2. MpingOwns'
    BY <1>3 DEF Reports, Says, MpingOwns, Alive, WebTypeOK
  <2>3. ListensUnprivileged'
    BY <1>3 DEF Reports, Says, ListensUnprivileged, Unprivileged, Serving
  <2> QED BY <2>1, <2>2, <2>3
<1>4. CASE SeesEOF
  <2>1. WebTypeOK'
    BY <1>4 DEF SeesEOF, Says, WebTypeOK
  <2>2. MpingOwns'
    BY <1>4 DEF SeesEOF, Says, MpingOwns, Alive, WebTypeOK
  <2>3. ListensUnprivileged'
    BY <1>4 DEF SeesEOF, Says, ListensUnprivileged, Unprivileged, Serving
  <2> QED BY <2>1, <2>2, <2>3
<1>5. CASE StopsServing
  <2>1. WebTypeOK'
    BY <1>5 DEF StopsServing, Says, WebTypeOK
  <2>2. MpingOwns'
    BY <1>5 DEF StopsServing, Says, MpingOwns, Alive, WebTypeOK
  <2>3. ListensUnprivileged'
    BY <1>5 DEF StopsServing, Says, ListensUnprivileged, Unprivileged, Serving
  <2> QED BY <2>1, <2>2, <2>3
<1>6. CASE Removes
  <2>1. WebTypeOK'
    <3>1. dir' \in Dirs
      <4>1. dir \in Dirs /\ dir' \in {dir, dir \ {"socket"}, {}}
        BY <1>6 DEF Removes, WebTypeOK
      <4>2. ASSUME NEW d \in Dirs PROVE d \ {"socket"} \in Dirs
        BY DEF Dirs
      <4>3. {} \in Dirs
        BY DEF Dirs
      <4> QED BY <4>1, <4>2, <4>3
    <3> QED BY <1>6, <3>1 DEF Removes, Says, WebTypeOK
  <2>2. MpingOwns'
    BY <1>6 DEF Removes, Says, MpingOwns, Alive, WebTypeOK
  <2>3. ListensUnprivileged'
    BY <1>6 DEF Removes, Says, ListensUnprivileged, Unprivileged, Serving
  <2> QED BY <2>1, <2>2, <2>3
<1>7. CASE ChildDies
  <2>1. WebTypeOK'
    BY <1>7 DEF ChildDies, Says, Alive, WebTypeOK
  <2>2. MpingOwns'
    BY <1>7 DEF ChildDies, Says, Alive, MpingOwns, WebTypeOK
  <2>3. ListensUnprivileged'
    BY <1>7 DEF ChildDies, Says, Alive, ListensUnprivileged, Unprivileged, Serving
  <2> QED BY <2>1, <2>2, <2>3
<1> QED
  BY <1>1, <1>2, <1>3, <1>4, <1>5, <1>6, <1>7 DEF ChildStep

\* The steps of the processes leave the callers alone, but count failures.
LEMMA ProcessTypes ==
  ASSUME PrivTypeOK, UNCHANGED privVars,
         MpingStep \/ Closes \/ Crash \/ ChildStep \/ ChildDies
  PROVE  PrivTypeOK'
<1>1. failed' = failed \/ Fails
  BY DEF MpingStep, ListenWebSocket, ServeBackend, Spawn, ReaderDelivers, Ready,
         StartFails, Reaped, CleansUp, Closes, FrontendGone, CloseTimesOut,
         ClosesBackend, RemovesDir, Crash, ChildStep, DropTo, StartFrontend,
         Reports, SeesEOF, StopsServing, Removes, ChildDies
<1>2. failed' \in 0 .. MaxFailed
  BY <1>1, FailuresCount DEF PrivTypeOK
<1> QED
  BY <1>2 DEF PrivTypeOK, privVars

LEMMA WebSteps ==
  ASSUME PrivTypeOK, WebInv, [ProcessNext]_processVars
  PROVE  PrivTypeOK' /\ WebInv'
<1>1. ASSUME UNCHANGED webVars PROVE WebInv'
  <2>1. WebTypeOK'
    <3>1. WebTypeOK /\ UNCHANGED webVars => WebTypeOK'
      BY DEF webVars, WebTypeOK
    <3> QED
      BY <1>1, <3>1 DEF WebInv
  <2>2. MpingOwns' /\ ListensUnprivileged'
    BY <1>1 DEF webVars, WebInv, MpingOwns, ListensUnprivileged, Unprivileged, Alive, Serving
  <2> QED BY <2>1, <2>2 DEF WebInv
<1>2. CASE UNCHANGED processVars
  <2>1. UNCHANGED webVars
    BY <1>2 DEF processVars, webVars
  <2>2. PrivTypeOK'
    BY <1>2 DEF processVars, PrivTypeOK
  <2> QED BY <1>1, <2>1, <2>2
<1>3. CASE ByProcesses(MpingStep \/ Closes \/ Crash \/ ChildStep \/ ChildDies)
  BY <1>3, MpingSteps, ChildSteps, ProcessTypes DEF ByProcesses
<1>4. ASSUME NEW r \in Reals,
             ByCallers((mping = "running" /\ ReadsUser(r)) \/ Lock(r) \/ AsRealUserStep(r))
      PROVE  PrivTypeOK' /\ WebInv'
  BY <1>1, <1>4, CallerTypes DEF ByCallers
<1>5. ASSUME NEW w \in Raws, ByCallers((mping = "running" /\ RLock(w)) \/ RUnlock(w))
      PROVE  PrivTypeOK' /\ WebInv'
  BY <1>1, <1>5, CallerTypes DEF ByCallers
<1> QED
  BY <1>2, <1>3, <1>4, <1>5 DEF ProcessNext

\* From ProcessTypeOK and what mping owns at each place, the backend is there while
\* the frontend serves a living mping, and nothing is left at the end.
LEMMA Contains == PrivTypeOK /\ WebInv => WebProcessIsContained
BY DEF WebInv, ProcessTypeOK, WebTypeOK, MpingOwns, ListensUnprivileged, Unprivileged,
       WebProcessIsContained,
       ServesUnprivileged, BackendOutlivesFrontend, EndLeavesNothing, Serving, Alive

\* A child serves only without privileges and with the backend behind it, and
\* a start that failed or a Close that returned leaves neither child nor
\* directory nor backend, whatever fails, hangs or is killed, and when.
THEOREM Contained == ProcessSpec => []WebProcessIsContained
<1>1. PrivTypeOK /\ WebInv /\ [ProcessNext]_processVars => PrivTypeOK' /\ WebInv'
  BY WebSteps
<1> QED
  BY WebInitially, <1>1, Contains, PTL DEF ProcessSpec
=============================================================================
