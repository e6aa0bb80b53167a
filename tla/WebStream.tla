----------------------------- MODULE WebStream -----------------------------
(***************************************************************************)
(* What a browser sees of a run: the statistics with their process-wide    *)
(* generation (internal/stats/dirty.go), the published target list, the    *)
(* web source, the snapshot cache of the backend, the snapshot fetcher the *)
(* frontend's streams share, and the streams themselves up to the shutdown *)
(* of the frontend server (internal/web).                                  *)
(*                                                                         *)
(* A snapshot is abstracted to the number of statistics writes it contains *)
(* ("data"), the published list ("list") and the source state it reports.  *)
(***************************************************************************)
EXTENDS Naturals, FiniteSets

CONSTANTS
  Streams,    \* open /api/v1/stream requests
  MaxWrites,  \* bound: writes to the statistics, those of edits included
  MaxIter,    \* bound: iterations of the run loop
  MaxFaults   \* bound: backend requests that fail

ASSUME WebAssumption ==
  /\ IsFiniteSet(Streams)
  /\ {MaxWrites, MaxIter, MaxFaults} \subseteq Nat

\* An iteration takes two transitions, and the end of the run one.
MaxVersion == 2 * MaxIter + 1
States == {"starting", "running", "reloading", "stopped"}

Sources == [iter : 0..MaxIter, state : States, version : 0..MaxVersion]
Keys == [gen : 0..MaxWrites, version : 0..MaxVersion]
Bodies == [data : 0..MaxWrites, list : 0..MaxWrites, state : States, whole : BOOLEAN]

\* What a fetch leaves in the fetcher and returns.
Fetches == [tag : Keys, body : Bodies, err : BOOLEAN]

\* The ETag before a snapshot was received, and its body.
NoKey == [gen |-> 0, version |-> 0]
NoBody == [data |-> 0, list |-> 0, state |-> "starting", whole |-> TRUE]
NoFetch == [tag |-> NoKey, body |-> NoBody, err |-> TRUE]

VARIABLES
  \* Measurement process.
  data, gen,   \* statistics writes made, and the generation
  dirty,       \* a mutator wrote and has not bumped the generation yet
  list,        \* supervisor.targetSnap
  editing,     \* an edit recorded its event and is not published yet
  src,         \* web.Source
  cache,       \* snapshotCache: key and body, key NoKey while empty
  at,          \* where the fetcher's request is
  loaded,      \* the source state it loaded
  key,         \* the key it computed
  body,        \* the body it answers with
  relay,       \* the relayed snapshot request being answered: at most one
  \* Frontend process.
  fetched,     \* snapshotFetcher's tag, body and error
  young,       \* the latest fetch is younger than minAge
  holder,      \* the streams holding the fetcher's mutex: at most one
  faults,      \* failed requests (bounded by MaxFaults)
  stream,      \* where each stream is
  last,        \* the tag each stream sent last
  got,         \* what the fetcher returned to each stream
  shown,       \* the snapshot sent to each browser last
  fresh,       \* the send in progress is the final one
  server       \* the frontend server: up, cancelled, closed

measured == <<data, gen, dirty, list, editing, src>>
backend == <<cache, at, loaded, key, body, relay>>
frontend == <<fetched, young, holder, faults, stream, last, got, shown, fresh, server>>
vars == <<measured, backend, frontend>>

Points == {"idle", "loaded", "keyed", "answered"}
StreamStates == {"new", "waiting", "fetching", "writing", "stuck",
                 "complete", "ended"}

MeasuredOK ==
  /\ data \in 0..MaxWrites /\ gen \in 0..MaxWrites /\ dirty \in BOOLEAN
  /\ list \in 0..MaxWrites /\ editing \in BOOLEAN /\ src \in Sources

BackendOK ==
  /\ cache \in [key : Keys, body : Bodies]
  /\ at \in Points /\ loaded \in Sources /\ key \in Keys /\ body \in Bodies
  /\ relay \subseteq [key : Keys, state : States] /\ Cardinality(relay) <= 1

FrontendOK ==
  /\ fetched \in Fetches
  /\ young \in BOOLEAN /\ holder \subseteq Streams /\ Cardinality(holder) <= 1
  /\ faults \in 0..MaxFaults /\ stream \in [Streams -> StreamStates]
  /\ last \in [Streams -> Keys] /\ shown \in [Streams -> Bodies]
  /\ got \in [Streams -> Fetches] /\ fresh \in [Streams -> BOOLEAN]
  /\ server \in {"up", "cancelled", "closed"}

TypeOK == MeasuredOK /\ BackendOK /\ FrontendOK

NoSource == [iter |-> 0, state |-> "starting", version |-> 0]

Init ==
  /\ data = 0 /\ gen = 0 /\ dirty = FALSE /\ list = 0 /\ editing = FALSE
  /\ src = NoSource
  /\ cache = [key |-> NoKey, body |-> NoBody]
  /\ at = "idle" /\ loaded = NoSource /\ key = NoKey /\ body = NoBody /\ relay = {}
  /\ fetched = NoFetch
  /\ young = FALSE /\ holder = {} /\ faults = 0
  /\ stream = [s \in Streams |-> "new"] /\ last = [s \in Streams |-> NoKey]
  /\ shown = [s \in Streams |-> NoBody] /\ got = [s \in Streams |-> NoFetch]
  /\ fresh = [s \in Streams |-> FALSE]
  /\ server = "up"

-----------------------------------------------------------------------------
\* The measurement process.

\* Producers may still write after MarkStopped, when the UI has failed.
Measuring == server = "up"

\* A mutator changes the statistics ...
Writes ==
  /\ ~dirty /\ ~editing /\ data < MaxWrites /\ Measuring
  /\ data' = data + 1 /\ dirty' = TRUE
  /\ UNCHANGED <<gen, list, editing, src, backend, frontend>>

\* ... and then bumps the generation.
Bumps ==
  /\ dirty
  /\ gen' = gen + 1 /\ dirty' = FALSE
  /\ UNCHANGED <<data, list, editing, src, backend, frontend>>

\* An edit of the target list: the handler records the event on the target,
\* which is a write with its bump, and the loop publishes the list afterwards.
Edits ==
  /\ ~dirty /\ ~editing /\ data < MaxWrites /\ src.state = "running"
  /\ data' = data + 1 /\ dirty' = TRUE /\ editing' = TRUE
  /\ UNCHANGED <<gen, list, src, backend, frontend>>

Publishes ==
  /\ editing /\ ~dirty
  /\ list' = list + 1 /\ editing' = FALSE
  /\ UNCHANGED <<data, gen, dirty, src, backend, frontend>>

\* Source.update, whose only caller is the main goroutine.
Transition(iter, state) ==
  /\ src' = [iter |-> iter, state |-> state, version |-> src.version + 1]
  /\ UNCHANGED <<data, gen, dirty, list, editing, backend, frontend>>

SetsProvider ==
  /\ src.state \in {"starting", "reloading"} /\ src.iter < MaxIter /\ server = "up"
  /\ Transition(src.iter + 1, "running")

\* When the UI has returned.  That prepareReload marks it once more, which only
\* moves the version, is left out.
MarksReloading == src.state = "running" /\ Transition(src.iter, "reloading")

MarksStopped ==
  /\ src.state = "reloading" /\ server = "up"
  /\ Transition(src.iter, "stopped")

-----------------------------------------------------------------------------
\* The backend: handleSnapshot over snapshotCache.get.

\* The fetcher's request arrives and loads the source.
Arrives ==
  /\ at' = "loaded" /\ loaded' = src
  /\ UNCHANGED <<key, body, cache, relay>>

ReadsGeneration ==
  /\ at = "loaded" /\ loaded.iter # 0
  /\ key' = [gen |-> gen, version |-> loaded.version]
  /\ at' = "keyed"
  /\ UNCHANGED <<measured, cache, loaded, body, relay, frontend>>

\* CacheGet, reusing the body as long as the source did not change.
IgnoresGeneration(k, state) ==
  IF cache.key.version = k.version THEN [cache EXCEPT !.key = k]
  ELSE [key |-> k, body |-> [data |-> data, list |-> list, state |-> state, whole |-> TRUE]]

\* Under the cache's mutex: the cached body if it has this key, else a new one,
\* built from the state the request loaded and from what is measured now.  Of a
\* request that straddles a reload "data" counts too much: its body is built from
\* the targets it loaded, which are no longer measured.  Its key has a version
\* that is past, so the next poll replaces it.
CacheGet(k, state) ==
  IF cache.key = k THEN cache
  ELSE [key |-> k, body |-> [data |-> data, list |-> list, state |-> state, whole |-> TRUE]]

AnswersFromCache ==
  /\ at = "keyed"
  /\ cache' = CacheGet(key, loaded.state)
  /\ body' = cache'.body
  /\ at' = "answered"
  /\ UNCHANGED <<measured, loaded, key, relay, frontend>>

\* The response is written; the request's local variables die with it.
Responds ==
  /\ at' = "idle" /\ loaded' = NoSource /\ key' = NoKey /\ body' = NoBody
  /\ UNCHANGED <<cache, relay>>

BackendStep == ReadsGeneration \/ AnswersFromCache

\* A snapshot request that the frontend relays for a browser runs at the same
\* time: it computes its key, and enters the cache later.
RelayArrives ==
  /\ relay = {} /\ src.iter # 0 /\ server = "up"
  /\ relay' = {[key |-> [gen |-> gen, version |-> src.version], state |-> src.state]}
  /\ UNCHANGED <<measured, cache, at, loaded, key, body, frontend>>

RelayAnswered ==
  /\ \E r \in relay : cache' = CacheGet(r.key, r.state)
  /\ relay' = {}
  /\ UNCHANGED <<measured, at, loaded, key, body, frontend>>

-----------------------------------------------------------------------------
\* The frontend: snapshotFetcher.get, under its mutex.

Goes(s, where) == stream' = [stream EXCEPT ![s] = where]

\* A result younger than minAge is returned again, unless the send is final.
Reuses(s, isFinal) ==
  /\ holder = {} /\ young /\ ~isFinal
  /\ got' = [got EXCEPT ![s] = fetched]
  /\ fresh' = [fresh EXCEPT ![s] = isFinal]
  /\ Goes(s, "writing")
  /\ UNCHANGED <<measured, backend, fetched, young, holder, faults, last, shown, server>>

Asks(s, isFinal) ==
  /\ holder = {} /\ (~young \/ isFinal)
  /\ holder' = {s} /\ young' = TRUE
  /\ Goes(s, "fetching") /\ Arrives
  /\ fresh' = [fresh EXCEPT ![s] = isFinal]
  /\ UNCHANGED <<measured, fetched, faults, last, got, shown, server>>

Gets(s, isFinal) == Reuses(s, isFinal) \/ Asks(s, isFinal)

Received(s, result) ==
  /\ stream[s] = "fetching"
  /\ fetched' = result /\ got' = [got EXCEPT ![s] = result]
  /\ holder' = {} /\ Goes(s, "writing")
  /\ Responds
  /\ UNCHANGED <<measured, young, last, shown, fresh, server>>

\* NotModified, keeping the error of the previous fetch.
KeepsError(s) ==
  /\ at = "answered" /\ key = fetched.tag
  /\ Received(s, fetched)
  /\ UNCHANGED faults

\* 304: the body of the previous fetch stands.
NotModified(s) ==
  /\ at = "answered" /\ key = fetched.tag
  /\ Received(s, [fetched EXCEPT !.err = FALSE])
  /\ UNCHANGED faults

\* 200, read to the end.
Modified(s) ==
  /\ at = "answered" /\ key # fetched.tag
  /\ Received(s, [tag |-> key, body |-> body, err |-> FALSE])
  /\ UNCHANGED faults

\* 200, but reading the body fails: what was read and the ETag are kept.
ReadFails(s) ==
  /\ at = "answered" /\ key # fetched.tag /\ faults < MaxFaults
  /\ faults' = faults + 1
  /\ Received(s, [tag |-> key, err |-> TRUE,
                  body |-> [body EXCEPT !.whole = FALSE]])

\* 503: there is no provider yet.
Unavailable(s) ==
  /\ at = "loaded" /\ loaded.iter = 0
  /\ Received(s, NoFetch)
  /\ UNCHANGED faults

\* The request itself fails or times out.
RequestFails(s) ==
  /\ at # "idle" /\ faults < MaxFaults
  /\ faults' = faults + 1
  /\ Received(s, NoFetch)

Fetch(s) == NotModified(s) \/ Modified(s) \/ Unavailable(s)

Ages ==
  /\ young /\ holder = {}
  /\ young' = FALSE
  /\ UNCHANGED <<measured, backend, fetched, holder, faults, stream, last, got, shown,
                 fresh, server>>

-----------------------------------------------------------------------------
\* The streams: handleStream.

\* On connect and on every tick of the poll timer.
Polls(s) == stream[s] \in {"new", "waiting"} /\ Gets(s, FALSE)

\* Once more when the server's context is cancelled.
SendsFinal(s) == stream[s] = "waiting" /\ server = "cancelled" /\ Gets(s, TRUE)

Ends(s, where) ==
  /\ Goes(s, where)
  /\ got' = [got EXCEPT ![s] = NoFetch]
  /\ UNCHANGED <<measured, backend, fetched, young, holder, faults, fresh, server>>

\* A final send whose fetch succeeded completes the stream.
AfterSend(s) == IF ~fresh[s] THEN "waiting"
                ELSE IF got[s].err THEN "ended" ELSE "complete"

Unchanged(s) == got[s].err \/ (got[s].tag = last[s] /\ last[s] # NoKey)

\* Nothing is sent for a failed fetch or a tag that was sent already.
Skips(s) ==
  /\ stream[s] = "writing" /\ Unchanged(s)
  /\ Ends(s, AfterSend(s))
  /\ UNCHANGED <<last, shown>>

Pushes(s) ==
  /\ stream[s] = "writing" /\ ~Unchanged(s)
  /\ last' = [last EXCEPT ![s] = got[s].tag]
  /\ shown' = [shown EXCEPT ![s] = got[s].body]
  /\ Ends(s, AfterSend(s))

\* A slow client: the write blocks, until the server is closed by force.
WriteBlocks(s) ==
  /\ stream[s] = "writing" /\ ~Unchanged(s)
  /\ Ends(s, "stuck")
  /\ UNCHANGED <<last, shown>>

\* The browser goes away: a stream that waits or writes ends.
Disconnects(s) ==
  /\ stream[s] \in {"waiting", "writing", "stuck"}
  /\ Ends(s, "ended")
  /\ last' = [last EXCEPT ![s] = NoKey] /\ shown' = [shown EXCEPT ![s] = NoBody]

StreamStep(s) == Polls(s) \/ SendsFinal(s) \/ Skips(s) \/ Pushes(s)

-----------------------------------------------------------------------------
\* Server.Close, when the run has ended or its first start failed: the streams'
\* context is cancelled, Shutdown waits for them, and after its timeout the
\* connections are closed.

Closed(s) == stream[s] \in {"complete", "ended"}

Cancels ==
  /\ server = "up" /\ src.state # "running"
  /\ server' = "cancelled"
  /\ UNCHANGED <<measured, backend, fetched, young, holder, faults, stream, last, got,
                 shown, fresh>>

ShutsDown ==
  /\ server = "cancelled" /\ \A s \in Streams : Closed(s)
  /\ server' = "closed"
  /\ UNCHANGED <<measured, backend, fetched, young, holder, faults, stream, last, got,
                 shown, fresh>>

ClosesByForce ==
  /\ server = "cancelled"
  /\ server' = "closed"
  /\ stream' = [s \in Streams |-> IF Closed(s) THEN stream[s] ELSE "ended"]
  /\ holder' = {} /\ Responds
  /\ UNCHANGED <<measured, fetched, young, faults, last, got,
                 shown, fresh>>

Over == server = "closed" /\ UNCHANGED vars

Next ==
  \/ Writes \/ Bumps \/ Edits \/ Publishes
  \/ SetsProvider \/ MarksReloading \/ MarksStopped
  \/ RelayArrives \/ RelayAnswered \/ BackendStep
  \/ Ages
  \/ \E s \in Streams : \/ Fetch(s) \/ ReadFails(s) \/ RequestFails(s)
                        \/ StreamStep(s) \/ WriteBlocks(s) \/ Disconnects(s)
  \/ Cancels \/ ShutsDown \/ ClosesByForce
  \/ Over

Spec == Init /\ [][Next]_vars

\* Goroutines run, timers tick, and Shutdown has a timeout.
FairSpec ==
  /\ Spec
  /\ WF_vars(Bumps) /\ WF_vars(Publishes)
  /\ WF_vars(BackendStep) /\ WF_vars(Ages)
  /\ \A s \in Streams : SF_vars(Fetch(s)) /\ SF_vars(StreamStep(s))
  /\ WF_vars(ShutsDown) /\ WF_vars(ClosesByForce)

-----------------------------------------------------------------------------
\* Properties.

\* A snapshot holds at least what its tag stands for: every write whose bump the
\* tag's generation counts, and the source state of the tag's version.  With
\* that, a change that races with a build moves the tag (snapshotCache.get).
TagsNeverOverstate ==
  /\ cache.body.data >= cache.key.gen
  /\ \A s \in Streams : shown[s].data >= last[s].gen

\* The browser was sent a snapshot under the tag of now.
Latest(s) == last[s] = [gen |-> gen, version |-> src.version]

Open(s) == stream[s] \in StreamStates \ {"stuck", "complete", "ended"}

\* Once the measurement is quiet and an iteration was published, every open
\* stream was sent a snapshot under the latest tag, of all statistics and of the
\* state of the run, whatever requests failed before (handleStream).  Whether it
\* is whole is another matter: see CutsAreReplaced.
StreamsCatchUp ==
  <>[](\A s \in Streams :
         src.iter # 0 /\ Open(s) =>
           Latest(s) /\ shown[s].data = data /\ shown[s].state = src.state)

\* A response that could not be read to its end is sent as far as it was read, and
\* as the fetcher keeps its tag the polls that follow get "not modified" and do
\* not fetch it again (snapshotFetcher.get), although a comment on handleStream
\* says that a failed fetch is retried.  It lasts no longer than its tag: when
\* anything changed and no request fails any more, a whole snapshot is sent.
CutsAreReplaced ==
  \A s \in Streams :
    /\ ~shown[s].whole /\ ~Latest(s)
    /\ faults = MaxFaults /\ fetched.tag \in {last[s], NoKey}
    ~> shown[s].whole \/ ~Open(s)

\* A stream that ends with the server was sent the final state last, if its last
\* fetch succeeded, even when the run stopped between two polls.
FinalStateShown ==
  \A s \in Streams : stream[s] = "complete" => shown[s].state = src.state

\* Closing the server ends although a browser does not read its stream.
CloseReturns == server = "cancelled" ~> server = "closed"

\* The snapshots that travel with tags are what the tags say, and the last one
\* a browser gets is the final one (snapshotCache.get, handleStream).
SnapshotsAreTrue == TypeOK /\ TagsNeverOverstate /\ FinalStateShown

\* What one tag and body tell is no later than what the others do.
NotAfter(tag, content, tag2, content2) ==
  /\ tag.gen <= tag2.gen /\ tag.version <= tag2.version
  /\ content.data <= content2.data /\ content.list <= content2.list

\* No push takes a browser back to older statistics, to an older target list or
\* to an earlier tag, although streams share one fetcher, reuse its
\* result and its body after a "not modified", and relayed requests replace the
\* cached body with one of an older key (snapshotFetcher.get, handleStream).
NeverGoesBack ==
  [][\A s \in Streams :
       stream'[s] # "ended" => NotAfter(last[s], shown[s], last'[s], shown'[s])]_vars

\* Open streams catch up with the measurement without ever going back, replace a
\* cut snapshot at the next change, and do not hold up the server's end.
StreamsAreServed == StreamsCatchUp /\ CutsAreReplaced /\ CloseReturns /\ NeverGoesBack
=============================================================================
