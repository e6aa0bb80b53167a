---------------------------- MODULE HopAnnotator ----------------------------
(***************************************************************************)
(* The annotator of one traced target: replies of the route engine record  *)
(* a hop's address at once, with what is already known of it, and start a  *)
(* background lookup (origin AS, organisation, reverse name) whose result  *)
(* is written to the hops still answering from that address.               *)
(***************************************************************************)
EXTENDS Naturals, FiniteSets

CONSTANTS
  IPs,           \* addresses hops answer from
  TTLs,          \* the hops of the route
  MaxLookups,    \* capacity of sem (maxConcurrentHopLookups)
  AnIP,          \* one of them
  No             \* no address, no annotation

ASSUME HopAnnotatorAssumption ==
  MaxLookups \in Nat \ {0} /\ AnIP \in IPs /\ No \notin IPs

VARIABLES
  hop,           \* stats: the hop's address and whose AS and name it shows
  known,         \* hopInfo of an address
  inflight,      \* addresses with a lookup
  held,          \* the lookups that hold a slot of sem
  lookup,        \* each lookup's place
  got,           \* what the lookup has found so far
  round,         \* the goroutine of a TTL between reply, record and note
  asnCache,      \* asnCache: no entry, a whole one, one cut short
  cancelled,     \* the target's context
  pstopped,      \* how far the pinger's Stop has come
  closing        \* close of the annotator

avars == <<hop, known, inflight, held, lookup, got, round, asnCache,
           cancelled, pstopped, closing>>
Complete(ip) == known[ip].asn /\ known[ip].ptr
ends == <<cancelled, pstopped, closing>>

\* A hop's AS, country, organisation and name are set and dropped together by
\* annotate, so the AS stands for them; it is named by the address it is of. What
\* is known of an address keeps the AS and the name apart: a lookup may find one.
EmptyHop == [ip |-> No, asn |-> No]
Resting == [at |-> "idle", ip |-> No, asn |-> No]
Nothing == [asn |-> FALSE, ptr |-> FALSE]
LookupPlaces == {"none", "waiting", "origin", "org", "ptr", "applying", "leaving"}

AnnotatorInit ==
  /\ hop = [i \in TTLs |-> EmptyHop]
  /\ known = [a \in IPs |-> Nothing]
  /\ inflight = {} /\ held = {}
  /\ lookup = [c \in IPs |-> "none"]
  /\ got = [c \in IPs |-> Nothing]
  /\ round = [i \in TTLs |-> Resting]
  /\ asnCache = [a \in IPs |-> "none"]
  /\ cancelled = FALSE /\ pstopped = "no" /\ closing = "open"

-----------------------------------------------------------------------------
(* Recording a hop.                                                        *)

\* HopStats.annotate: another responder drops what was known of the old one;
\* an empty value leaves the field.
Annotated(h, ip, asn) ==
  [ip |-> ip, asn |-> IF asn # No THEN asn ELSE IF h.ip = ip THEN h.asn ELSE No]

\* cached
Cached(ip) == IF known[ip].asn THEN ip ELSE No

\* A hop replied, in discovery or in a round: what is known is read first.
Reply(i, ip) ==
  /\ closing = "open" /\ round[i].at = "idle"
  /\ round' = [round EXCEPT ![i] = [at |-> "recording", ip |-> ip, asn |-> Cached(ip)]]
  /\ UNCHANGED <<hop, known, inflight, held, lookup, got, asnCache, ends>>

\* SetIPAnnotated, RecordReplyAnnotated; a reset may have taken the slot away
\* (hopAt is nil) until the next discovery.
RecordReply(i) ==
  /\ round[i].at = "recording"
  /\ \/ hop' = [hop EXCEPT ![i] = Annotated(@, round[i].ip, round[i].asn)]
     \/ hop[i] = EmptyHop /\ UNCHANGED hop
  /\ round' = [round EXCEPT ![i].at = "noting"]
  /\ UNCHANGED <<known, inflight, held, lookup, got, asnCache, ends>>

\* note: unless a lookup runs, or the result is complete or not yet due for a
\* retry (the first lookup is due at once).
Note(i) ==
  LET ip == round[i].ip IN
  /\ round[i].at = "noting"
  /\ \/ /\ closing = "open" /\ ip \notin inflight /\ ~Complete(ip)
        /\ inflight' = inflight \cup {ip}
        /\ lookup' = [lookup EXCEPT ![ip] = "waiting"]
     \/ UNCHANGED <<inflight, lookup>>
  /\ round' = [round EXCEPT ![i] = Resting]
  /\ UNCHANGED <<hop, known, held, got, asnCache, ends>>

\* A reset or a shorter route clears hops under the annotator.
ClearHop(i) ==
  /\ closing = "open"
  /\ hop' = [hop EXCEPT ![i] = EmptyHop]
  /\ UNCHANGED <<known, inflight, held, lookup, got, round, asnCache, ends>>

-----------------------------------------------------------------------------
(* A lookup, which the end of its context or of the pinger cuts short.     *)

\* What cuts a query short: its context derives from both.
Aborted == pstopped = "cancelled" \/ cancelled

\* What lookupBoundedContext and getASNInfoContext ask for when a query is back.
Noticed == pstopped # "no" \/ cancelled

Goes(c, place) == lookup' = [lookup EXCEPT ![c] = place]

Acquire(c) ==
  /\ lookup[c] = "waiting" /\ Cardinality(held) < MaxLookups
  /\ held' = held \cup {c}
  /\ Goes(c, IF cancelled THEN "leaving" ELSE "origin")
  /\ UNCHANGED <<hop, known, inflight, got, round, asnCache, ends>>
WaitCancelled(c) ==
  /\ lookup[c] = "waiting" /\ cancelled
  /\ Goes(c, "leaving")
  /\ UNCHANGED <<hop, known, inflight, held, got, round, asnCache, ends>>

\* getASNInfoContext up to the origin query: the cache, or an answer, or none.
Origin(c) ==
  /\ lookup[c] = "origin"
  /\ \/ /\ asnCache[c] # "none"
        /\ got' = [got EXCEPT ![c].asn = TRUE]
        /\ Goes(c, "ptr")
     \/ /\ asnCache[c] = "none"
        /\ Goes(c, "ptr") \/ (~Noticed /\ Goes(c, "org"))
        /\ UNCHANGED got
  /\ UNCHANGED <<hop, known, inflight, held, round, asnCache, ends>>

\* The organisation query is answered or cut short.  Nothing is recorded if an
\* end is noticed now, be it that an answer came before.
CachesASN == ~Noticed
Org(c) ==
  /\ lookup[c] = "org"
  /\ \E cut \in BOOLEAN :
       /\ cut => Aborted
       /\ asnCache' = IF CachesASN
                      THEN [asnCache EXCEPT ![c] = IF cut THEN "cut" ELSE "whole"]
                      ELSE asnCache
  /\ got' = [got EXCEPT ![c].asn = CachesASN]
  /\ Goes(c, "ptr")
  /\ UNCHANGED <<hop, known, inflight, held, round, ends>>

\* getPTRContext: a name (of ptrCache, even after the end, or an answer) or none.
PTR(c) ==
  /\ lookup[c] = "ptr"
  /\ \E name \in BOOLEAN : got' = [got EXCEPT ![c].ptr = name]
  /\ Goes(c, "applying")
  /\ UNCHANGED <<hop, known, inflight, held, round, asnCache, ends>>

\* rememberLocked: a retry keeps what it did not find again.
Merged(c) == [asn |-> got[c].asn \/ known[c].asn, ptr |-> got[c].ptr \/ known[c].ptr]

\* AnnotateIP: only the hops that still answer from the address.
HopsOf(c) == {i \in TTLs : hop[i].ip = c}
Apply(c) ==
  /\ lookup[c] = "applying"
  /\ IF closing # "open" \/ cancelled
     THEN UNCHANGED <<known, hop>>
     ELSE /\ known' = [known EXCEPT ![c] = Merged(c)]
          /\ hop' = [i \in TTLs |->
                IF i \in HopsOf(c) /\ Merged(c).asn THEN Annotated(hop[i], hop[i].ip, c)
                ELSE hop[i]]
  /\ got' = [got EXCEPT ![c] = Nothing]
  /\ Goes(c, "leaving")
  /\ UNCHANGED <<inflight, held, round, asnCache, ends>>

\* The deferred release and the deferred delete.
Released(c) == held \ {c}
Leave(c) ==
  /\ lookup[c] = "leaving"
  /\ held' = Released(c)
  /\ inflight' = inflight \ {c}
  /\ Goes(c, "none")
  /\ UNCHANGED <<hop, known, got, round, asnCache, ends>>

LookupStep(c) == WaitCancelled(c) \/ Origin(c) \/ Org(c) \/ PTR(c) \/ Apply(c) \/ Leave(c)

-----------------------------------------------------------------------------
(* The end: the target's context, the pinger, and close once the engine's  *)
(* goroutine has joined its rounds.                                        *)

Cancel ==
  /\ ~cancelled
  /\ cancelled' = TRUE
  /\ UNCHANGED <<hop, known, inflight, held, lookup, got, round, asnCache, pstopped, closing>>
\* Stop: done is closed, and then the context cancelled that cuts queries short.
PingerStops ==
  /\ \/ pstopped = "no" /\ pstopped' = "done"
     \/ pstopped = "done" /\ pstopped' = "cancelled"
  /\ UNCHANGED <<hop, known, inflight, held, lookup, got, round, asnCache, cancelled, closing>>
Close ==
  /\ closing = "open" /\ cancelled
  /\ \A i \in TTLs : round[i].at = "idle"
  /\ closing' = "waiting"
  /\ UNCHANGED <<hop, known, inflight, held, lookup, got, round, asnCache, cancelled, pstopped>>
NeverWaits == TRUE
AllGone == \A c \in IPs : lookup[c] = "none"
Closed ==
  /\ closing = "waiting"
  /\ AllGone
  /\ closing' = "closed"
  /\ UNCHANGED <<hop, known, inflight, held, lookup, got, round, asnCache, cancelled, pstopped>>

AnnotatorStep ==
  \/ \E i \in TTLs : (\E ip \in IPs : Reply(i, ip)) \/ RecordReply(i) \/ Note(i) \/ ClearHop(i)
  \/ \E c \in IPs : Acquire(c) \/ LookupStep(c)
  \/ Cancel \/ PingerStops \/ Close \/ Closed

-----------------------------------------------------------------------------

AnnotatorTypeOK ==
  /\ hop \in [TTLs -> [ip : IPs \cup {No}, asn : IPs \cup {No}]]
  /\ known \in [IPs -> [asn : BOOLEAN, ptr : BOOLEAN]]
  /\ inflight \subseteq IPs /\ held \subseteq inflight
  /\ Cardinality(held) <= MaxLookups
  /\ lookup \in [IPs -> LookupPlaces]
  /\ got \in [IPs -> [asn : BOOLEAN, ptr : BOOLEAN]]
  /\ round \in [TTLs -> [at : {"idle", "recording", "noting"},
                          ip : IPs \cup {No}, asn : IPs \cup {No}]]
  /\ asnCache \in [IPs -> {"none", "whole", "cut"}]
  /\ cancelled \in BOOLEAN /\ pstopped \in {"no", "done", "cancelled"}
  /\ closing \in {"open", "waiting", "closed"}

\* A hop never shows another router's AS or name, however replies, a late
\* lookup and a reset interleave. (HopStats.annotate, AnnotateIP.)
OnlyOwnAnnotations ==
  \A i \in TTLs : hop[i].asn \in {No, hop[i].ip}

\* A retry that finds less never takes back what an earlier lookup found, so a
\* label does not flicker with the resolver. (The comment of rememberLocked.)
FoundStays ==
  \A a \in IPs : /\ known[a].asn => known'[a].asn
                 /\ known[a].ptr => known'[a].ptr

\* No record that a cancellation or the end of the pinger cut short is cached
\* for every later lookup of that address: who cancels the pinger's context has
\* closed done before. (The comment in getASNInfoContext; Stop.)
CacheIsWhole == \A a \in IPs : asnCache[a] # "cut"

\* The addresses are alike, so the two below are stated of one of them.

\* What a lookup found reaches every hop that keeps answering from the address,
\* even when the answer was recorded between the lookup's read and its write.
KnownIsShown ==
  known[AnIP].asn
    ~> ((\A i \in TTLs : hop[i].ip = AnIP => hop[i].asn # No) \/ cancelled)

\* Every lookup ends and gives its slot back, so that none waits forever.
LookupsEnd == AnIP \in inflight ~> AnIP \notin inflight

\* After close nothing is annotated and no lookup calls the prober.
ClosedRests ==
  closing = "closed" =>
    hop' = hop /\ known' = known /\ \A a \in IPs : lookup'[a] = lookup[a]
=============================================================================
