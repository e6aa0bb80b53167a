----------------------------- MODULE Background -----------------------------
(***************************************************************************)
(* The two services that measure and look up beside the probes: the        *)
(* checkers and the hop annotator of a traced target.  They share no       *)
(* state, so one behaviour is about one of them ("part").                  *)
(***************************************************************************)
EXTENDS Checkers, HopAnnotator

VARIABLE part
vars == <<part, cvars, avars>>

Init ==
  /\ part \in {"checkers", "annotator"}
  /\ CheckersInit
  /\ AnnotatorInit

InCheckers(A) == part = "checkers" /\ A /\ UNCHANGED <<part, avars>>
InAnnotator(A) == part = "annotator" /\ A /\ UNCHANGED <<part, cvars>>

Next == InCheckers(CheckersStep) \/ InAnnotator(AnnotatorStep)

\* Each goroutine keeps running; dials, reads and DNS queries are bounded by
\* timeouts; the ticker passes. A check that was cancelled
\* returns at once, so the ticker has not fired again and the select takes Done
\* (strong fairness of LoopLeaves). A full sem serves its senders in order (strong
\* fairness of Acquire). The supervisor joins what it cancelled.
Fairness ==
  /\ \A t \in Targets : WF_vars(InCheckers(Removed(t)))
  /\ WF_vars(InCheckers(Wait))
  /\ \A l \in Loops :
       /\ WF_vars(InCheckers(LoopAdvances(l)))
       /\ WF_vars(InCheckers(LoopStep(l)))
       /\ SF_vars(InCheckers(LoopLeaves(l)))
  /\ \A i \in TTLs :
       /\ WF_vars(InAnnotator(\E a \in IPs : Reply(i, a)))
       /\ WF_vars(InAnnotator(RecordReply(i) \/ Note(i)))
  /\ \A c \in IPs :
       /\ WF_vars(InAnnotator(LookupStep(c)))
       /\ SF_vars(InAnnotator(Acquire(c)))
  /\ WF_vars(InAnnotator(Close \/ Closed))

Spec == Init /\ [][Next]_vars
FairSpec == Spec /\ Fairness

\* Every variable of the services keeps to its values.
TypeOK == CheckersTypeOK /\ AnnotatorTypeOK

\* What is recorded was really measured or found: results of completed checks,
\* told when they change, and labels that belong to the address of their hop.
RecordsAreReal ==
  /\ TypeOK
  /\ ShutdownIsNoFailure /\ ChangesAreTold
  /\ OnlyOwnAnnotations /\ CacheIsWhole

\* A removed target, an ended session and a closed annotator rest: nothing that
\* was under way is recorded into them. And no lookup takes back what is known.
EndedIsQuiet == [][RemovedRests /\ ClosedRests /\ FoundStays]_vars

\* Both services do what they were asked: operations return, first results and
\* annotations come, lookups end.
ServicesSettle ==
  /\ OperationsReturn /\ FirstResultComes
  /\ KnownIsShown /\ LookupsEnd
=============================================================================
