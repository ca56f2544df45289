-------------------------- MODULE DecisionLedgers --------------------------
(***************************************************************************)
(* The two ledgers a persisted decision is written to, one after the other *)
(* (persistCiDecisionResult, routes/ci.ts): its trace in the decision's    *)
(* own transaction (TraceLedger), then its lifecycle in the governance     *)
(* chain of its correlation, in a second transaction (PglLedger). When the *)
(* second is rolled back a retry may append the lifecycle later. Error     *)
(* events are appended for requests that were never persisted.             *)
(***************************************************************************)
EXTENDS TraceLedger, PglLedger

CONSTANT Of   \* writer -> the frame whose lifecycle it appends, None for an error event

ASSUME LedgersAssumption == Of \in [Writers -> Frames \cup {None}]

VARIABLE together   \* history: pairs of frames whose requests were in progress together

vars == <<traceVars, pglVars, together>>

Init == TraceInit /\ PglInit /\ together = {}

Ended(w)      == pc[w] \in {"done", "refused", "rolledback"}
Lifecycles(f) == {w \in Writers : Of[w] = f}

\* A frame's request is in progress, retries included, from the first statement
\* of its transaction until its lifecycle is appended or none of its writers is left.
InProgress ==
  Open \cup {f \in traces : /\ \E w \in Lifecycles(f) : ~Ended(w)
                            /\ \A w \in Lifecycles(f) : pc[w] # "done"}

Meet(f) == together' = together \cup {{f, g} : g \in InProgress}

\* A lifecycle follows its trace, and a retry follows an append rolled back.
Follows(w) ==
  Of[w] = None \/ (Of[w] \in traces /\ \A v \in Lifecycles(Of[w]) \ {w} :
                                          pc[v] \in {"start", "rolledback"})

TraceStep(f) ==
  /\ \/ BeginTrace(f) /\ Meet(f)
     \/ (ReadLatest(f) \/ ReserveSeq(f) \/ CommitTrace(f) \/ AbortTrace(f)) /\ UNCHANGED together
  /\ UNCHANGED pglVars

AppendStep(w) == Follows(w) /\ Step(w) /\ UNCHANGED <<traceVars, together>>

RollBackStep(w) == Follows(w) /\ RollBack(w) /\ UNCHANGED <<traceVars, together>>

Next ==
  \/ \E f \in Frames : TraceStep(f)
  \/ \E w \in Writers : AppendStep(w) \/ RollBackStep(w)

\* The database serves the statement of every open transaction that can proceed,
\* and the request goes on to its second transaction.
Fairness == \A w \in Writers : WF_vars(AppendStep(w))

Spec     == Init /\ [][Next]_vars
FairSpec == Spec /\ Fairness

-----------------------------------------------------------------------------
\* Types of both ledgers and of the open transactions.
TypeOK == TraceTypeOK /\ PglTypeOK /\ together \subseteq SUBSET Frames

\* The two ledgers order decisions alike: a correlation's chain has a decision's
\* lifecycle before that of one with an older trace only when the two requests
\* were in progress together.
OrderNeedsOverlap ==
  \A v, w \in Writers :
    /\ pc[v] = "done" /\ pc[w] = "done" /\ Corr[v] = Corr[w]
    /\ None \notin {Of[v], Of[w]} /\ Of[v] # Of[w]
    /\ seen[v].next < seen[w].next
    /\ seq[Of[w]] < seq[Of[v]]
    => {Of[v], Of[w]} \in together

\* Waiting for the head row never lasts: once a trace is committed, the append of
\* its lifecycle (and any append that has begun) commits or is rolled back.
EventuallyEnds ==
  \A w \in Writers : Follows(w) /\ ~Ended(w) ~> Ended(w) \/ ~Follows(w)
=============================================================================
