------------------------------ MODULE PglAudit ------------------------------
(***************************************************************************)
(* How a decision's governance lifecycle reaches the ledger: the request   *)
(* appends it after its decision is persisted (persistCiDecisionResult,    *)
(* routes/ci.ts); when that transaction fails a scenario-planning request  *)
(* leaves a row in pgl.audit_retries, which the retry workers claim and    *)
(* replay (processPglAuditRetryBatch, lib/pgl/service.ts).                 *)
(*                                                                         *)
(* One append of the three events and the attestation is one transaction   *)
(* (module PglLedger) and one step here. A statement can fail after it was *)
(* applied: the caller then takes for failed what was done.                *)
(***************************************************************************)
EXTENDS Integers, FiniteSets

CONSTANTS
  Frames,     \* decision frames, one per persisted decision
  Scenario,   \* those decided in scenario_planning mode
  Workers,    \* processes that run the retry cycle
  BatchSize,  \* PGL_AUDIT_RETRY_BATCH_SIZE
  MaxFaults,  \* bound: statements that fail
  MaxCrashes, \* bound: processes that die
  None

ASSUME AuditAssumption ==
  /\ Scenario \subseteq Frames
  /\ None \notin Frames
  /\ BatchSize \in Nat \ {0}
  /\ MaxFaults \in Nat /\ MaxCrashes \in Nat

VARIABLES
  request,     \* frame -> where its request stands
  retry,       \* frame -> the status of its row in pgl.audit_retries
  due,         \* frames whose next_attempt_at has passed
  pc,          \* worker -> where its batch stands
  claimed,     \* worker -> rows of its batch it has not finished
  cur,         \* worker -> the row in hand
  lifecycles,  \* frame -> lifecycles of it in the ledger
  doubts,      \* history: frame -> lifecycles whose success was not learnt
  stranded,    \* history: rows a dead or aborted batch had claimed
  faults, crashes

store == <<lifecycles, doubts>>
batch == <<pc, claimed, cur>>
vars  == <<request, retry, due, batch, store, stranded, faults, crashes>>

RequestStates == {"deciding", "scheduling", "recorded", "scheduled", "unscheduled",
                  "refused", "gone"}
RetryStates   == {"absent", "PENDING", "PROCESSING", "FAILED", "COMPLETED"}

Init ==
  /\ request = [f \in Frames |-> "deciding"]
  /\ retry = [f \in Frames |-> "absent"]
  /\ due = {}
  /\ pc = [w \in Workers |-> "idle"]
  /\ claimed = [w \in Workers |-> {}]
  /\ cur = [w \in Workers |-> None]
  /\ lifecycles = [f \in Frames |-> 0]
  /\ doubts = [f \in Frames |-> 0]
  /\ stranded = {}
  /\ faults = 0
  /\ crashes = 0

Fault == faults < MaxFaults /\ faults' = faults + 1

\* persistPglDecisionLifecycle commits, or fails; a failed commit may have been
\* applied all the same.
Appended(f)   == lifecycles' = [lifecycles EXCEPT ![f] = @ + 1] /\ UNCHANGED doubts
Unlearnt(f)   == /\ lifecycles' = [lifecycles EXCEPT ![f] = @ + 1]
                 /\ doubts' = [doubts EXCEPT ![f] = @ + 1]

-----------------------------------------------------------------------------
\* The request.
Record(f) ==
  /\ request[f] = "deciding"
  /\ Appended(f)
  /\ request' = [request EXCEPT ![f] = "recorded"]
  /\ UNCHANGED <<retry, due, batch, stranded, faults, crashes>>

\* Only scenario planning may go on without its lifecycle; any other request is
\* answered with PGL_AUDIT_UNAVAILABLE_DECISION_PERSISTED.
RecordFails(f) ==
  /\ request[f] = "deciding"
  /\ Fault
  /\ Unlearnt(f) \/ UNCHANGED store
  /\ request' = [request EXCEPT ![f] = IF f \in Scenario THEN "scheduling" ELSE "refused"]
  /\ UNCHANGED <<retry, due, batch, stranded, crashes>>

\* enqueuePglDecisionAuditRetry: inserted, or reset to PENDING, and due now.
Schedule(f) ==
  /\ request[f] = "scheduling"
  /\ retry' = [retry EXCEPT ![f] = "PENDING"]
  /\ due' = due \cup {f}
  /\ request' = [request EXCEPT ![f] = "scheduled"]
  /\ UNCHANGED <<batch, store, stranded, faults, crashes>>

ScheduleFails(f) ==
  /\ request[f] = "scheduling"
  /\ Fault
  /\ \/ retry' = [retry EXCEPT ![f] = "PENDING"] /\ due' = due \cup {f}
     \/ UNCHANGED <<retry, due>>
  /\ request' = [request EXCEPT ![f] = "unscheduled"]
  /\ UNCHANGED <<batch, store, stranded, crashes>>

RequestCrash(f) ==
  /\ request[f] \in {"deciding", "scheduling"}
  /\ crashes < MaxCrashes /\ crashes' = crashes + 1
  /\ request' = [request EXCEPT ![f] = "gone"]
  /\ UNCHANGED <<retry, due, batch, store, stranded, faults>>

-----------------------------------------------------------------------------
\* The retry worker.
BecomeDue(f) ==
  /\ retry[f] = "FAILED" /\ f \notin due
  /\ due' = due \cup {f}
  /\ UNCHANGED <<request, retry, batch, store, stranded, faults, crashes>>

\* Mutants of Claimable: whatever is not finished, PROCESSING rows included; only
\* rows that were never tried.
Untried == {f \in due : retry[f] = "PENDING"}
Unfinished == {f \in due : retry[f] \in {"PENDING", "PROCESSING", "FAILED"}}

Claimable == {f \in due : retry[f] \in {"PENDING", "FAILED"}}

\* The claim is one statement: SELECT ... FOR UPDATE SKIP LOCKED and UPDATE.
Claim(w) ==
  /\ pc[w] = "idle"
  /\ \E S \in SUBSET Claimable :
       /\ S # {}
       /\ Cardinality(S) <= BatchSize
       /\ S # Claimable => Cardinality(S) = BatchSize
       /\ claimed' = [claimed EXCEPT ![w] = S]
       /\ retry' = [f \in Frames |-> IF f \in S THEN "PROCESSING" ELSE retry[f]]
  /\ pc' = [pc EXCEPT ![w] = "next"]
  /\ UNCHANGED <<request, due, cur, store, stranded, faults, crashes>>

Replay(w, f) ==
  /\ pc[w] = "next" /\ f \in claimed[w]
  /\ Appended(f)
  /\ cur' = [cur EXCEPT ![w] = f]
  /\ pc' = [pc EXCEPT ![w] = "completing"]
  /\ UNCHANGED <<request, retry, due, claimed, stranded, faults, crashes>>

ReplayFails(w, f) ==
  /\ pc[w] = "next" /\ f \in claimed[w]
  /\ Fault
  /\ Unlearnt(f) \/ UNCHANGED store
  /\ cur' = [cur EXCEPT ![w] = f]
  /\ pc' = [pc EXCEPT ![w] = "failing"]
  /\ UNCHANGED <<request, retry, due, claimed, stranded, crashes>>

\* The row in hand is finished: the loop takes the next one.
Proceed(w) ==
  /\ claimed' = [claimed EXCEPT ![w] = @ \ {cur[w]}]
  /\ cur' = [cur EXCEPT ![w] = None]
  /\ pc' = [pc EXCEPT ![w] = "next"]
  /\ UNCHANGED <<request, store, stranded, faults, crashes>>

\* A second statement, outside the replay's transaction.
Complete(w) ==
  /\ pc[w] = "completing"
  /\ retry' = [retry EXCEPT ![cur[w]] = "COMPLETED"]
  /\ UNCHANGED due
  /\ Proceed(w)

CompleteFails(w) ==
  /\ pc[w] = "completing"
  /\ Fault
  /\ retry' \in {retry, [retry EXCEPT ![cur[w]] = "COMPLETED"]}
  /\ doubts' = [doubts EXCEPT ![cur[w]] = @ + 1]
  /\ pc' = [pc EXCEPT ![w] = "failing"]
  /\ UNCHANGED <<request, due, claimed, cur, lifecycles, stranded, crashes>>

MarkFailed(w) ==
  /\ pc[w] = "failing"
  /\ retry' = [retry EXCEPT ![cur[w]] = "FAILED"]
  /\ due' = due \ {cur[w]}
  /\ Proceed(w)

\* The batch is over, or gone with its process or an exception.
Leave(w) ==
  /\ pc' = [pc EXCEPT ![w] = "idle"]
  /\ claimed' = [claimed EXCEPT ![w] = {}]
  /\ cur' = [cur EXCEPT ![w] = None]
  /\ UNCHANGED <<request, store>>

\* Nothing catches a failure of the catch block: the rest of the batch stays
\* PROCESSING.
MarkFails(w) ==
  /\ pc[w] = "failing"
  /\ Fault
  /\ \/ retry' = [retry EXCEPT ![cur[w]] = "FAILED"] /\ due' = due \ {cur[w]}
     \/ UNCHANGED <<retry, due>>
  /\ stranded' = stranded \cup claimed[w]
  /\ Leave(w)
  /\ UNCHANGED crashes

Finish(w) ==
  /\ pc[w] = "next" /\ claimed[w] = {}
  /\ Leave(w)
  /\ UNCHANGED <<retry, due, stranded, faults, crashes>>

WorkerCrash(w) ==
  /\ pc[w] # "idle"
  /\ crashes < MaxCrashes /\ crashes' = crashes + 1
  /\ stranded' = stranded \cup claimed[w]
  /\ Leave(w)
  /\ UNCHANGED <<retry, due, faults>>

-----------------------------------------------------------------------------
Serve(f) == Record(f) \/ Schedule(f)
Work(w)  == (\E f \in claimed[w] : Replay(w, f)) \/ Complete(w) \/ MarkFailed(w) \/ Finish(w)

Next ==
  \/ \E f \in Frames : \/ Serve(f) \/ RecordFails(f) \/ ScheduleFails(f)
                       \/ RequestCrash(f) \/ BecomeDue(f)
  \/ \E w \in Workers : \/ Claim(w) \/ Work(w) \/ CompleteFails(w) \/ MarkFails(w)
                        \/ WorkerCrash(w) \/ \E f \in claimed[w] : ReplayFails(w, f)

\* Requests and batches go on, cron starts a batch on every idle worker, time
\* passes.
Fairness ==
  /\ \A f \in Frames : WF_vars(Serve(f)) /\ WF_vars(BecomeDue(f))
  /\ \A w \in Workers : WF_vars(Work(w)) /\ WF_vars(Claim(w))

Spec     == Init /\ [][Next]_vars
FairSpec == Spec /\ Fairness

-----------------------------------------------------------------------------
\* Types of the queue, the requests and the batches.
TypeOK ==
  /\ request \in [Frames -> RequestStates]
  /\ retry \in [Frames -> RetryStates]
  /\ due \subseteq Frames
  /\ pc \in [Workers -> {"idle", "next", "completing", "failing"}]
  /\ claimed \in [Workers -> SUBSET Frames]
  /\ cur \in [Workers -> Frames \cup {None}]
  /\ lifecycles \in [Frames -> Nat]
  /\ doubts \in [Frames -> Nat]
  /\ stranded \subseteq Frames
  /\ faults \in Nat /\ crashes \in Nat

\* A decision's lifecycle enters the append-only ledger a second time only when
\* the success of an earlier append was not learnt: overlapping workers, crashes
\* and requeues by themselves never record a decision twice.
DuplicatesExplained == \A f \in Frames : lifecycles[f] <= 1 + doubts[f]

\* The answer PGL_AUDIT_RETRY_SCHEDULED is kept: the lifecycle gets into the
\* ledger, unless the batch that claimed it died.
ScheduledRecorded ==
  \A f \in Frames :
    (request[f] = "scheduled") ~> (lifecycles[f] > 0 \/ f \in stranded)
=============================================================================
