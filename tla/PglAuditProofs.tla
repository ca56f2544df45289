--------------------------- MODULE PglAuditProofs ---------------------------
(***************************************************************************)
(* The governance audit retry for any number of decisions, workers, faults *)
(* and crashes. A row is claimed by one worker at a time and is not waiting*)
(* while it is claimed; and a decision that may still be appended has no   *)
(* lifecycle in the ledger but those whose success was not learnt.         *)
(***************************************************************************)
EXTENDS PglAudit, TLAPS

\* A row exists only once its request has tried to schedule it.
AbsentInv ==
  \A f \in Frames : request[f] \in {"deciding", "scheduling"} => retry[f] = "absent"

\* The rows of a batch are its own, and no claim query finds them.
ClaimInv ==
  /\ \A w, v \in Workers : w # v => claimed[w] \cap claimed[v] = {}
  /\ \A w \in Workers : \A f \in claimed[w] : retry[f] \in {"PROCESSING", "COMPLETED"}
  /\ \A w \in Workers : pc[w] \in {"completing", "failing"} => cur[w] \in claimed[w]

\* Somebody is still going to append f.
Awaited(f) ==
  \/ request[f] \in {"deciding", "scheduling"}
  \/ retry[f] \in {"PENDING", "FAILED"}
  \/ \E w \in Workers : f \in claimed[w] /\ ~(pc[w] = "completing" /\ cur[w] = f)

LedgerInv ==
  \A f \in Frames : /\ lifecycles[f] <= 1 + doubts[f]
                    /\ Awaited(f) => lifecycles[f] <= doubts[f]

AuditInv == TypeOK /\ AbsentInv /\ ClaimInv /\ LedgerInv

LEMMA AuditInitially == Init => AuditInv
<1> SUFFICES ASSUME Init PROVE AuditInv
  OBVIOUS
<1> USE DEF Init
<1>1. TypeOK
  BY DEF TypeOK, RequestStates, RetryStates
<1>2. AbsentInv /\ ClaimInv
  BY DEF AbsentInv, ClaimInv
<1>3. LedgerInv
  BY DEF LedgerInv
<1> QED
  BY <1>1, <1>2, <1>3 DEF AuditInv

(***************************************************************************)
(* Steps of the request.                                                   *)
(***************************************************************************)
LEMMA RequestKept ==
  ASSUME AuditInv, NEW f \in Frames,
         Record(f) \/ RecordFails(f) \/ Schedule(f) \/ ScheduleFails(f) \/ RequestCrash(f)
  PROVE  AuditInv'
<1> USE DEF AuditInv
<1>1. TypeOK'
  BY DEF TypeOK, RequestStates, RetryStates, Record, RecordFails, Schedule, ScheduleFails,
         RequestCrash, Appended, Unlearnt, Fault, batch, store
<1>2. AbsentInv' /\ request[f] \in {"deciding", "scheduling"} /\ retry[f] = "absent"
  BY DEF TypeOK, AbsentInv, Record, RecordFails, Schedule, ScheduleFails, RequestCrash
<1>3. ClaimInv'
  BY <1>2 DEF TypeOK, ClaimInv, Record, RecordFails, Schedule, ScheduleFails, RequestCrash, batch
<1>4. LedgerInv'
  <2> SUFFICES ASSUME NEW g \in Frames
               PROVE  /\ lifecycles'[g] <= 1 + doubts'[g]
                      /\ Awaited(g)' => lifecycles'[g] <= doubts'[g]
    BY DEF LedgerInv
  <2>1. lifecycles[f] \in Nat /\ doubts[f] \in Nat /\ lifecycles[f] <= doubts[f]
    BY <1>2 DEF TypeOK, LedgerInv, Awaited
  <2>2. CASE g # f
    <3>1. lifecycles'[g] = lifecycles[g] /\ doubts'[g] = doubts[g]
      BY <2>2 DEF TypeOK, Record, RecordFails, Schedule, ScheduleFails, RequestCrash,
                  Appended, Unlearnt, store
    <3>2. Awaited(g)' => Awaited(g)
      BY <2>2 DEF TypeOK, Record, RecordFails, Schedule, ScheduleFails, RequestCrash,
                  Awaited, batch
    <3> QED
      BY <3>1, <3>2 DEF LedgerInv
  <2>3. CASE g = f /\ Record(f)
    <3>1. lifecycles'[f] = lifecycles[f] + 1 /\ doubts'[f] = doubts[f]
      BY <2>3 DEF TypeOK, Record, Appended
    <3>2. ~Awaited(f)'
      BY <1>2, <2>3 DEF TypeOK, Record, Awaited, ClaimInv, batch
    <3> QED
      BY <2>1, <2>3, <3>1, <3>2
  <2>4. CASE g = f /\ ~Record(f)
    <3>1. /\ lifecycles'[f] \in Nat /\ doubts'[f] \in Nat
          /\ lifecycles'[f] <= doubts'[f]
      BY <2>1, <2>4 DEF TypeOK, RecordFails, Schedule, ScheduleFails, RequestCrash, Unlearnt, store
    <3> QED
      BY <2>4, <3>1
  <2> QED
    BY <2>2, <2>3, <2>4
<1> QED
  BY <1>1, <1>2, <1>3, <1>4

LEMMA BecomeDueKept ==
  ASSUME AuditInv, NEW f \in Frames, BecomeDue(f)
  PROVE  AuditInv'
BY DEF AuditInv, TypeOK, AbsentInv, ClaimInv, LedgerInv, Awaited, BecomeDue, batch, store

(***************************************************************************)
(* Steps of a worker.                                                      *)
(***************************************************************************)
LEMMA ClaimKept ==
  ASSUME AuditInv, NEW w \in Workers, Claim(w)
  PROVE  AuditInv'
<1> USE DEF AuditInv
<1>1. PICK S \in SUBSET Claimable :
        /\ claimed' = [claimed EXCEPT ![w] = S]
        /\ retry' = [f \in Frames |-> IF f \in S THEN "PROCESSING" ELSE retry[f]]
  BY DEF Claim
<1>2. S \subseteq Frames /\ \A f \in S : retry[f] \in {"PENDING", "FAILED"}
  BY DEF Claimable, TypeOK
<1>3. TypeOK'
  BY <1>1, <1>2 DEF TypeOK, RetryStates, Claim, store
<1>4. AbsentInv'
  BY <1>1, <1>2 DEF AbsentInv, Claim
<1>5. ClaimInv'
  BY <1>1, <1>2 DEF TypeOK, ClaimInv, Claim
<1>6. \A f \in Frames : Awaited(f)' => Awaited(f)
  <2> SUFFICES ASSUME NEW f \in Frames, Awaited(f)' PROVE Awaited(f)
    OBVIOUS
  <2>1. CASE f \in S
    BY <1>2, <2>1 DEF Awaited
  <2>2. CASE f \notin S
    BY <1>1, <2>2 DEF TypeOK, Awaited, Claim
  <2> QED
    BY <2>1, <2>2
<1>7. LedgerInv'
  BY <1>6 DEF LedgerInv, Claim, store
<1> QED
  BY <1>3, <1>4, <1>5, <1>7

LEMMA ReplayKept ==
  ASSUME AuditInv, NEW w \in Workers, NEW f \in claimed[w], Replay(w, f) \/ ReplayFails(w, f)
  PROVE  AuditInv'
<1> USE DEF AuditInv
<1>1. f \in Frames /\ pc[w] = "next"
  BY DEF TypeOK, Replay, ReplayFails
<1>2. TypeOK'
  BY <1>1 DEF TypeOK, Replay, ReplayFails, Appended, Unlearnt, Fault, store
<1>3. AbsentInv' /\ ClaimInv'
  BY <1>1 DEF TypeOK, AbsentInv, ClaimInv, Replay, ReplayFails
<1>4. lifecycles[f] \in Nat /\ doubts[f] \in Nat /\ lifecycles[f] <= doubts[f]
  BY <1>1 DEF TypeOK, LedgerInv, Awaited
<1>5. \A g \in Frames \ {f} : /\ lifecycles'[g] = lifecycles[g] /\ doubts'[g] = doubts[g]
                              /\ Awaited(g)' => Awaited(g)
  BY <1>1 DEF TypeOK, Replay, ReplayFails, Appended, Unlearnt, store, Awaited
<1>6. /\ lifecycles'[f] <= 1 + doubts'[f]
      /\ Awaited(f)' => lifecycles'[f] <= doubts'[f]
  <2>1. CASE Replay(w, f)
    <3>1. lifecycles'[f] = lifecycles[f] + 1 /\ doubts'[f] = doubts[f]
      BY <1>1, <2>1 DEF TypeOK, Replay, Appended
    <3>2. ~Awaited(f)'
      BY <1>1, <2>1 DEF TypeOK, AbsentInv, ClaimInv, Replay, Awaited
    <3> QED
      BY <1>4, <3>1, <3>2
  <2>2. CASE ReplayFails(w, f)
    <3>1. /\ lifecycles'[f] \in Nat /\ doubts'[f] \in Nat
          /\ lifecycles'[f] <= doubts'[f]
      BY <1>1, <1>4, <2>2 DEF TypeOK, ReplayFails, Unlearnt, store
    <3> QED
      BY <3>1
  <2> QED
    BY <2>1, <2>2
<1>7. LedgerInv'
  BY <1>5, <1>6 DEF LedgerInv
<1> QED
  BY <1>2, <1>3, <1>7

\* The row in hand is marked and leaves the batch.
LEMMA MarkKept ==
  ASSUME AuditInv, NEW w \in Workers, Complete(w) \/ MarkFailed(w)
  PROVE  AuditInv'
<1> USE DEF AuditInv
<1>1. PICK f \in Frames : f = cur[w] /\ f \in claimed[w] /\ retry[f] # "absent"
  BY DEF TypeOK, ClaimInv, Complete, MarkFailed
<1>2. TypeOK'
  BY <1>1 DEF TypeOK, RetryStates, Complete, MarkFailed, Proceed, store
<1>3. AbsentInv'
  BY <1>1 DEF TypeOK, AbsentInv, Complete, MarkFailed, Proceed
<1>4. ClaimInv'
  BY <1>1 DEF TypeOK, ClaimInv, Complete, MarkFailed, Proceed
<1>5. \A g \in Frames \ {f} : Awaited(g)' => Awaited(g)
  BY <1>1 DEF TypeOK, Complete, MarkFailed, Proceed, Awaited
<1>6. Awaited(f)' => Awaited(f)
  <2>1. CASE MarkFailed(w)
    BY <1>1, <2>1 DEF Awaited, MarkFailed
  <2>2. CASE Complete(w)
    <3>1. /\ retry'[f] = "COMPLETED" /\ request'[f] = request[f]
          /\ claimed' = [claimed EXCEPT ![w] = @ \ {f}]
      BY <1>1, <2>2 DEF TypeOK, Complete, Proceed
    <3>2. request[f] \notin {"deciding", "scheduling"}
      BY <1>1 DEF AbsentInv
    <3>3. \A v \in Workers : f \notin claimed'[v]
      BY <1>1, <3>1 DEF TypeOK, ClaimInv
    <3> QED
      BY <3>1, <3>2, <3>3 DEF Awaited
  <2> QED
    BY <2>1, <2>2
<1>7. LedgerInv'
  <2>1. lifecycles' = lifecycles /\ doubts' = doubts
    BY DEF Complete, MarkFailed, Proceed, store
  <2>2. \A g \in Frames : Awaited(g)' => Awaited(g)
    BY <1>5, <1>6
  <2> QED
    BY <2>1, <2>2 DEF LedgerInv
<1> QED
  BY <1>2, <1>3, <1>4, <1>7

\* The replay was done, but its mark was not seen to be.
LEMMA CompleteFailsKept ==
  ASSUME AuditInv, NEW w \in Workers, CompleteFails(w)
  PROVE  AuditInv'
<1> USE DEF AuditInv
<1>1. PICK f \in Frames : f = cur[w] /\ f \in claimed[w] /\ retry[f] # "absent"
  BY DEF TypeOK, ClaimInv, CompleteFails
<1>2. TypeOK'
  BY <1>1 DEF TypeOK, RetryStates, CompleteFails, Fault
<1>3. AbsentInv' /\ ClaimInv'
  BY <1>1 DEF TypeOK, AbsentInv, ClaimInv, CompleteFails
<1>4. \A g \in Frames \ {f} : doubts'[g] = doubts[g] /\ (Awaited(g)' => Awaited(g))
  BY <1>1 DEF TypeOK, CompleteFails, Awaited
<1>5. doubts'[f] = doubts[f] + 1
  BY <1>1 DEF TypeOK, CompleteFails
<1>6. lifecycles[f] \in Nat /\ doubts[f] \in Nat /\ lifecycles[f] <= 1 + doubts[f]
  BY <1>1 DEF TypeOK, LedgerInv
<1>7. LedgerInv'
  BY <1>4, <1>5, <1>6 DEF LedgerInv, CompleteFails
<1> QED
  BY <1>2, <1>3, <1>7

\* The batch is left, with what it had not finished.
LEMMA LeaveKept ==
  ASSUME AuditInv, NEW w \in Workers, MarkFails(w) \/ Finish(w) \/ WorkerCrash(w)
  PROVE  AuditInv'
<1> USE DEF AuditInv
<1>1. /\ TypeOK'
      /\ MarkFails(w) => cur[w] \in claimed[w] /\ cur[w] \in Frames /\ retry[cur[w]] # "absent"
  BY DEF TypeOK, RetryStates, ClaimInv, MarkFails, Finish, WorkerCrash, Leave, Fault, store
<1>2. AbsentInv'
  BY <1>1 DEF TypeOK, AbsentInv, MarkFails, Finish, WorkerCrash, Leave
<1>3. ClaimInv'
  BY <1>1 DEF TypeOK, ClaimInv, MarkFails, Finish, WorkerCrash, Leave
<1>4. \A g \in Frames : Awaited(g)' => Awaited(g)
  <2> SUFFICES ASSUME NEW g \in Frames, Awaited(g)' PROVE Awaited(g)
    OBVIOUS
  <2>1. CASE MarkFails(w) /\ g = cur[w]
    BY <1>1, <2>1 DEF MarkFails, Awaited
  <2>2. CASE ~(MarkFails(w) /\ g = cur[w])
    BY <1>1, <2>2 DEF TypeOK, MarkFails, Finish, WorkerCrash, Leave, Awaited
  <2> QED
    BY <2>1, <2>2
<1>5. LedgerInv'
  BY <1>4 DEF LedgerInv, MarkFails, Finish, WorkerCrash, Leave, store
<1> QED
  BY <1>1, <1>2, <1>3, <1>5

LEMMA AuditNext == AuditInv /\ [Next]_vars => AuditInv'
<1> SUFFICES ASSUME AuditInv, [Next]_vars PROVE AuditInv'
  OBVIOUS
<1>1. CASE UNCHANGED vars
  BY <1>1 DEF AuditInv, TypeOK, AbsentInv, ClaimInv, LedgerInv, Awaited, vars, batch, store
<1>2. CASE Next
  BY <1>2, RequestKept, BecomeDueKept, ClaimKept, ReplayKept, MarkKept, CompleteFailsKept, LeaveKept
  DEF Next, Serve, Work
<1> QED
  BY <1>1, <1>2

\* However the workers overlap, statements fail and processes die, a decision's
\* lifecycle enters the ledger again only after a success that was not learnt
\* (processPglAuditRetryBatch); and the queue keeps its types.
THEOREM AuditSafe == Spec => [](TypeOK /\ DuplicatesExplained)
<1>1. Init => AuditInv
  BY AuditInitially
<1>2. AuditInv /\ [Next]_vars => AuditInv'
  BY AuditNext
<1>3. AuditInv => TypeOK /\ DuplicatesExplained
  BY DEF AuditInv, LedgerInv, DuplicatesExplained
<1> QED
  BY <1>1, <1>2, <1>3, PTL DEF Spec
=============================================================================
