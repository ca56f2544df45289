---------------------------- MODULE DekesHandoff ----------------------------
(***************************************************************************)
(* The automatic handoff of a prospect that DEKES posts                    *)
(* (routes/dekes-handoff.ts), on top of DecisionRequest: the prospects are *)
(* requests without key whose decision DecisionRequest makes and persists, *)
(* among the other requests. A workload, a PROOFED handoff and an event    *)
(* follow, each a statement of its own; whatever throws is recorded as a   *)
(* FAILED handoff, whose own failure is swallowed, and answered alike.     *)
(*                                                                         *)
(* A prospect that DEKES posts again is another prospect. The row of the   *)
(* prospect and its event are part of Post: no step here depends on them.  *)
(***************************************************************************)
EXTENDS DecisionRequest

CONSTANTS
  Prospects,  \* requests to POST /prospects
  MaxLosses   \* bound: statements of handoffs that fail

ASSUME HandoffAssumption ==
  /\ Prospects \subseteq Requests
  /\ \A r \in Prospects : Entry[r] = "adapter"
  /\ MaxLosses \in Nat

VARIABLES
  at,    \* prospect -> where its handoff stands
  rows,  \* what the handoffs have stored: prospect and kind of row
  lost   \* history: statements that failed: prospect, kind of row, whether applied

handoffVars == <<at, rows, lost>>
allVars     == <<vars, handoffVars>>

Kinds  == {"workload", "PROOFED", "HANDOFF_PROOF_READY", "FAILED", "HANDOFF_FAILED"}
Stages == {"new", "refused", "deciding", "proofing", "announcing", "handed",
           "caught", "excusing", "empty", "gone"}

HandoffInit ==
  /\ Init
  /\ at = [r \in Prospects |-> "new"]
  /\ rows = {}
  /\ lost = {}

Go(r, p) == at' = [at EXCEPT ![r] = p]

\* A malformed prospect, one that could not be stored, or one below the score
\* from which it is handed off: answered without a handoff.
TurnAway(r) ==
  /\ at[r] = "new" /\ Refuse(r)
  /\ Go(r, "refused")
  /\ UNCHANGED <<rows, lost>>

Post(r) ==
  /\ at[r] = "new" /\ NoLookup(r)
  /\ Go(r, "deciding")
  /\ UNCHANGED <<rows, lost>>

\* createDecision and persistCiDecisionResult, until they return or throw.
Decide(r) ==
  /\ at[r] = "deciding"
  /\ Serve(r) \/ Fail(r)
  /\ UNCHANGED handoffVars

Decided(r) == at[r] = "deciding" /\ pc[r] = "answered" /\ response[r] # Refusal
Threw(r)   == at[r] = "deciding" /\ pc[r] = "answered" /\ response[r] = Refusal

\* One insert: it goes on to `done`, or to `thrown` when it fails, applied or not.
Insert(r, kind, done, thrown) ==
  \/ rows' = rows \cup {<<r, kind>>} /\ Go(r, done) /\ UNCHANGED lost
  \/ /\ Cardinality(lost) < MaxLosses
     /\ \E applied \in BOOLEAN :
          /\ lost' = lost \cup {<<r, kind, applied>>}
          /\ rows' = IF applied THEN rows \cup {<<r, kind>>} ELSE rows
     /\ Go(r, thrown)

StoreWorkload(r) == Decided(r) /\ Insert(r, "workload", "proofing", "caught")

StoreProof(r) == at[r] = "proofing" /\ Insert(r, "PROOFED", "announcing", "caught")

Announce(r) == at[r] = "announcing" /\ Insert(r, "HANDOFF_PROOF_READY", "handed", "handed")

\* Mutant of RecordFailure: only a decision that fails is recorded as a failure.
RecordDecisionFailure(r) ==
  \/ Threw(r) /\ Insert(r, "FAILED", "excusing", "excusing")
  \/ at[r] = "caught" /\ Go(r, "excusing") /\ UNCHANGED <<rows, lost>>

\* Mutant of RecordFailure: the decision is made outside the catch.
RecordInsertFailure(r) == at[r] = "caught" /\ Insert(r, "FAILED", "excusing", "excusing")

\* The catch of maybeCreateAutoHandoff.
RecordFailure(r) ==
  /\ Threw(r) \/ at[r] = "caught"
  /\ Insert(r, "FAILED", "excusing", "excusing")

AnnounceFailure(r) == at[r] = "excusing" /\ Insert(r, "HANDOFF_FAILED", "empty", "empty")

HandOff(r) ==
  /\ \/ StoreWorkload(r) \/ StoreProof(r) \/ Announce(r)
     \/ RecordFailure(r) \/ AnnounceFailure(r)
  /\ UNCHANGED vars

\* The other requests, and the crash that takes a process's handoffs with it.
Elsewhere ==
  \/ (\E r \in Requests \ Prospects : Serve(r) \/ Fail(r)) /\ UNCHANGED handoffVars
  \/ (\E k \in Keys : Expire(k)) /\ UNCHANGED handoffVars
  \/ \E p \in Procs :
       /\ Crash(p)
       /\ at' = [r \in Prospects |->
                   IF Proc[r] = p /\ at[r] \notin {"new", "refused", "handed", "empty"}
                   THEN "gone" ELSE at[r]]
       /\ UNCHANGED <<rows, lost>>

HandoffNext ==
  \/ \E r \in Prospects : TurnAway(r) \/ Post(r) \/ Decide(r) \/ HandOff(r)
  \/ Elsewhere

HandoffSpec == HandoffInit /\ [][HandoffNext]_allVars

\* Every await of a handoff returns or throws as well.
HandoffFairSpec ==
  HandoffSpec /\ Fairness /\ \A r \in Prospects : WF_allVars(HandOff(r))

-----------------------------------------------------------------------------
HandoffTypeOK ==
  /\ TypeOK
  /\ at \in [Prospects -> Stages]
  /\ rows \subseteq Prospects \X Kinds
  /\ lost \subseteq Prospects \X Kinds \X BOOLEAN

Whole(r) == r \in decisions /\ {<<r, "workload">>, <<r, "PROOFED">>} \subseteq rows

\* A handoff is whole wherever something vouches for it: the answer that carries
\* it, its event and its PROOFED row. A prospect left without it although its
\* decision was stored has a FAILED row, unless that was lost as well; and both
\* rows together mean that the failure was only an answer that got lost.
HandoffAccounted ==
  \A r \in Prospects :
    /\ at[r] = "handed" \/ {<<r, "HANDOFF_PROOF_READY">>, <<r, "PROOFED">>} \cap rows # {}
         => Whole(r)
    /\ at[r] = "empty" /\ r \in decisions =>
         <<r, "FAILED">> \in rows \/ <<r, "FAILED", FALSE>> \in lost
    /\ {<<r, "PROOFED">>, <<r, "FAILED">>} \subseteq rows => <<r, "PROOFED", TRUE>> \in lost

\* A prospect that was stored is answered, with its handoff or without, unless its
\* process dies.
EventuallyHandedOff ==
  \A r \in Prospects :
    (at[r] = "deciding") ~> (at[r] \in {"handed", "empty", "gone"})
=============================================================================
