----------------------- MODULE EvaluationProofs -----------------------
(***************************************************************************)
(* The invariants of a decision's evaluation: of DecisionPipeline, which   *)
(* chooses the action and the region, for any number of candidate regions  *)
(* and any deployment of the policy hooks, and of CarbonSignals, which     *)
(* gives the signals the choice rests on, for any number of requests.      *)
(*                                                                         *)
(* What holds of the final decision is not inductive: it is established at *)
(* a stage and must survive the stages after it.  Inv says what each stage *)
(* has established: the guardrail its blocks, the failsafe its refusal,    *)
(* the limits the delay window and the water cap, and every stage that it  *)
(* denies no critical work.                                                *)
(***************************************************************************)
EXTENDS DecisionPipeline, CarbonSignals, WellFoundedInduction, TLAPS

Refused == decision \in {"delay", "throttle", "deny"}

GuardrailInv == stage # "guardrail" /\ ruling # "answer" /\ Executes => ~Blocked(selected)
FailureInv   ==
  /\ stage = "guardrail" => ruling = "none"
  /\ ruling = "failsafe" => Refused
CriticalInv  == request.critical /\ decision = "deny" => ruling = "answer"
LimitsInv    ==
  stage \in {"mode", "done"} =>
    /\ decision = "delay" => MayDelay
    /\ request.waterCap /\ water[selected].band = "severe" => decision = NonDelay

Inv == TypeOK /\ GuardrailInv /\ FailureInv /\ CriticalInv /\ LimitsInv

-----------------------------------------------------------------------------
\* The candidate stages select is one of those they choose from.
LEMMA BestIsOne ==
  ASSUME NEW S \in SUBSET Candidates, S # {}
  PROVE  Best(S) \in S
<1> DEFINE Less == {p \in Nat \X Nat : p[1] < p[2]}
<1>1. S \subseteq Nat
  BY PipelineAssumption DEF Candidates
<1>a. IsWellFoundedOn(Less, Nat)
  BY NatLessThanWellFounded DEF OpToRel
<1>b. PICK n \in S : \A m \in S : <<m, n>> \notin Less
  BY <1>1, <1>a, WFMin
<1>2. \A m \in S : n <= m
  <2> SUFFICES ASSUME NEW m \in S PROVE n <= m
    OBVIOUS
  <2>1. m \in Nat /\ n \in Nat
    BY <1>1
  <2>2. m < n => <<m, n>> \in Less
    BY <2>1
  <2> QED
    BY <1>b, <2>1, <2>2
<1> QED
  BY <1>2 DEF Best

\* The actions that hold a request back.
LEMMA HeldActions ==
  ASSUME TypeOK
  PROVE  /\ Held \in {"delay", "throttle", "deny"}
         /\ NonDelay \in {"throttle", "deny"}
         /\ HeldBack \in {"delay", "throttle", "deny"}
         /\ HeldBack = "delay" => MayDelay
         /\ request.critical => Held # "deny" /\ NonDelay # "deny" /\ HeldBack # "deny"
BY DEF TypeOK, Request, Held, NonDelay, HeldBack

\* What the guardrail proposes is executed only in a region that is not blocked.
LEMMA ProposalSafe ==
  ASSUME TypeOK
  PROVE  /\ Proposal.region \in Candidates
         /\ Proposal.action \in Actions
         /\ Proposal.action \in {"run_now", "reroute"} => ~Blocked(Proposal.region)
         /\ request.critical => Proposal.action # "deny"
<1> DEFINE f    == water[1].fallback \/ request.doubtful
           hard == HardBlock(water[1], f)
<1>1. 1 \in Candidates
  BY PipelineAssumption DEF Candidates
<1>2. water[1] \in Water
  BY <1>1 DEF TypeOK, Signals
<1>3. Open \in SUBSET Candidates /\ \A c \in Open : ~Blocked(c)
  BY DEF Open
<1>4. CASE hard /\ Open = {}
  <2>1. Proposal = [region |-> 1, action |-> HeldBack]
    BY <1>4 DEF Proposal
  <2> QED
    BY <1>1, <2>1, HeldActions DEF Actions
<1>5. CASE hard /\ Open # {} /\ Best(Open) # 1
  <2>1. Proposal = [region |-> Best(Open), action |-> "reroute"]
    BY <1>5 DEF Proposal
  <2> QED
    BY <1>3, <1>5, <2>1, BestIsOne DEF Actions
<1>6. CASE hard /\ Open # {} /\ Best(Open) = 1
  <2>1. Proposal = [region |-> 1, action |-> IF Protected THEN "reroute" ELSE Held]
    BY <1>6 DEF Proposal
  <2>2. ~Blocked(1)
    BY <1>3, <1>6, BestIsOne
  <2> QED
    BY <1>1, <2>1, <2>2, HeldActions DEF Actions
<1>7. CASE ~hard
  <2>1. Proposal = [region |-> 1, action |-> Guarded(water[1], f)]
    BY <1>7 DEF Proposal
  <2>2. Guarded(water[1], f) = "run_now" \/ Guarded(water[1], f) = Held
    BY DEF Guarded
  <2>3. Guarded(water[1], f) = "run_now" => ~Blocked(1)
    BY <1>7, HeldActions DEF Guarded, HardBlock, Blocked
  <2> QED
    BY <1>1, <2>1, <2>2, <2>3, HeldActions DEF Actions
<1> QED
  BY <1>4, <1>5, <1>6, <1>7

\* Applying a directive keeps the types, and leaves an answer behind.
LEMMA ApplyType ==
  ASSUME TypeOK, NEW d \in Directive, Apply(d)
  PROVE  /\ selected' \in Candidates /\ decision' \in Actions
         /\ ruling' = "answer" /\ UNCHANGED <<inputs, mode>>
<1>1. Target(d) \in {0} \cup Candidates
  BY BestIsOne DEF Target, Directive
<1>2. selected' \in Candidates
  BY <1>1 DEF Apply, TypeOK
<1>3. decision' \in Actions
  BY HeldActions DEF Apply, TypeOK, Directive, Actions
<1> QED
  BY <1>2, <1>3 DEF Apply

LEMMA ZoneDirectiveType ==
  ASSUME TypeOK, NEW z \in Zones
  PROVE  ZoneDirective(z) \in Directive
<1>1. z \in {"red", "amber", "green"}
  BY DEF Zones
<1>2. Alternatives \in SUBSET Candidates
  BY DEF Alternatives, Open
<1>3. CASE z = "red"
  BY <1>3, HeldActions DEF ZoneDirective, Directive, Actions
<1>4. CASE z = "green"
  BY <1>4 DEF ZoneDirective, Directive, Actions
<1>5. CASE z = "amber" /\ Alternatives # {}
  <2>1. Best(Alternatives) \in Candidates
    BY <1>2, <1>5, BestIsOne
  <2> QED
    BY <1>5, <2>1 DEF ZoneDirective, Directive, Actions
<1>6. CASE z = "amber" /\ Alternatives = {}
  BY <1>6 DEF ZoneDirective, Directive, Actions
<1> QED
  BY <1>1, <1>3, <1>4, <1>5, <1>6

-----------------------------------------------------------------------------
\* A hook keeps the invariant: an answer makes it hold by itself, a failure holds
\* the request back, and nothing else changes anything.
LEMMA HookNext ==
  ASSUME Inv, stage \in {"seked", "external"}, stage' \in {"external", "limits"},
         Passes \/ Fails \/ \E d \in Directive : Apply(d)
  PROVE  Inv'
<1>1. CASE Passes
  BY <1>1 DEF Passes, inputs, Inv, TypeOK, Stages, GuardrailInv, FailureInv, CriticalInv,
     LimitsInv, Executes, Refused, Blocked, HardBlock, Held
<1>2. CASE \E d \in Directive : Apply(d)
  <2>1. /\ selected' \in Candidates /\ decision' \in Actions
        /\ ruling' = "answer" /\ UNCHANGED <<inputs, mode>>
    BY <1>2, ApplyType DEF Inv
  <2> QED
    BY <2>1 DEF inputs, Inv, TypeOK, Stages, GuardrailInv, FailureInv, CriticalInv, LimitsInv
<1>3. CASE request.strict /\ decision' = Held /\ ruling' = "failsafe"
           /\ UNCHANGED <<inputs, selected, mode>>
  <2>1. decision' \in {"delay", "throttle", "deny"} /\ (request.critical => decision' # "deny")
    BY <1>3, HeldActions DEF Inv
  <2> QED
    BY <1>3, <2>1 DEF inputs, Inv, TypeOK, Stages, Actions, GuardrailInv, FailureInv, CriticalInv,
       LimitsInv, Executes, Refused
<1> QED
  BY <1>1, <1>2, <1>3 DEF Fails

LEMMA InvNext == Inv /\ [Next]_vars => Inv'
<1> SUFFICES ASSUME Inv, [Next]_vars PROVE Inv'
  OBVIOUS
<1>1. CASE Guardrail
  <2>1. /\ selected' = Proposal.region
        /\ decision' \in Actions
        /\ decision' \in {"run_now", "reroute"} => decision' = Proposal.action
        /\ decision' = "deny" => decision' = Proposal.action
        /\ stage' = "seked" /\ UNCHANGED <<inputs, mode, ruling>>
    BY <1>1, ProposalSafe DEF Guardrail, Inv, Actions
  <2>2. /\ selected' \in Candidates
        /\ decision' \in {"run_now", "reroute"} => ~Blocked(selected')
        /\ request.critical => decision' # "deny"
    BY <2>1, ProposalSafe DEF Inv
  <2>3. ruling # "failsafe"
    BY <1>1 DEF Guardrail, Inv, FailureInv
  <2> QED
    BY <2>1, <2>2, <2>3 DEF inputs, Inv, TypeOK, Stages, GuardrailInv, FailureInv, CriticalInv,
       LimitsInv, Executes, Refused, Blocked, HardBlock, Held
<1>2. CASE SekedPolicy
  <2>1. Passes \/ Fails \/ \E d \in Directive : Apply(d)
    BY <1>2, ZoneDirectiveType DEF SekedPolicy, Inv
  <2> QED
    BY <1>2, <2>1, HookNext DEF SekedPolicy
<1>3. CASE ExternalPolicy
  BY <1>3, HookNext DEF ExternalPolicy
<1>4. CASE Limits
  BY <1>4, HeldActions DEF Limits, inputs, Inv, TypeOK, Stages, Actions, GuardrailInv, FailureInv,
     CriticalInv, LimitsInv, Executes, Refused, Blocked, HardBlock, Held, MayDelay, NonDelay
<1>5. CASE OperatingMode
  <2>1. /\ stage = "mode" /\ stage' = "done"
        /\ UNCHANGED <<inputs, selected, ruling>>
    BY <1>5 DEF OperatingMode
  <2>2. PICK m \in Modes : mode' = m /\ decision' = Adjusted(m)
    <3>1. \A o \in Override : Resolvable(o) \subseteq Modes
      BY PipelineAssumption DEF Resolvable
    <3> QED
      BY <1>5, <3>1 DEF OperatingMode
  <2>3. CASE decision # "run_now"
    <3>1. decision' = decision
      BY <2>2, <2>3 DEF Adjusted
    <3> QED
      BY <2>1, <2>2, <3>1 DEF inputs, Inv, TypeOK, Stages, GuardrailInv, FailureInv, CriticalInv,
         LimitsInv, Executes, Refused, Blocked, HardBlock, Held, MayDelay, NonDelay
  <2>4. CASE decision = "run_now"
    <3>1. /\ decision' \in {"run_now", "delay", "throttle", "deny"}
          /\ decision' = "delay" => MayDelay
          /\ request.critical => decision' # "deny"
      BY <2>2, <2>4, HeldActions DEF Adjusted, Modes, Inv, HeldBack, NonDelay
    <3>2. ruling # "failsafe" /\ ~(request.waterCap /\ water[selected].band = "severe")
      BY <2>1, <2>4, HeldActions DEF Inv, FailureInv, Refused, LimitsInv
    <3> QED
      BY <2>1, <2>2, <2>4, <3>1, <3>2 DEF inputs, Inv, TypeOK, Stages, Actions, GuardrailInv, FailureInv,
         CriticalInv, LimitsInv, Executes, Refused, Blocked, HardBlock, Held, MayDelay
  <2> QED
    BY <2>3, <2>4
<1>6. CASE UNCHANGED vars
  BY <1>6 DEF vars, inputs, Inv, TypeOK, GuardrailInv, FailureInv, CriticalInv, LimitsInv,
     Executes, Refused, Blocked, HardBlock, Held, MayDelay, NonDelay
<1> QED
  BY <1>1, <1>2, <1>3, <1>4, <1>5, <1>6 DEF Next

\* Every request, whatever its water, its candidates and the hooks' answers: the
\* water guardrail, the delay window, a strict hook's failsafe and the doctrine's
\* water cap hold of the returned decision, and only a policy denies critical work.
THEOREM DecisionBounded ==
  Spec => [](TypeOK /\ GuardrailStands /\ DelayNeedsWindow /\ StrictFailureStands
             /\ WaterCapStands /\ CriticalDenialDirected)
<1>1. Init => Inv
  <2>1. 1 \in Candidates
    BY PipelineAssumption DEF Candidates
  <2> QED
    BY <2>1 DEF Init, Inv, TypeOK, Actions, Stages, GuardrailInv, FailureInv, CriticalInv, LimitsInv
<1>2. Inv => /\ TypeOK /\ GuardrailStands /\ DelayNeedsWindow /\ StrictFailureStands
             /\ WaterCapStands /\ CriticalDenialDirected
  BY DEF Inv, GuardrailInv, FailureInv, CriticalInv, LimitsInv, Refused, GuardrailStands,
     DelayNeedsWindow, StrictFailureStands, WaterCapStands, CriticalDenialDirected
<1> QED
  BY <1>1, <1>2, InvNext, PTL DEF Spec

\* Unless a policy answered, nothing is run in a region its water guardrail blocks.
COROLLARY GuardrailNeverLifted == Spec => []GuardrailStands
BY DecisionBounded, PTL

\* What a strict hook enforced by failing stands unless a later hook answers.
COROLLARY StrictFailuresStop == Spec => []StrictFailureStands
BY DecisionBounded, PTL
-----------------------------------------------------------------------------
(***************************************************************************)
(* Where the signal comes from.                                            *)
(*                                                                         *)
(* What a request answers with was put together by others: the copy of the *)
(* fuel mix, the last-known-good record and the buckets outlive the        *)
(* requests that filled them.  SignalsInv says of every record, wherever   *)
(* it lies, when its reading was obtained and how it may be dated, and of  *)
(* the best reading stored that nothing stored before it took its place.   *)
(***************************************************************************)

\* The constants, as numbers.
LEMMA SignalsConstants ==
  /\ Back \in Nat /\ Ahead \in Nat /\ DatedBack \in Nat /\ DatedAhead \in Nat /\ Lead \in Nat
  /\ MaxAge \in Nat /\ LkgTtl \in Nat \ {0} /\ BucketTtl \in Nat \ {0} /\ FuelTtl \in Nat
  /\ MaxTime \in Nat /\ MaxFaults \in Nat
BY SignalsAssumption DEF SignalsAssumption

\* A reading as its provider gave it.
Good(rec) == rec.kind \in Genuine /\ ~rec.degraded /\ rec.margins = 0

\* A reading was obtained no earlier than its request arrived, and is dated no
\* later than it could be, but for the copy of the fuel mix; and it is dated no
\* earlier than its request, but by its provider or for a time already past.
Known(rec) ==
  /\ rec.since - rec.got <= Lag(rec)
  /\ rec.ref - rec.got <= Lag(rec) + Skew(rec)
  /\ rec.kind = "dated" \/ rec.past \/ rec.since <= rec.ref

Sound(rec) == Good(rec) /\ Known(rec)

\* The baseline, which is no reading.
Nothing == [NoRecord EXCEPT !.kind = "baseline"]

\* What a request answers with: a reading obtained for it, one of its bucket, or
\* the last-known-good one.
Own(r) ==
  /\ Sound(record[r]) /\ record[r].since = start[r]
  /\ record[r].kind = "watttime" => record[r].ref = at[r] /\ start[r] < at[r]

Found(r) ==
  /\ Sound(record[r]) /\ start[r] < record[r].put + BucketTtl
  /\ record[r].kind = "watttime" => record[r].ref = at[r]

StandsIn(r) ==
  /\ record[r].kind \in Genuine \ {"watttime"} /\ Known(record[r])
  /\ record[r].margins = 1 /\ record[r].degraded
  /\ start[r] < record[r].put + LkgTtl
  /\ at[r] - record[r].ref <= MaxAge

RecordPart(r) ==
  /\ pc[r] = "storing" => Own(r)
  /\ pc[r] = "reading" => record[r] = Nothing
  /\ pc[r] = "answered" /\ r \in warm => Found(r) /\ todo[r] = {}
  /\ pc[r] = "answered" /\ r \notin warm => record[r] = Nothing \/ Own(r) \/ StandsIn(r)
  /\ r \in warm => pc[r] = "answered"
  /\ todo[r] \subseteq {at[r]} \/ at[r] = start[r]
  /\ at[r] <= start[r] + Ahead

BucketInv ==
  \A b \in Buckets :
    /\ buckets[b].kind # "none" => now < buckets[b].put + BucketTtl
    /\ Serves(buckets[b]) =>
         Sound(buckets[b]) /\ (buckets[b].kind = "watttime" => buckets[b].ref = b)

LkgInv  == lkg.kind # "none" => Sound(lkg) /\ now < lkg.put + LkgTtl
FuelInv == fuel.until <= fuel.got + FuelTtl
BestInv ==
  best.put >= 0 =>
    /\ best.ref <= best.put /\ best.put <= now
    /\ lkg.kind # "none" /\ best.put <= lkg.put

SignalsInv ==
  /\ SignalsTypeOK
  /\ \A r \in Requests : RecordPart(r)
  /\ BucketInv /\ LkgInv /\ FuelInv /\ BestInv

\* A request that a step leaves alone; the step may write one of its buckets.
Still(r) ==
  /\ pc'[r] = pc[r] /\ record'[r] = record[r] /\ start'[r] = start[r] /\ at'[r] = at[r]
  /\ todo'[r] \subseteq todo[r] /\ (r \in warm' <=> r \in warm)

LEMMA StillKeeps ==
  ASSUME SignalsInv, NEW r \in Requests, Still(r)
  PROVE  RecordPart(r)'
<1>1. RecordPart(r)
  BY DEF SignalsInv
<1>2. Own(r)' <=> Own(r)
  BY DEF Still, Own
<1>3. Found(r)' <=> Found(r)
  BY DEF Still, Found
<1>4. StandsIn(r)' <=> StandsIn(r)
  BY DEF Still, StandsIn
<1> QED
  BY <1>1, <1>2, <1>3, <1>4 DEF RecordPart, Still

(***************************************************************************)
(* Records.                                                                *)
(***************************************************************************)
LEMMA Measures ==
  ASSUME NEW rec \in Record
  PROVE  /\ rec.got \in Nat /\ rec.ref \in Int /\ rec.since \in Nat /\ rec.put \in Nat
         /\ rec.margins \in Nat /\ Lag(rec) \in Nat /\ Skew(rec) \in Nat
BY SignalsConstants DEF Record, Lag, Skew

LEMMA EmptyRecords ==
  /\ NoRecord \in Record /\ NoRecord.kind = "none" /\ ~Serves(NoRecord)
  /\ Nothing \in Record /\ Nothing.kind = "baseline" /\ Nothing.margins = 0 /\ Nothing.degraded
  /\ \A t \in Nat : LET rebuilt == [NoRecord EXCEPT !.kind = "rebuilt", !.put = t]
                    IN rebuilt \in Record /\ ~Serves(rebuilt) /\ rebuilt.put = t
<1>1. NoRecord \in Record /\ NoRecord.kind = "none"
  BY DEF NoRecord, Record, Genuine
<1>2. Nothing \in Record
  BY <1>1 DEF Nothing, Record, Genuine
<1>3. Nothing.kind = "baseline" /\ Nothing.degraded /\ Nothing.margins = 0
  BY DEF Nothing, NoRecord
<1>4. ASSUME NEW t \in Nat
      PROVE  LET rebuilt == [NoRecord EXCEPT !.kind = "rebuilt", !.put = t]
             IN rebuilt \in Record /\ rebuilt.degraded /\ rebuilt.put = t
  <2> DEFINE rebuilt == [NoRecord EXCEPT !.kind = "rebuilt", !.put = t]
  <2>1. rebuilt \in Record
    BY <1>1 DEF Record, Genuine
  <2>2. rebuilt.degraded /\ rebuilt.put = t
    BY DEF NoRecord
  <2> QED
    BY <2>1, <2>2
<1> QED
  BY <1>1, <1>2, <1>3, <1>4 DEF Serves

\* Putting a record into Redis changes nothing but when that was.
LEMMA PutFields ==
  ASSUME NEW rec \in Record, NEW t \in Nat
  PROVE  LET copy == [rec EXCEPT !.put = t]
         IN  /\ copy \in Record /\ copy.put = t /\ copy.kind = rec.kind
             /\ copy.degraded = rec.degraded /\ copy.ref = rec.ref
             /\ Sound(rec) => Sound(copy)
<1> DEFINE copy == [rec EXCEPT !.put = t]
<1>1. copy \in Record
  BY DEF Record
<1>2. copy.put = t /\ copy.kind = rec.kind
  BY DEF Record
<1>3. copy.degraded = rec.degraded /\ copy.margins = rec.margins
  BY DEF Record
<1>4. copy.got = rec.got /\ copy.ref = rec.ref /\ copy.since = rec.since /\ copy.past = rec.past
  BY DEF Record
<1>5. Sound(rec) => Sound(copy)
  <2> HIDE DEF copy
  <2> QED
    BY <1>2, <1>3, <1>4 DEF Sound, Good, Known, Lag, Skew
<1> QED
  BY <1>1, <1>2, <1>3, <1>4, <1>5

\* The last-known-good record with its margin.
LEMMA SubstituteFields ==
  ASSUME NEW rec \in Record
  PROVE  LET sub == [rec EXCEPT !.margins = @ + 1, !.degraded = TRUE]
         IN  /\ sub \in Record
             /\ sub.kind = rec.kind /\ sub.got = rec.got /\ sub.ref = rec.ref
             /\ sub.since = rec.since /\ sub.past = rec.past /\ sub.put = rec.put
             /\ sub.margins = rec.margins + 1 /\ sub.degraded = TRUE
<1> DEFINE sub == [rec EXCEPT !.margins = @ + 1, !.degraded = TRUE]
<1>1. sub \in Record
  <2>1. rec.margins + 1 \in Nat
    BY DEF Record
  <2> QED
    BY <2>1 DEF Record
<1>2. sub.kind = rec.kind /\ sub.got = rec.got
  BY DEF Record
<1>3. sub.ref = rec.ref /\ sub.since = rec.since /\ sub.past = rec.past
  BY DEF Record
<1>4. sub.put = rec.put /\ sub.degraded = TRUE
  BY DEF Record
<1>5. sub.margins = rec.margins + 1
  BY DEF Record
<1> QED
  BY <1>1, <1>2, <1>3, <1>4, <1>5

LEMMA FaultsCounted ==
  ASSUME SignalsTypeOK, faults' = faults \/ Fault
  PROVE  faults' \in 0..MaxFaults
BY SignalsConstants DEF SignalsTypeOK, Fault

\* The times a request may ask for have buckets.
LEMMA TimesHaveBuckets ==
  ASSUME SignalsTypeOK
  PROVE  \A t \in (now - Back)..(now + Ahead) :
           t \in -Back..(MaxTime + Ahead) /\ t \in Buckets /\ t + 1 \in Buckets
BY SignalsConstants DEF SignalsTypeOK, Buckets

(***************************************************************************)
(* Every step keeps the invariant.                                         *)
(***************************************************************************)
LEMMA SignalsBegin == SignalsInit => SignalsInv
<1> SUFFICES ASSUME SignalsInit PROVE SignalsInv
  OBVIOUS
<1>1. SignalsTypeOK
  <2>1. now = 0 /\ MaxTime \in Nat /\ MaxFaults \in Nat /\ Back \in Nat /\ Ahead \in Nat
    BY SignalsConstants DEF SignalsInit
  <2>2. now \in 0..MaxTime /\ fuel \in [got : 0..now, until : Nat] /\ faults \in 0..MaxFaults
    BY <2>1 DEF SignalsInit
  <2>3. start \in [Requests -> 0..now] /\ at \in [Requests -> -Back..(MaxTime + Ahead)]
    BY <2>1 DEF SignalsInit
  <2>4. best \in [ref : Int, put : Nat \cup {-1}]
    BY DEF SignalsInit, NoBest
  <2> QED
    BY <2>2, <2>3, <2>4, EmptyRecords DEF SignalsInit, SignalsTypeOK
<1>2. \A r \in Requests : RecordPart(r)
  <2> SUFFICES ASSUME NEW r \in Requests PROVE RecordPart(r)
    OBVIOUS
  <2>1. pc[r] = "new" /\ todo[r] = {} /\ warm = {} /\ start[r] = 0 /\ at[r] = 0
    BY DEF SignalsInit
  <2> QED
    BY <2>1, SignalsConstants DEF RecordPart
<1>3. BucketInv /\ LkgInv
  BY EmptyRecords DEF SignalsInit, BucketInv, LkgInv
<1>4. FuelInv /\ BestInv
  BY SignalsConstants DEF SignalsInit, NoBest, FuelInv, BestInv
<1> QED
  BY <1>1, <1>2, <1>3, <1>4 DEF SignalsInv

LEMMA TickKeeps ==
  ASSUME SignalsInv, Tick
  PROVE  SignalsInv'
<1>1. /\ now' = now + 1 /\ now < MaxTime /\ now \in Nat
      /\ UNCHANGED <<region, fuel, pc, start, at, record, todo, warm, faults>>
      /\ lkg' = IF lkg.put + LkgTtl <= now' THEN NoRecord ELSE lkg
      /\ best' = IF best.put + LkgTtl <= now' THEN NoBest ELSE best
      /\ buckets' = [b \in Buckets |->
           IF buckets[b].put + BucketTtl <= now' THEN NoRecord ELSE buckets[b]]
      /\ spread' = [b \in Buckets |-> IF spread[b] <= now' THEN 0 ELSE spread[b]]
  BY DEF Tick, requestVars, SignalsInv, SignalsTypeOK
<1>2. /\ lkg \in Record /\ lkg.put \in Nat /\ best.put \in Int /\ now' \in Nat
      /\ LkgTtl \in Nat /\ BucketTtl \in Nat /\ MaxTime \in Nat
      /\ \A b \in Buckets : buckets[b] \in Record /\ buckets[b].put \in Nat
  BY <1>1, Measures, SignalsConstants DEF SignalsInv, SignalsTypeOK
<1>3. SignalsTypeOK'
  <2>1. now' \in 0..MaxTime /\ fuel' \in [got : 0..now', until : Nat]
        /\ start' \in [Requests -> 0..now']
    BY <1>1, <1>2 DEF SignalsInv, SignalsTypeOK
  <2>2. lkg' \in Record /\ best' \in [ref : Int, put : Nat \cup {-1}]
    <3>1. NoBest \in [ref : Int, put : Nat \cup {-1}]
      BY DEF NoBest
    <3> QED
      BY <1>1, <3>1, EmptyRecords DEF SignalsInv, SignalsTypeOK
  <2>3. buckets' \in [Buckets -> Record] /\ spread' \in [Buckets -> Nat]
    BY <1>1, <1>2, EmptyRecords DEF SignalsInv, SignalsTypeOK
  <2> QED
    BY <1>1, <2>1, <2>2, <2>3 DEF SignalsInv, SignalsTypeOK
<1>4. \A r \in Requests : RecordPart(r)'
  <2> SUFFICES ASSUME NEW r \in Requests PROVE RecordPart(r)'
    OBVIOUS
  <2>1. Still(r)
    BY <1>1 DEF Still
  <2> QED
    BY <2>1, StillKeeps
<1>5. BucketInv'
  <2> SUFFICES ASSUME NEW b \in Buckets
               PROVE  /\ buckets'[b].kind # "none" => now' < buckets'[b].put + BucketTtl
                      /\ Serves(buckets'[b]) =>
                           /\ Sound(buckets'[b])
                           /\ buckets'[b].kind = "watttime" => buckets'[b].ref = b
    BY DEF BucketInv
  <2>1. CASE buckets'[b] = NoRecord
    BY <2>1, EmptyRecords
  <2>2. CASE buckets'[b] = buckets[b] /\ ~(buckets[b].put + BucketTtl <= now')
    BY <1>2, <2>2 DEF SignalsInv, BucketInv
  <2> QED
    BY <1>1, <2>1, <2>2
<1>6. LkgInv'
  <2>1. CASE lkg' = NoRecord
    BY <2>1, EmptyRecords DEF LkgInv
  <2>2. CASE lkg' = lkg /\ ~(lkg.put + LkgTtl <= now')
    BY <1>2, <2>2 DEF SignalsInv, LkgInv
  <2> QED
    BY <1>1, <2>1, <2>2
<1>7. BestInv'
  <2>1. CASE best' = NoBest
    BY <2>1 DEF NoBest, BestInv
  <2>2. CASE best' = best /\ ~(best.put + LkgTtl <= now') /\ best.put >= 0
    <3>1. best.ref <= best.put /\ best.put <= now /\ lkg.kind # "none" /\ best.put <= lkg.put
      BY <2>2 DEF SignalsInv, BestInv
    <3>2. lkg' = lkg
      BY <1>1, <1>2, <2>2, <3>1
    <3>3. best'.put <= now'
      BY <1>1, <1>2, <2>2, <3>1
    <3> QED
      BY <2>2, <3>1, <3>2, <3>3 DEF BestInv
  <2>3. CASE best' = best /\ ~(best.put >= 0)
    BY <2>3 DEF BestInv
  <2> QED
    BY <1>1, <2>1, <2>2, <2>3
<1>8. FuelInv'
  BY <1>1 DEF SignalsInv, FuelInv
<1> QED
  BY <1>3, <1>4, <1>5, <1>6, <1>7, <1>8 DEF SignalsInv

\* A request's step that leaves the last-known-good record alone: its own part
\* and the buckets are what remains.
LEMMA OwnStepKeeps ==
  ASSUME SignalsInv, SignalsTypeOK', NEW r \in Requests,
         \A s \in Requests \ {r} : Still(s), RecordPart(r)', BucketInv', FuelInv',
         UNCHANGED <<now, lkg, best>>
  PROVE  SignalsInv'
<1>1. \A s \in Requests : RecordPart(s)'
  BY StillKeeps
<1>2. LkgInv' /\ BestInv'
  BY DEF SignalsInv, LkgInv, BestInv
<1> QED
  BY <1>1, <1>2 DEF SignalsInv

LEMMA EvictKeeps ==
  ASSUME SignalsInv, Evict
  PROVE  SignalsInv'
<1>1. /\ UNCHANGED <<now, region, fuel, lkg, spread, pc, start, at, record, todo, warm, best>>
      /\ faults' = faults \/ Fault
  BY DEF Evict, requestVars, historyVars
<1>2. PICK b \in Buckets : buckets' = [buckets EXCEPT ![b] = NoRecord]
  BY DEF Evict
<1>3. faults' \in 0..MaxFaults
  BY <1>1, FaultsCounted DEF SignalsInv
<1>4. SignalsTypeOK'
  BY <1>1, <1>2, <1>3, EmptyRecords DEF SignalsInv, SignalsTypeOK
<1>5. BucketInv'
  BY <1>1, <1>2, EmptyRecords DEF SignalsInv, SignalsTypeOK, BucketInv
<1>6. \A r \in Requests : RecordPart(r)'
  <2> SUFFICES ASSUME NEW r \in Requests PROVE RecordPart(r)'
    OBVIOUS
  <2>1. Still(r)
    BY <1>1 DEF Still
  <2> QED
    BY <2>1, StillKeeps
<1>7. LkgInv' /\ FuelInv' /\ BestInv'
  BY <1>1 DEF SignalsInv, LkgInv, FuelInv, BestInv
<1> QED
  BY <1>4, <1>5, <1>6, <1>7 DEF SignalsInv

\* A request that has just arrived, and where it then stands.
LEMMA ArrivalKeeps ==
  ASSUME SignalsInv, NEW r \in Requests, NEW t \in (now - Back)..(now + Ahead),
         NEW entries \in SUBSET Buckets, Arrive(r, t, entries), entries \subseteq {t} \/ t = now,
         NEW p \in {"comparing", "resolving", "failed"}, Goto(r, p),
         UNCHANGED <<now, region, fuel, lkg, buckets, spread, record, warm, best>>,
         faults' \in 0..MaxFaults
  PROVE  SignalsInv'
<1>1. /\ pc[r] = "new" /\ pc' = [pc EXCEPT ![r] = p] /\ start' = [start EXCEPT ![r] = now]
      /\ at' = [at EXCEPT ![r] = t] /\ todo' = [todo EXCEPT ![r] = entries]
  BY DEF Arrive, Goto
<1>2. t \in -Back..(MaxTime + Ahead) /\ t \in Int /\ now \in Nat /\ t <= now + Ahead
  BY TimesHaveBuckets, SignalsConstants DEF SignalsInv, SignalsTypeOK
<1>3. SignalsTypeOK'
  BY <1>1, <1>2 DEF SignalsInv, SignalsTypeOK
<1>4. \A s \in Requests \ {r} : Still(s)
  BY <1>1 DEF Still, SignalsInv, SignalsTypeOK
<1>5. pc'[r] = p /\ start'[r] = now /\ at'[r] = t /\ todo'[r] = entries /\ r \notin warm'
  BY <1>1 DEF SignalsInv, SignalsTypeOK, RecordPart
<1>6. RecordPart(r)'
  BY <1>2, <1>5 DEF RecordPart
<1>7. BucketInv' /\ FuelInv'
  BY DEF SignalsInv, BucketInv, FuelInv
<1> QED
  BY <1>3, <1>4, <1>6, <1>7, OwnStepKeeps

LEMMA AskKeeps ==
  ASSUME SignalsInv, NEW r \in Requests, Ask(r)
  PROVE  SignalsInv'
<1>1. /\ UNCHANGED <<now, region, fuel, lkg, buckets, spread, record, warm, best, faults>>
      /\ Goto(r, "resolving")
  BY DEF Ask, redisVars, historyVars
<1>2. faults' \in 0..MaxFaults
  BY <1>1 DEF SignalsInv, SignalsTypeOK
<1>3. now \in Nat /\ Back \in Nat /\ Ahead \in Nat
  BY SignalsConstants DEF SignalsInv, SignalsTypeOK
<1>4. CASE Arrive(r, now, {now, now + 1})
  <2>1. now \in (now - Back)..(now + Ahead)
    BY <1>3
  <2>2. {now, now + 1} \in SUBSET Buckets
    BY <2>1, TimesHaveBuckets DEF SignalsInv
  <2> QED
    BY <1>1, <1>2, <1>4, <2>1, <2>2, ArrivalKeeps
<1>5. ASSUME NEW h \in 0..Ahead, Arrive(r, now + h, {}) PROVE SignalsInv'
  <2>1. now + h \in (now - Back)..(now + Ahead)
    BY <1>3
  <2> QED
    BY <1>1, <1>2, <1>5, <2>1, ArrivalKeeps
<1> QED
  BY <1>4, <1>5 DEF Ask

LEMMA LookKeeps ==
  ASSUME SignalsInv, NEW r \in Requests, Look(r)
  PROVE  SignalsInv'
<1>1. UNCHANGED <<now, region, fuel, lkg, buckets, spread, best>>
  BY DEF Look, redisVars
<1>2. PICK t \in (now - Back)..(now + Ahead) :
        \/ /\ Serves(buckets[t]) /\ Arrive(r, t, {}) /\ Goto(r, "answered")
           /\ record' = [record EXCEPT ![r] = buckets[t]]
           /\ warm' = warm \cup {r} /\ faults' = faults
        \/ /\ Arrive(r, t, {t}) \/ Arrive(r, t, {})
           /\ \E p \in {"comparing", "resolving", "failed"} : Goto(r, p)
           /\ UNCHANGED <<record, warm>>
           /\ faults' = faults \/ Fault
  BY DEF Look, Throws
<1>3. faults' \in 0..MaxFaults
  BY <1>2, FaultsCounted DEF SignalsInv
<1>4. t \in -Back..(MaxTime + Ahead) /\ t \in Buckets
  BY TimesHaveBuckets DEF SignalsInv
<1>5. t \in Int /\ now \in Nat /\ t <= now + Ahead
  BY SignalsConstants DEF SignalsInv, SignalsTypeOK
<1> DEFINE rec == buckets[t]
<1>6. CASE /\ Serves(rec) /\ Arrive(r, t, {}) /\ Goto(r, "answered")
           /\ record' = [record EXCEPT ![r] = rec] /\ warm' = warm \cup {r}
  <2>1. /\ pc' = [pc EXCEPT ![r] = "answered"] /\ start' = [start EXCEPT ![r] = now]
        /\ at' = [at EXCEPT ![r] = t] /\ todo' = [todo EXCEPT ![r] = {}]
    BY <1>6 DEF Arrive, Goto
  <2>2. rec \in Record
    BY <1>4 DEF SignalsInv, SignalsTypeOK
  <2>3. SignalsTypeOK'
    BY <1>1, <1>3, <1>4, <1>6, <2>1, <2>2 DEF SignalsInv, SignalsTypeOK
  <2>4. \A s \in Requests \ {r} : Still(s)
    BY <1>6, <2>1 DEF Still, SignalsInv, SignalsTypeOK
  <2>5. /\ pc'[r] = "answered" /\ start'[r] = now /\ at'[r] = t /\ todo'[r] = {}
        /\ record'[r] = rec /\ r \in warm'
    BY <1>6, <2>1 DEF SignalsInv, SignalsTypeOK
  <2>6. /\ Sound(rec) /\ now < rec.put + BucketTtl
        /\ rec.kind = "watttime" => rec.ref = t
    BY <1>4, <1>6 DEF SignalsInv, BucketInv, Serves
  <2>7. Found(r)'
    <3> HIDE DEF rec
    <3> QED
      BY <2>5, <2>6 DEF Found
  <2>8. RecordPart(r)'
    BY <1>5, <2>5, <2>7 DEF RecordPart
  <2>9. BucketInv' /\ FuelInv'
    BY <1>1 DEF SignalsInv, BucketInv, FuelInv
  <2> QED
    BY <1>1, <2>3, <2>4, <2>8, <2>9, OwnStepKeeps
<1>7. CASE /\ Arrive(r, t, {t}) \/ Arrive(r, t, {})
           /\ \E p \in {"comparing", "resolving", "failed"} : Goto(r, p)
           /\ UNCHANGED <<record, warm>>
  <2>1. PICK p \in {"comparing", "resolving", "failed"} : Goto(r, p)
    BY <1>7
  <2>2. PICK entries \in SUBSET {t} : Arrive(r, t, entries)
    BY <1>7
  <2>3. entries \in SUBSET Buckets
    BY <1>4
  <2> QED
    BY <1>1, <1>3, <1>7, <2>1, <2>2, <2>3, ArrivalKeeps
<1> QED
  BY <1>2, <1>6, <1>7

LEMMA CompareKeeps ==
  ASSUME SignalsInv, NEW r \in Requests, Compare(r) \/ Rebuild(r) \/ ReadFails(r)
  PROVE  SignalsInv'
<1>1. /\ UNCHANGED <<now, region, fuel, lkg, spread, start, at, record, todo, warm, best>>
      /\ pc[r] \in {"comparing", "rebuilding", "reading"}
      /\ \E p \in {"rebuilding", "resolving", "failed"} : pc' = [pc EXCEPT ![r] = p]
      /\ faults' = faults \/ Fault
      /\ \/ UNCHANGED buckets
         \/ buckets' = [buckets EXCEPT ![at[r]] =
                          [NoRecord EXCEPT !.kind = "rebuilt", !.put = now]]
  BY DEF Compare, Rebuild, ReadFails, Throws, Goto, redisVars, requestVars, historyVars
<1>2. PICK p \in {"rebuilding", "resolving", "failed"} : pc' = [pc EXCEPT ![r] = p]
  BY <1>1
<1>3. faults' \in 0..MaxFaults
  BY <1>1, FaultsCounted DEF SignalsInv
<1>4. now \in Nat /\ BucketTtl \in Nat \ {0}
  BY SignalsConstants DEF SignalsInv, SignalsTypeOK
<1> DEFINE rebuilt == [NoRecord EXCEPT !.kind = "rebuilt", !.put = now]
<1>5. rebuilt \in Record /\ ~Serves(rebuilt) /\ rebuilt.put = now
  BY <1>4, EmptyRecords
<1>6. \A b \in Buckets : buckets'[b] = buckets[b] \/ buckets'[b] = rebuilt
  BY <1>1 DEF SignalsInv, SignalsTypeOK
<1>7. buckets' \in [Buckets -> Record]
  BY <1>1, <1>5 DEF SignalsInv, SignalsTypeOK
<1> HIDE DEF rebuilt
<1>8. SignalsTypeOK'
  BY <1>1, <1>2, <1>3, <1>7 DEF SignalsInv, SignalsTypeOK
<1>9. BucketInv'
  BY <1>1, <1>4, <1>5, <1>6 DEF SignalsInv, BucketInv
<1>10. \A s \in Requests \ {r} : Still(s)
  BY <1>1, <1>2 DEF Still, SignalsInv, SignalsTypeOK
<1>11. RecordPart(r)'
  <2>1. pc'[r] = p
    BY <1>2 DEF SignalsInv, SignalsTypeOK
  <2>2. RecordPart(r) /\ r \notin warm'
    BY <1>1 DEF SignalsInv, RecordPart
  <2> QED
    BY <1>1, <2>1, <2>2 DEF RecordPart
<1>12. FuelInv'
  BY <1>1 DEF SignalsInv, FuelInv
<1> QED
  BY <1>1, <1>8, <1>9, <1>10, <1>11, <1>12, OwnStepKeeps

\* A reading in hand, whichever provider gave it.
LEMMA LiveGives ==
  ASSUME SignalsInv, NEW r \in Requests, pc[r] = "resolving",
         NEW kind \in Genuine, NEW got \in Nat, NEW ref \in Int, Live(r, kind, got, ref),
         start[r] <= got + (IF kind = "fuelmix" THEN FuelTtl ELSE 0),
         ref <= got + (IF kind = "fuelmix" THEN FuelTtl ELSE 0)
                    + (IF kind = "dated" THEN DatedAhead ELSE Ahead),
         kind # "dated" => ref = at[r], kind = "watttime" => start[r] < at[r],
         fuel' \in [got : 0..now, until : Nat], FuelInv',
         UNCHANGED <<now, region, lkg, buckets, spread, start, at, todo, warm, best, faults>>
  PROVE  SignalsInv'
<1> DEFINE rec == [kind |-> kind, got |-> got, ref |-> ref, since |-> start[r],
                   past |-> at[r] < start[r], put |-> 0, margins |-> 0, degraded |-> FALSE]
<1>1. record' = [record EXCEPT ![r] = rec] /\ pc' = [pc EXCEPT ![r] = "storing"]
  BY DEF Live, Goto
<1>2. /\ start[r] \in Nat /\ at[r] \in Int
      /\ FuelTtl \in Nat /\ Ahead \in Nat /\ DatedAhead \in Nat
  BY SignalsConstants DEF SignalsInv, SignalsTypeOK
<1>3. rec \in Record
  BY <1>2 DEF Record
<1>4. SignalsTypeOK'
  BY <1>1, <1>3 DEF SignalsInv, SignalsTypeOK
<1>5. \A s \in Requests \ {r} : Still(s)
  BY <1>1 DEF Still, SignalsInv, SignalsTypeOK
<1>6. pc'[r] = "storing" /\ record'[r] = rec /\ r \notin warm
  BY <1>1 DEF SignalsInv, SignalsTypeOK, RecordPart
<1>7. Good(rec)
  BY DEF Good
<1>8. rec.kind = kind /\ rec.got = got /\ rec.ref = ref /\ rec.since = start[r]
  OBVIOUS
<1>9. Known(rec)
  <2>1. rec.past <=> at[r] < start[r]
    OBVIOUS
  <2> HIDE DEF rec
  <2>2. rec.since - rec.got <= Lag(rec) /\ rec.ref - rec.got <= Lag(rec) + Skew(rec)
    BY <1>2, <1>8 DEF Lag, Skew
  <2>3. CASE kind = "dated"
    BY <1>8, <2>2, <2>3 DEF Known
  <2>4. CASE kind # "dated"
    <3>1. rec.ref = at[r]
      BY <1>8, <2>4
    <3>2. at[r] < start[r] \/ start[r] <= at[r]
      BY <1>2
    <3> QED
      BY <1>8, <2>1, <2>2, <3>1, <3>2 DEF Known
  <2> QED
    BY <2>3, <2>4
<1>10. Own(r)'
  <2> HIDE DEF rec
  <2> QED
    BY <1>6, <1>7, <1>8, <1>9 DEF Own, Sound
<1>11. RecordPart(r)'
  BY <1>6, <1>10 DEF RecordPart, SignalsInv
<1>12. BucketInv'
  BY DEF SignalsInv, BucketInv
<1> QED
  BY <1>4, <1>5, <1>11, <1>12, OwnStepKeeps

LEMMA ResolveKeeps ==
  ASSUME SignalsInv, NEW r \in Requests, Resolve(r)
  PROVE  SignalsInv'
<1>1. /\ UNCHANGED <<now, region, lkg, buckets, spread, start, at, todo, warm, best, faults>>
      /\ pc[r] = "resolving"
  BY DEF Resolve, redisVars, requestVars, historyVars
<1>2. /\ now \in Nat /\ start[r] \in Nat /\ start[r] <= now /\ at[r] \in Int
      /\ at[r] <= start[r] + Ahead /\ fuel \in [got : 0..now, until : Nat]
      /\ fuel.got \in Nat /\ fuel.got <= now /\ fuel.until \in Nat
      /\ fuel.until <= fuel.got + FuelTtl
  <2>1. now \in Nat /\ start[r] \in 0..now /\ at[r] \in Int
    BY SignalsConstants DEF SignalsInv, SignalsTypeOK
  <2>2. at[r] <= start[r] + Ahead
    BY DEF SignalsInv, RecordPart
  <2>3. fuel \in [got : 0..now, until : Nat] /\ fuel.until <= fuel.got + FuelTtl
    BY DEF SignalsInv, SignalsTypeOK, FuelInv
  <2> QED
    BY <2>1, <2>2, <2>3
<1>3. /\ Ahead \in Nat /\ DatedAhead \in Nat /\ DatedBack \in Nat /\ FuelTtl \in Nat
      /\ Lead \in Nat
  BY SignalsConstants
<1>4. fuel' = fuel => fuel' \in [got : 0..now, until : Nat] /\ FuelInv'
  BY <1>2 DEF FuelInv
<1>5. CASE at[r] > now + Lead /\ Live(r, "watttime", now, at[r]) /\ UNCHANGED fuel
  <2>1. start[r] < at[r]
    BY <1>2, <1>3, <1>5
  <2>2. at[r] <= now + 0 + Ahead
    BY <1>2, <1>3
  <2> QED
    BY <1>1, <1>2, <1>3, <1>4, <1>5, <2>1, <2>2, LiveGives DEF Genuine
<1>6. CASE Copied /\ Live(r, "fuelmix", fuel.got, at[r]) /\ UNCHANGED fuel
  <2>1. now < fuel.got + FuelTtl
    BY <1>2, <1>3, <1>6 DEF Copied
  <2>2. start[r] <= fuel.got + FuelTtl /\ at[r] <= fuel.got + FuelTtl + Ahead
    BY <1>2, <1>3, <2>1
  <2> QED
    BY <1>1, <1>2, <1>4, <1>6, <2>2, LiveGives DEF Genuine
<1>7. CASE fuel' = [got |-> now, until |-> now + FuelTtl] /\ Live(r, "fuelmix", now, at[r])
  <2>1. fuel' \in [got : 0..now, until : Nat] /\ FuelInv'
    BY <1>2, <1>3, <1>7 DEF FuelInv
  <2>2. start[r] <= now + FuelTtl /\ at[r] <= now + FuelTtl + Ahead
    BY <1>2, <1>3
  <2> QED
    BY <1>1, <1>2, <1>7, <2>1, <2>2, LiveGives DEF Genuine
<1>8. CASE Live(r, "current", now, at[r]) /\ UNCHANGED fuel
  <2>1. start[r] <= now + 0 /\ at[r] <= now + 0 + Ahead
    BY <1>2, <1>3
  <2> QED
    BY <1>1, <1>2, <1>4, <1>8, <2>1, LiveGives DEF Genuine
<1>9. ASSUME NEW d \in -DatedBack..DatedAhead, Live(r, "dated", now, now + d), UNCHANGED fuel
      PROVE  SignalsInv'
  <2>1. now + d \in Int /\ start[r] <= now + 0 /\ now + d <= now + 0 + DatedAhead
    BY <1>2, <1>3
  <2> QED
    BY <1>1, <1>2, <1>4, <1>9, <2>1, LiveGives DEF Genuine
<1>10. CASE Baseline(r) /\ UNCHANGED fuel
  <2>1. record' = [record EXCEPT ![r] = Nothing] /\ pc' = [pc EXCEPT ![r] = "reading"]
    BY <1>10 DEF Baseline, Goto, Nothing
  <2>2. SignalsTypeOK'
    BY <1>1, <1>10, <2>1, EmptyRecords DEF SignalsInv, SignalsTypeOK
  <2>3. \A s \in Requests \ {r} : Still(s)
    BY <1>1, <2>1 DEF Still, SignalsInv, SignalsTypeOK
  <2>4. pc'[r] = "reading" /\ record'[r] = Nothing /\ r \notin warm
    BY <1>1, <2>1 DEF SignalsInv, SignalsTypeOK, RecordPart
  <2>5. RecordPart(r)'
    BY <1>1, <2>4 DEF SignalsInv, RecordPart
  <2>6. BucketInv' /\ FuelInv'
    BY <1>1, <1>10 DEF SignalsInv, BucketInv, FuelInv
  <2> QED
    BY <1>1, <2>2, <2>3, <2>5, <2>6, OwnStepKeeps
<1> QED
  BY <1>5, <1>6, <1>7, <1>8, <1>9, <1>10 DEF Resolve

LEMMA StoreKeeps ==
  ASSUME SignalsInv, NEW r \in Requests, Store(r)
  PROVE  SignalsInv'
<1>1. /\ UNCHANGED <<now, region, fuel, buckets, spread, start, at, record, todo, warm>>
      /\ pc[r] = "storing" /\ pc' = [pc EXCEPT ![r] = "answered"]
  BY DEF Store, Goto, requestVars
<1>2. /\ record[r] \in Record /\ now \in Nat /\ LkgTtl \in Nat \ {0} /\ best.put \in Int
      /\ record[r].ref \in Int
  BY Measures, SignalsConstants DEF SignalsInv, SignalsTypeOK
<1>3. RecordPart(r) /\ Own(r) /\ r \notin warm
  BY <1>1 DEF SignalsInv, RecordPart
<1> DEFINE copy == [record[r] EXCEPT !.put = now]
<1>4. copy \in Record /\ copy.put = now /\ Sound(copy) /\ copy.kind = record[r].kind
  BY <1>2, <1>3, PutFields DEF Own
<1>5. copy.kind # "none"
  BY <1>4 DEF Sound, Good, Genuine
<1>6. \/ /\ lkg' = copy /\ faults' = faults
         /\ best' = IF Better(record[r]) THEN [ref |-> record[r].ref, put |-> now] ELSE best
      \/ Fault /\ UNCHANGED <<lkg, best>>
  BY DEF Store, Keep, Put
<1> HIDE DEF copy
<1>7. faults' \in 0..MaxFaults
  BY <1>6, FaultsCounted DEF SignalsInv
<1>8. \/ best' = best
      \/ best' = [ref |-> record[r].ref, put |-> now] /\ record[r].ref <= now /\ lkg' = copy
  BY <1>6 DEF Better
<1>9. SignalsTypeOK'
  <2>1. lkg' \in Record
    BY <1>4, <1>6 DEF SignalsInv, SignalsTypeOK
  <2>2. best' \in [ref : Int, put : Nat \cup {-1}]
    BY <1>2, <1>8 DEF SignalsInv, SignalsTypeOK
  <2> QED
    BY <1>1, <1>7, <2>1, <2>2 DEF SignalsInv, SignalsTypeOK
<1>10. \A s \in Requests : RecordPart(s)'
  <2>1. \A s \in Requests \ {r} : RecordPart(s)'
    <3> SUFFICES ASSUME NEW s \in Requests \ {r} PROVE RecordPart(s)'
      OBVIOUS
    <3>1. Still(s)
      BY <1>1 DEF Still, SignalsInv, SignalsTypeOK
    <3> QED
      BY <3>1, StillKeeps
  <2>2. pc'[r] = "answered"
    BY <1>1 DEF SignalsInv, SignalsTypeOK
  <2>3. Own(r)'
    BY <1>1, <1>3 DEF Own
  <2>4. RecordPart(r)'
    BY <1>1, <1>3, <2>2, <2>3 DEF RecordPart
  <2> QED
    BY <2>1, <2>4
<1>11. LkgInv'
  <2>1. CASE lkg' = lkg
    BY <1>1, <2>1 DEF SignalsInv, LkgInv
  <2>2. CASE lkg' = copy
    BY <1>1, <1>2, <1>4, <2>2 DEF LkgInv
  <2> QED
    BY <1>6, <2>1, <2>2
<1>12. BestInv'
  <2>1. CASE best' = best /\ lkg' = lkg
    BY <1>1, <2>1 DEF SignalsInv, BestInv
  <2>2. CASE best' = best /\ lkg' = copy
    <3>1. best.put >= 0 => best.ref <= best.put /\ best.put <= now
      BY DEF SignalsInv, BestInv
    <3> QED
      BY <1>1, <1>4, <1>5, <2>2, <3>1 DEF BestInv
  <2>3. CASE best' = [ref |-> record[r].ref, put |-> now] /\ record[r].ref <= now /\ lkg' = copy
    <3>1. best'.ref = record[r].ref /\ best'.put = now
      BY <2>3
    <3> QED
      BY <1>1, <1>2, <1>4, <1>5, <2>3, <3>1 DEF BestInv
  <2> QED
    BY <1>6, <1>8, <2>1, <2>2, <2>3
<1>13. BucketInv' /\ FuelInv'
  BY <1>1 DEF SignalsInv, BucketInv, FuelInv
<1> QED
  BY <1>9, <1>10, <1>11, <1>12, <1>13 DEF SignalsInv

LEMMA SubstituteKeeps ==
  ASSUME SignalsInv, NEW r \in Requests, Substitute(r)
  PROVE  SignalsInv'
<1>1. /\ UNCHANGED <<now, region, fuel, lkg, buckets, spread, start, at, todo, warm, best, faults>>
      /\ pc[r] = "reading" /\ pc' = [pc EXCEPT ![r] = "answered"]
  BY DEF Substitute, Goto, redisVars, requestVars, historyVars
<1>2. /\ lkg \in Record /\ lkg.ref \in Int /\ lkg.put \in Nat /\ lkg.margins \in Nat
      /\ at[r] \in Int /\ start[r] \in Nat /\ start[r] <= now /\ now \in Nat
      /\ record \in [Requests -> Record] /\ MaxAge \in Nat /\ LkgTtl \in Nat
  BY SignalsConstants, Measures DEF SignalsInv, SignalsTypeOK
<1>3. RecordPart(r) /\ record[r] = Nothing /\ r \notin warm
  BY <1>1 DEF SignalsInv, RecordPart
<1> DEFINE sub == [lkg EXCEPT !.margins = @ + 1, !.degraded = TRUE]
<1>4. \/ Usable(at[r]) /\ record' = [record EXCEPT ![r] = sub]
      \/ UNCHANGED record
  BY DEF Substitute
<1>5. /\ sub \in Record /\ sub.kind = lkg.kind /\ sub.got = lkg.got /\ sub.ref = lkg.ref
      /\ sub.since = lkg.since /\ sub.past = lkg.past /\ sub.put = lkg.put /\ sub.margins = lkg.margins + 1
      /\ sub.degraded = TRUE
  BY <1>2, SubstituteFields
<1>6. record' = [record EXCEPT ![r] = sub] \/ UNCHANGED record
  BY <1>4
<1> HIDE DEF sub
<1>7. record' \in [Requests -> Record] /\ \A s \in Requests \ {r} : record'[s] = record[s]
  BY <1>2, <1>5, <1>6
<1>8. record'[r] = Nothing \/ StandsIn(r)'
  <2>1. CASE UNCHANGED record
    BY <1>3, <2>1
  <2>2. CASE Usable(at[r]) /\ record' = [record EXCEPT ![r] = sub]
    <3>1. record'[r] = sub
      BY <1>2, <2>2
    <3>2. lkg.kind \notin {"none", "watttime"} /\ at[r] - lkg.ref <= MaxAge
      BY <2>2 DEF Usable
    <3>3. Sound(lkg) /\ now < lkg.put + LkgTtl
      BY <3>2 DEF SignalsInv, LkgInv
    <3>4. lkg.kind \in Genuine \ {"watttime"} /\ lkg.margins = 0
      BY <3>2, <3>3 DEF Sound, Good
    <3>5. Known(sub)
      BY <1>5, <3>3 DEF Sound, Known, Lag, Skew
    <3>6. start[r] < sub.put + LkgTtl /\ at[r] - sub.ref <= MaxAge /\ sub.margins = 1
      BY <1>2, <1>5, <3>2, <3>3, <3>4
    <3> QED
      BY <1>1, <1>5, <3>1, <3>4, <3>5, <3>6 DEF StandsIn
  <2> QED
    BY <1>4, <2>1, <2>2
<1>9. pc'[r] = "answered" /\ \A s \in Requests \ {r} : Still(s)
  BY <1>1, <1>7 DEF SignalsInv, SignalsTypeOK, Still
<1>10. SignalsTypeOK'
  BY <1>1, <1>7 DEF SignalsInv, SignalsTypeOK
<1>11. RecordPart(r)'
  BY <1>1, <1>3, <1>8, <1>9 DEF RecordPart
<1>12. BucketInv' /\ FuelInv'
  BY <1>1 DEF SignalsInv, BucketInv, FuelInv
<1> QED
  BY <1>1, <1>9, <1>10, <1>11, <1>12, OwnStepKeeps

LEMMA WriteBucketKeeps ==
  ASSUME SignalsInv, NEW r \in Requests, NEW b \in Buckets, WriteBucket(r, b)
  PROVE  SignalsInv'
<1> DEFINE copy == [record[r] EXCEPT !.put = now]
<1>1. /\ UNCHANGED <<now, region, fuel, lkg, pc, start, at, record, warm, best>>
      /\ pc[r] = "answered" /\ b \in todo[r] /\ todo' = [todo EXCEPT ![r] = @ \ {b}]
      /\ buckets' = buckets \/ buckets' = [buckets EXCEPT ![b] = copy]
      /\ spread' = spread \/ spread' = [spread EXCEPT ![b] = now + BucketTtl]
      /\ faults' = faults \/ Fault
  BY DEF WriteBucket, Put, requestVars, historyVars
<1>2. faults' \in 0..MaxFaults
  BY <1>1, FaultsCounted DEF SignalsInv
<1>3. record[r] \in Record /\ now \in Nat /\ BucketTtl \in Nat \ {0} /\ start[r] \in Int
  BY SignalsConstants DEF SignalsInv, SignalsTypeOK
<1>4. /\ copy \in Record /\ copy.put = now /\ copy.kind = record[r].kind
      /\ copy.degraded = record[r].degraded /\ copy.ref = record[r].ref
      /\ Sound(record[r]) => Sound(copy)
  BY <1>3, PutFields
<1>5. RecordPart(r) /\ r \notin warm /\ (record[r] = Nothing \/ Own(r) \/ StandsIn(r))
  BY <1>1 DEF SignalsInv, RecordPart
<1>6. Serves(copy) => Sound(copy) /\ (copy.kind = "watttime" => copy.ref = b)
  <2> HIDE DEF copy
  <2> SUFFICES ASSUME Serves(copy)
               PROVE  Sound(copy) /\ (copy.kind = "watttime" => copy.ref = b)
    OBVIOUS
  <2>1. ~record[r].degraded
    BY <1>4 DEF Serves
  <2>2. Own(r)
    BY <1>5, <2>1, EmptyRecords DEF StandsIn
  <2>3. copy.kind = "watttime" => record[r].ref = at[r] /\ start[r] < at[r]
    BY <1>4, <2>2 DEF Own
  <2>4. start[r] < at[r] => b = at[r]
    BY <1>1, <1>3, <1>5 DEF RecordPart
  <2> QED
    BY <1>4, <2>2, <2>3, <2>4 DEF Own
<1> HIDE DEF copy
<1>7. SignalsTypeOK'
  <2>1. buckets' \in [Buckets -> Record] /\ spread' \in [Buckets -> Nat]
    BY <1>1, <1>3, <1>4 DEF SignalsInv, SignalsTypeOK
  <2>2. todo' \in [Requests -> SUBSET Buckets]
    BY <1>1 DEF SignalsInv, SignalsTypeOK
  <2> QED
    BY <1>1, <1>2, <2>1, <2>2 DEF SignalsInv, SignalsTypeOK
<1>8. BucketInv'
  <2>1. \A c \in Buckets : buckets'[c] = buckets[c] \/ (c = b /\ buckets'[c] = copy)
    BY <1>1 DEF SignalsInv, SignalsTypeOK
  <2>2. now < copy.put + BucketTtl
    BY <1>3, <1>4
  <2> QED
    BY <1>1, <1>6, <2>1, <2>2 DEF SignalsInv, BucketInv
<1>9. \A s \in Requests : Still(s)
  BY <1>1 DEF Still, SignalsInv, SignalsTypeOK
<1>10. RecordPart(r)'
  BY <1>9, StillKeeps
<1>11. FuelInv'
  BY <1>1 DEF SignalsInv, FuelInv
<1> QED
  BY <1>1, <1>7, <1>8, <1>9, <1>10, <1>11, OwnStepKeeps

LEMMA SignalsStep == SignalsInv /\ [SignalsNext]_signalVars => SignalsInv'
<1> SUFFICES ASSUME SignalsInv, [SignalsNext]_signalVars PROVE SignalsInv'
  OBVIOUS
<1>1. CASE Tick
  BY <1>1, TickKeeps
<1>2. CASE Evict
  BY <1>2, EvictKeeps
<1>3. ASSUME NEW r \in Requests, Ask(r) \/ Look(r) PROVE SignalsInv'
  BY <1>3, AskKeeps, LookKeeps
<1>4. ASSUME NEW r \in Requests, Compare(r) \/ Rebuild(r) \/ ReadFails(r) PROVE SignalsInv'
  BY <1>4, CompareKeeps
<1>5. ASSUME NEW r \in Requests, Resolve(r) \/ Store(r) \/ Substitute(r) PROVE SignalsInv'
  BY <1>5, ResolveKeeps, StoreKeeps, SubstituteKeeps
<1>6. ASSUME NEW r \in Requests, NEW b \in Buckets, WriteBucket(r, b) PROVE SignalsInv'
  BY <1>6, WriteBucketKeeps
<1>7. CASE UNCHANGED signalVars
  <2>1. /\ UNCHANGED <<now, region, fuel, lkg, buckets, spread, pc, start, at, record, todo, warm,
                       best, faults>>
    BY <1>7 DEF signalVars, redisVars, requestVars, historyVars
  <2>2. \A r \in Requests : RecordPart(r)'
    BY <2>1, StillKeeps DEF Still
  <2> QED
    BY <2>1, <2>2 DEF SignalsInv, SignalsTypeOK, BucketInv, LkgInv, FuelInv, BestInv
<1> QED
  BY <1>1, <1>2, <1>3, <1>4, <1>5, <1>6, <1>7 DEF SignalsNext, Resolution

LEMMA SignalsInvariant == SignalsSpec => []SignalsInv
BY SignalsBegin, SignalsStep, PTL DEF SignalsSpec

\* What an answered request rests on.
LEMMA Answers ==
  ASSUME SignalsInv, NEW r \in Requests, pc[r] = "answered"
  PROVE  IF r \in warm THEN Found(r) ELSE record[r] = Nothing \/ Own(r) \/ StandsIn(r)
BY DEF SignalsInv, RecordPart

\* For any number of requests, whatever times they ask for, and any lifetimes of
\* the caches: a degraded signal shows that it is one wherever it is passed on,
\* and a forecast answers for its own time only.
THEOREM SubstitutesMarked == SignalsSpec => [](SignalsTypeOK /\ SubstitutesAreMarked)
<1>1. SignalsInv => SignalsTypeOK /\ SubstitutesAreMarked
  <2> SUFFICES ASSUME SignalsInv PROVE SignalsTypeOK /\ SubstitutesAreMarked
    OBVIOUS
  <2>1. ASSUME NEW r \in warm PROVE record[r].kind \in Genuine /\ record[r].margins = 0
    <3>1. r \in Requests /\ pc[r] = "answered"
      BY <2>1 DEF SignalsInv, SignalsTypeOK, RecordPart
    <3> QED
      BY <2>1, <3>1, Answers DEF Found, Sound, Good
  <2>2. ASSUME NEW r \in Requests, pc[r] = "answered"
        PROVE  /\ record[r].margins <= 1
               /\ record[r].kind = "watttime" => record[r].margins = 0 /\ record[r].ref = at[r]
    <3>1. CASE Found(r)
      BY <3>1 DEF Found, Sound, Good
    <3>2. CASE Own(r)
      BY <3>2 DEF Own, Sound, Good
    <3>3. CASE StandsIn(r)
      BY <3>3 DEF StandsIn
    <3>4. CASE record[r] = Nothing
      <4>1. record[r].kind = "baseline" /\ record[r].margins = 0
        BY <3>4, EmptyRecords
      <4> QED
        BY <4>1
    <3> QED
      BY <2>2, <3>1, <3>2, <3>3, <3>4, Answers
  <2> QED
    BY <2>1, <2>2 DEF SignalsInv, SubstitutesAreMarked, Answered
<1> QED
  BY <1>1, SignalsInvariant, PTL

\* A decision's reading is as old as the cache it comes from lasts and, at the
\* time asked for, a substitute is within the age limit but for how far a reading
\* may be dated after it was obtained: for any times asked for and given.
THEOREM AgesExplained == SignalsSpec => []AgeExplained
<1>1. SignalsInv => AgeExplained
  <2> SUFFICES ASSUME SignalsInv, NEW r \in Requests, pc[r] = "answered",
                      record[r].kind \in Genuine
               PROVE  LET rec == record[r]
                          age == start[r] - rec.got
                      IN /\ r \in warm => age < BucketTtl + Lag(rec) + Delay(rec)
                         /\ rec.margins = 1 =>
                              /\ age < LkgTtl + Lag(rec) + Delay(rec)
                              /\ at[r] - rec.got <= MaxAge + Lag(rec) + Skew(rec)
                         /\ r \notin warm /\ rec.margins = 0 => age <= Lag(rec)
    BY DEF AgeExplained, Answered
  <2>1. /\ start[r] \in Nat /\ at[r] \in Int /\ record[r].got \in Nat /\ record[r].ref \in Int
        /\ record[r].since \in Nat /\ record[r].put \in Nat /\ record[r].margins \in Nat
        /\ Lag(record[r]) \in Nat /\ Skew(record[r]) \in Nat
        /\ MaxAge \in Nat /\ LkgTtl \in Nat /\ BucketTtl \in Nat
    <3>1. record[r] \in Record /\ start[r] \in Nat /\ at[r] \in Int
      BY SignalsConstants DEF SignalsInv, SignalsTypeOK
    <3> QED
      BY <3>1, Measures, SignalsConstants
  <2>2. CASE r \in warm
    <3>1. /\ record[r].margins = 0 /\ start[r] < record[r].put + BucketTtl
          /\ record[r].since - record[r].got <= Lag(record[r])
      BY <2>2, Answers DEF Found, Sound, Good, Known
    <3> QED
      BY <2>1, <2>2, <3>1 DEF Delay
  <2>3. CASE r \notin warm /\ Own(r)
    <3>1. /\ record[r].margins = 0 /\ record[r].since = start[r]
          /\ record[r].since - record[r].got <= Lag(record[r])
      BY <2>3 DEF Own, Sound, Good, Known
    <3> QED
      BY <2>1, <2>3, <3>1
  <2>4. CASE r \notin warm /\ StandsIn(r)
    <3>1. /\ record[r].margins = 1 /\ start[r] < record[r].put + LkgTtl
          /\ at[r] - record[r].ref <= MaxAge
          /\ record[r].since - record[r].got <= Lag(record[r])
          /\ record[r].ref - record[r].got <= Lag(record[r]) + Skew(record[r])
      BY <2>4 DEF StandsIn, Known
    <3> QED
      BY <2>1, <2>4, <3>1 DEF Delay
  <2>5. record[r] # Nothing
    BY EmptyRecords DEF Genuine
  <2> QED
    BY <2>2, <2>3, <2>4, <2>5, Answers
<1> QED
  BY <1>1, SignalsInvariant, PTL

\* The best reading stored as last-known-good is there until it expires, unless a
\* later store took its place: one dated no earlier, but for a past time asked for,
\* a provider's older time, or an overlap.
THEOREM UsableKept == SignalsSpec => []UsableIsKept
<1>1. SignalsInv => UsableIsKept
  <2> SUFFICES ASSUME SignalsInv, best.put >= 0 PROVE UsableIsKept
    BY DEF UsableIsKept
  <2>1. lkg \in Record /\ best.ref \in Int /\ best.put \in Int
    BY DEF SignalsInv, SignalsTypeOK
  <2>2. lkg.ref \in Int /\ lkg.since \in Int /\ lkg.put \in Int
    BY <2>1, Measures
  <2>3. LkgInv /\ best.ref <= best.put /\ lkg.kind # "none" /\ best.put <= lkg.put
    BY DEF SignalsInv, BestInv
  <2>4. lkg.kind \in Genuine /\ lkg.put >= best.put
    BY <2>1, <2>2, <2>3 DEF LkgInv, Sound, Good
  <2>5. lkg.kind = "dated" \/ lkg.past \/ lkg.since <= lkg.ref
    BY <2>3 DEF LkgInv, Sound, Known
  <2>6. CASE lkg.ref >= best.ref \/ lkg.since < best.put \/ lkg.past
    BY <2>4, <2>6 DEF UsableIsKept
  <2>7. CASE lkg.ref < best.ref /\ lkg.since >= best.put /\ ~lkg.past
    <3>1. lkg.ref < lkg.since
      BY <2>1, <2>2, <2>3, <2>7
    <3>2. lkg.kind = "dated"
      BY <2>2, <2>5, <2>7, <3>1
    <3> QED
      BY <2>4, <3>1, <3>2 DEF UsableIsKept
  <2> QED
    BY <2>1, <2>2, <2>6, <2>7
<1> QED
  BY <1>1, SignalsInvariant, PTL
=============================================================================
