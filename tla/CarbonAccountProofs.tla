------------------------ MODULE CarbonAccountProofs ------------------------
(***************************************************************************)
(* The quota, the credits, the cover and the figures for any number of     *)
(* commands, reports, credits, calls and faults. The usage counter lags    *)
(* behind the commands by what is still to be counted; a credit that a     *)
(* call lays claim to is retired from the call's update on; a checked      *)
(* cover is lost only to a retirement; and a row of the figures holds at   *)
(* least the outcomes surely added to it, at most those ever added.        *)
(***************************************************************************)
EXTENDS CarbonAccount, FiniteSetTheorems, TLAPS

(***************************************************************************)
(* The quota.                                                              *)
(***************************************************************************)

\* What the usage side needs of the types.
UsageTypes ==
  /\ tier \in {"FREE", "GROWTH", "ENTERPRISE"}
  /\ call \in [Calls -> CallStates]
  /\ counted \subseteq commands /\ commands \subseteq Calls
  /\ pending \subseteq commands
  /\ count \in Nat /\ doubled \in Nat /\ excess \in Nat

\* The counter counts the counted commands and the doubled increments.
CountInv == count = Cardinality(counted) + doubled

\* The commands made and in progress exceed the quota by no more than excess.
QuotaInv == tier # "ENTERPRISE" => Cardinality(InProgress \cup commands) <= Cap + excess

\* Only an organization with a quota refuses, and only with the counter at it.
RefusalInv ==
  \A c \in Calls : call[c] = "overQuota" =>
    tier # "ENTERPRISE" /\ Cardinality(counted) + doubled >= Cap

UsageInv == UsageTypes /\ CountInv /\ QuotaInv /\ RefusalInv

LEMMA CapNat == Cap \in Nat
BY AccountAssumption DEF Cap

\* Subsets of the requests have cardinalities, and those of larger ones are larger.
LEMMA FiniteCalls ==
  ASSUME NEW S \in SUBSET Calls
  PROVE  /\ IsFiniteSet(S) /\ Cardinality(S) \in Nat
         /\ \A T \in SUBSET S : Cardinality(T) \in Nat /\ Cardinality(T) <= Cardinality(S)
<1>1. IsFiniteSet(S)
  BY FS_Subset, AccountAssumption
<1>2. \A T \in SUBSET S : IsFiniteSet(T) /\ Cardinality(T) <= Cardinality(S)
  BY <1>1, FS_Subset
<1> QED
  BY <1>1, <1>2, FS_CardinalityType

\* One more request past the check: the counted ones are below the cap, the others
\* are the excess.
LEMMA AdmitBound ==
  ASSUME UsageTypes, CountInv, tier # "ENTERPRISE", WithinQuota,
         NEW c \in Calls, call[c] = "new"
  PROVE  Cardinality(InProgress \cup commands \cup {c}) <= Cap + Cardinality(Uncounted)
<1> DEFINE B == InProgress \cup commands
<1>1. B \in SUBSET Calls /\ counted \in SUBSET B
  BY DEF UsageTypes, InProgress
<1>2. IsFiniteSet(B) /\ IsFiniteSet(counted) /\ IsFiniteSet(Uncounted)
  <2>1. counted \in SUBSET Calls /\ Uncounted \in SUBSET Calls
    BY <1>1 DEF Uncounted
  <2> QED
    BY <1>1, <2>1, FiniteCalls
<1>3. B = counted \cup Uncounted /\ counted \cap Uncounted = {}
  BY <1>1 DEF Uncounted
<1>4. Cardinality(B) = Cardinality(counted) + Cardinality(Uncounted)
  <2>1. /\ Cardinality(counted \cap Uncounted) = 0
        /\ Cardinality(counted \cup Uncounted)
             = Cardinality(counted) + Cardinality(Uncounted) - Cardinality(counted \cap Uncounted)
    BY <1>2, <1>3, FS_Union, FS_EmptySet
  <2>2. Cardinality(counted) \in Nat /\ Cardinality(Uncounted) \in Nat
    BY <1>2, FS_CardinalityType
  <2> QED
    BY <1>3, <2>1, <2>2
<1>5. Cardinality(B \cup {c}) <= Cardinality(B) + 1
  <2>1. Cardinality(B) \in Nat
    BY <1>2, FS_CardinalityType
  <2>2. Cardinality(B \cup {c}) = IF c \in B THEN Cardinality(B) ELSE Cardinality(B) + 1
    BY <1>2, FS_AddElement
  <2> QED
    BY <2>1, <2>2
<1>6. Cardinality(counted) + doubled < Cap
  BY DEF CountInv, WithinQuota
<1>7. /\ Cardinality(counted) \in Nat /\ Cardinality(Uncounted) \in Nat
      /\ Cardinality(B) \in Nat /\ Cardinality(B \cup {c}) \in Nat
  BY <1>2, FS_CardinalityType, FS_AddElement
<1> QED
  BY <1>4, <1>5, <1>6, <1>7, CapNat DEF UsageTypes

LEMMA UsageInitially == Init => UsageInv
<1> SUFFICES ASSUME Init PROVE UsageInv
  OBVIOUS
<1>1. PICK old \in SUBSET Calls :
        /\ tier = "ENTERPRISE" \/ Cardinality(old) <= Limit
        /\ call = [c \in Calls |-> IF c \in old THEN "earlier" ELSE "new"]
        /\ commands = old /\ counted = old /\ count = Cardinality(old)
  BY DEF Init
<1>2. InProgress = {} /\ Limit <= Cap
  BY <1>1, AccountAssumption DEF InProgress, Cap
<1>3. Cardinality(old) \in Nat /\ InProgress \cup commands = old
  BY <1>1, <1>2, FiniteCalls
<1>4. UsageTypes /\ CountInv
  BY <1>1, <1>3 DEF Init, UsageTypes, CountInv, CallStates
<1>5. QuotaInv /\ RefusalInv
  BY <1>1, <1>2, <1>3, CapNat, AccountAssumption DEF Init, QuotaInv, RefusalInv
<1> QED
  BY <1>4, <1>5 DEF UsageInv

\* A step that keeps the counter and brings no request past the check.
LEMMA UsageKept ==
  ASSUME UsageInv, UsageTypes',
         UNCHANGED <<tier, count, counted, doubled, excess>>,
         (InProgress \cup commands)' \subseteq InProgress \cup commands,
         \A c \in Calls : call'[c] = "overQuota" => call[c] = "overQuota"
  PROVE  UsageInv'
<1>1. CountInv'
  BY DEF UsageInv, CountInv
<1>2. Cap' = Cap
  BY DEF Cap
<1>3. RefusalInv'
  BY <1>2 DEF UsageInv, RefusalInv
<1>4. QuotaInv'
  <2>1. InProgress \cup commands \in SUBSET Calls
    BY DEF UsageInv, UsageTypes, InProgress
  <2>2. Cardinality((InProgress \cup commands)') <= Cardinality(InProgress \cup commands)
    BY <2>1, FiniteCalls
  <2>3. /\ Cardinality((InProgress \cup commands)') \in Nat
        /\ Cardinality(InProgress \cup commands) \in Nat
    BY <2>1, FiniteCalls
  <2>4. excess \in Nat /\ excess' = excess
    BY DEF UsageInv, UsageTypes
  <2> SUFFICES ASSUME tier' # "ENTERPRISE"
               PROVE  Cardinality((InProgress \cup commands)') <= Cap' + excess'
    BY DEF QuotaInv
  <2>5. Cardinality(InProgress \cup commands) <= Cap + excess
    BY DEF UsageInv, QuotaInv
  <2> QED
    BY <1>2, <2>2, <2>3, <2>4, <2>5, CapNat
<1> QED
  BY <1>1, <1>3, <1>4 DEF UsageInv

\* An increment counts a command, or doubles one already counted.
LEMMA ChargeKept ==
  ASSUME UsageInv, NEW c \in commands, Charge(c),
         UNCHANGED <<tier, call, commands, excess>>, pending' \subseteq pending
  PROVE  UsageInv'
<1>1. UsageTypes'
  BY DEF UsageInv, UsageTypes, Charge
<1>2. IsFiniteSet(counted) /\ Cardinality(counted) \in Nat
  BY FiniteCalls DEF UsageInv, UsageTypes
<1>3. Cardinality(counted') = IF c \in counted THEN Cardinality(counted) ELSE Cardinality(counted) + 1
  BY <1>2, FS_AddElement DEF Charge
<1>4. CountInv'
  BY <1>2, <1>3 DEF UsageInv, UsageTypes, CountInv, Charge
<1>5. Cap' = Cap /\ InProgress' = InProgress
  BY DEF Cap, InProgress
<1>6. Cardinality(counted') + doubled' >= Cardinality(counted) + doubled
  BY <1>2, <1>3 DEF UsageInv, UsageTypes, Charge
<1>7. RefusalInv'
  <2>1. /\ Cardinality(counted') + doubled' \in Nat
        /\ Cardinality(counted) + doubled \in Nat
    BY <1>2, <1>3 DEF UsageInv, UsageTypes, Charge
  <2> SUFFICES ASSUME NEW d \in Calls, call'[d] = "overQuota"
               PROVE  tier' # "ENTERPRISE" /\ Cardinality(counted') + doubled' >= Cap'
    BY DEF RefusalInv
  <2>2. call[d] = "overQuota" /\ tier' = tier
    OBVIOUS
  <2>3. tier # "ENTERPRISE" /\ Cardinality(counted) + doubled >= Cap
    BY <2>2 DEF UsageInv, RefusalInv
  <2> QED
    BY <1>5, <1>6, <2>1, <2>2, <2>3, CapNat
<1>8. QuotaInv'
  BY <1>5 DEF UsageInv, QuotaInv
<1> QED
  BY <1>1, <1>4, <1>7, <1>8 DEF UsageInv

LEMMA UsageNext == UsageInv /\ [Next]_vars => UsageInv'
<1> SUFFICES ASSUME UsageInv, [Next]_vars PROVE UsageInv'
  OBVIOUS
<1> USE DEF CallStates
<1>1. ASSUME NEW c \in Calls, Admit(c) PROVE UsageInv'
  <2>0. call[c] = "new" /\ UsageTypes
    BY <1>1 DEF Admit, UsageInv
  <2>1. CASE WithinQuota /\ call' = [call EXCEPT ![c] = "admitted"]
                         /\ excess' = Cardinality(Uncounted)
    <3>1. Uncounted \in SUBSET Calls
      BY <2>0 DEF UsageTypes, Uncounted, InProgress
    <3>2. UsageTypes' /\ Cap' = Cap
      BY <1>1, <2>0, <2>1, <3>1, FiniteCalls DEF Admit, UsageTypes, Cap
    <3>3. (InProgress \cup commands)' = InProgress \cup commands \cup {c}
      BY <1>1, <2>0, <2>1 DEF Admit, UsageTypes, InProgress
    <3>4. QuotaInv'
      BY <1>1, <2>0, <2>1, <3>2, <3>3, AdmitBound DEF Admit, UsageInv, QuotaInv
    <3>5. CountInv' /\ RefusalInv'
      BY <1>1, <2>0, <2>1, <3>2 DEF Admit, UsageInv, UsageTypes, CountInv, RefusalInv
    <3> QED
      BY <3>2, <3>4, <3>5 DEF UsageInv
  <2>2. CASE ~WithinQuota /\ call' = [call EXCEPT ![c] = "overQuota"] /\ UNCHANGED excess
    <3>1. UsageTypes' /\ CountInv' /\ Cap' = Cap
      BY <1>1, <2>0, <2>2 DEF Admit, UsageInv, UsageTypes, CountInv, Cap
    <3>2. (InProgress \cup commands)' = InProgress \cup commands
      BY <1>1, <2>0, <2>2 DEF Admit, UsageTypes, InProgress
    <3>3. QuotaInv'
      BY <1>1, <2>2, <3>1, <3>2 DEF Admit, UsageInv, QuotaInv
    <3>4. tier # "ENTERPRISE" /\ Cardinality(counted) + doubled >= Cap
      <4>1. /\ count \in Nat /\ count = Cardinality(counted) + doubled
            /\ Cardinality(counted) \in Nat /\ doubled \in Nat
        BY <2>0, FiniteCalls DEF UsageInv, CountInv, UsageTypes
      <4> QED
        BY <2>2, <4>1, CapNat DEF WithinQuota
    <3>5. RefusalInv'
      BY <1>1, <2>2, <3>1, <3>4 DEF Admit, RefusalInv
    <3> QED
      BY <3>1, <3>3, <3>5 DEF UsageInv
  <2> QED
    BY <1>1, <2>1, <2>2 DEF Admit
<1>2. ASSUME NEW c \in Calls, Evaluate(c) \/ Persist(c) \/ CallFails(c) PROVE UsageInv'
  <2>1. UsageTypes' /\ UNCHANGED <<tier, count, counted, doubled, excess>>
    BY <1>2 DEF UsageInv, UsageTypes, Evaluate, Persist, CallFails, InProgress
  <2>2. (InProgress \cup commands)' \subseteq InProgress \cup commands
    BY <1>2 DEF UsageInv, UsageTypes, Evaluate, Persist, CallFails, InProgress
  <2>3. \A d \in Calls : call'[d] = "overQuota" => call[d] = "overQuota"
    BY <1>2 DEF UsageInv, UsageTypes, Evaluate, Persist, CallFails, InProgress
  <2> QED
    BY <2>1, <2>2, <2>3, UsageKept
<1>3. ASSUME NEW c \in Calls, Increment(c) PROVE UsageInv'
  <2>1. c \in commands
    BY <1>3 DEF Increment, UsageInv, UsageTypes
  <2> QED
    BY <1>3, <2>1, ChargeKept DEF Increment
<1>4. ASSUME NEW c \in Calls, IncrementFails(c) PROVE UsageInv'
  <2>1. c \in commands /\ pending' \subseteq pending
    BY <1>4 DEF IncrementFails, UsageInv, UsageTypes
  <2>2. CASE Charge(c)
    BY <1>4, <2>1, <2>2, ChargeKept DEF IncrementFails
  <2>3. CASE UNCHANGED <<count, counted, doubled>>
    <3>1. UsageTypes' /\ InProgress' = InProgress
      BY <1>4, <2>1, <2>3 DEF IncrementFails, UsageInv, UsageTypes, InProgress
    <3> QED
      BY <1>4, <2>3, <3>1, UsageKept DEF IncrementFails
  <2> QED
    BY <1>4, <2>2, <2>3 DEF IncrementFails
<1>5. ASSUME (\E r \in Reports : Report(r)) \/ CreditStep \/ UNCHANGED vars PROVE UsageInv'
  <2>1. UNCHANGED <<tier, call, commands, count, pending, counted, doubled, excess>>
    BY <1>5 DEF Report, Check, RecordOutcome, ReadFigures, WriteFigures, ReportFails, CreditStep,
                usageVars, vars
  <2>2. UsageTypes' /\ InProgress' = InProgress
    BY <2>1 DEF UsageInv, UsageTypes, InProgress
  <2> QED
    BY <2>1, <2>2, UsageKept
<1> QED
  BY <1>1, <1>2, <1>3, <1>4, <1>5 DEF Next, Command

(***************************************************************************)
(* The credits. A call lays claim to the credits it is going to count: an  *)
(* automatic offset to those it chose, a retirement to those it retired.   *)
(* Two calls that claim one credit were in progress together, and what is  *)
(* counted without a claim was named by a retirement after the fact.       *)
(***************************************************************************)
CreditTypes ==
  /\ bought \in Seq(Credits)
  /\ retired \subseteq Bought
  /\ op \in [Ops -> OpStates]
  /\ ids \in [Ops -> SUBSET Credits]
  /\ offsets \in [Ops -> SUBSET Credits]
  /\ took \in [Ops -> SUBSET Credits]

Counting(o) == op[o] \in {"chosen", "retired"} \/ offsets[o] # {}
Claims(o)   == {c \in ids[o] : o \in autos \/ c \in took[o]}

\* What one call has done in each of its states.
CallOk(o) ==
  /\ took[o] \subseteq ids[o] \cap retired
  /\ offsets[o] \subseteq ids[o]
  /\ op[o] \notin {"done", "lost"} => offsets[o] = {}
  /\ op[o] \in {"new", "measured", "chosen"} => took[o] = {}
  /\ op[o] = "new" => o \notin autos
  /\ op[o] \in {"measured", "chosen"} => o \in autos
  /\ op[o] = "chosen" => ids[o] \subseteq Bought
  /\ Counting(o) /\ o \notin autos => took[o] # {}
  /\ Counting(o) /\ op[o] # "chosen" => Claims(o) \subseteq retired

CallInv == \A o \in Ops : CallOk(o)

BusyInv == \A p, q \in Busy : p # q => {p, q} \in overlap

ClaimInv ==
  \A p, q \in Ops : p # q /\ Counting(p) /\ Counting(q) /\ Claims(p) \cap Claims(q) # {}
                      => {p, q} \in overlap

CreditInv == CreditTypes /\ CallInv /\ BusyInv /\ ClaimInv /\ RetiredIsOffset

LEMMA CreditInitially == CreditsInit => CreditInv
<1> SUFFICES ASSUME CreditsInit PROVE CreditInv
  OBVIOUS
<1> USE DEF CreditsInit
<1>1. CreditTypes
  BY DEF CreditTypes, OpStates
<1>2. CallInv
  BY DEF CallInv, CallOk, Counting
<1>3. BusyInv /\ ClaimInv /\ RetiredIsOffset
  BY DEF BusyInv, ClaimInv, RetiredIsOffset, Counting, Busy
<1> QED
  BY <1>1, <1>2, <1>3 DEF CreditInv

\* A step of the call o: the others are as they were.
StepOf(o) ==
  /\ o \in Ops
  /\ bought' = bought
  /\ retired \subseteq retired'
  /\ overlap \subseteq overlap'
  /\ \A q \in Ops \ {o} : /\ op'[q] = op[q] /\ ids'[q] = ids[q]
                           /\ offsets'[q] = offsets[q] /\ took'[q] = took[q]
                           /\ (q \in autos' <=> q \in autos)

\* Then the invariant has to be looked at for o alone.
LEMMA OwnStep ==
  ASSUME NEW o, StepOf(o), CallInv, BusyInv, ClaimInv,
         op[o] = "new" => Meets(o),
         op[o] # "new" /\ o \in Busy' => o \in Busy,
         \A q \in Ops \ {o} :
           Counting(o)' /\ Counting(q) /\ Claims(o)' \cap Claims(q) # {} => {o, q} \in overlap'
  PROVE  BusyInv' /\ ClaimInv' /\ \A q \in Ops \ {o} : CallOk(q)'
<1>1. \A q \in Ops \ {o} : (Counting(q)' <=> Counting(q)) /\ Claims(q)' = Claims(q)
  BY DEF StepOf, Counting, Claims
<1>2. \A q \in Ops \ {o} : q \in Busy' => q \in Busy
  BY DEF StepOf, Busy
<1>3. BusyInv'
  <2> SUFFICES ASSUME NEW p \in Busy', NEW q \in Busy', p # q PROVE {p, q} \in overlap'
    BY DEF BusyInv
  <2>0. p \in Ops /\ q \in Ops
    BY DEF Busy
  <2>1. CASE p # o /\ q # o
    BY <1>2, <2>0, <2>1 DEF StepOf, BusyInv
  <2>2. CASE op[o] # "new"
    <3>1. p \in Busy /\ q \in Busy
      BY <1>2, <2>0, <2>2
    <3> QED
      BY <3>1 DEF BusyInv, StepOf
  <2>3. CASE op[o] = "new" /\ p = o
    BY <1>2, <2>0, <2>3 DEF Meets
  <2>4. CASE op[o] = "new" /\ q = o
    <3>1. p \in Busy \ {o} /\ {p, q} = {o, p}
      BY <1>2, <2>0, <2>4
    <3> QED
      BY <2>4, <3>1 DEF Meets
  <2> QED
    BY <2>1, <2>2, <2>3, <2>4
<1>4. ClaimInv'
  <2> SUFFICES ASSUME NEW p \in Ops, NEW q \in Ops, p # q, Counting(p)', Counting(q)',
                      Claims(p)' \cap Claims(q)' # {}
               PROVE  {p, q} \in overlap'
    BY DEF ClaimInv
  <2>1. CASE p # o /\ q # o
    BY <1>1, <2>1 DEF ClaimInv, StepOf
  <2>2. CASE p = o
    BY <1>1, <2>2
  <2>3. CASE q = o
    <3>1. {p, q} = {o, p} /\ p \in Ops \ {o} /\ Claims(o)' \cap Claims(p) # {}
      BY <1>1, <2>3
    <3> QED
      BY <1>1, <2>3, <3>1
  <2> QED
    BY <2>1, <2>2, <2>3
<1>5. Bought' = Bought
  BY DEF StepOf, Bought
<1>6. \A q \in Ops \ {o} : CallOk(q)'
  BY <1>1, <1>5 DEF StepOf, CallInv, CallOk
<1> QED
  BY <1>3, <1>4, <1>6

\* What a step retires, its call has taken; what it has taken, it keeps or counts.
LEMMA RetiredStep ==
  ASSUME NEW o, StepOf(o), RetiredIsOffset,
         retired' \subseteq retired \cup took'[o],
         retired' # retired => op'[o] \in {"retired", "lost"},
         offsets[o] \subseteq offsets'[o],
         op[o] \in {"retired", "lost"} =>
           \A c \in took[o] : \/ c \in offsets'[o]
                              \/ c \in took'[o] /\ op'[o] \in {"retired", "lost"}
  PROVE  RetiredIsOffset'
<1> SUFFICES ASSUME NEW c \in retired'
             PROVE  \/ \E q \in Ops : c \in offsets'[q]
                    \/ \E q \in Ops : c \in took'[q] /\ op'[q] \in {"retired", "lost"}
  BY DEF RetiredIsOffset
<1>1. CASE c \notin retired
  BY <1>1 DEF StepOf
<1>2. CASE c \in retired
  <2>1. CASE \E q \in Ops : c \in offsets[q]
    BY <2>1 DEF StepOf
  <2>2. CASE \E q \in Ops : c \in took[q] /\ op[q] \in {"retired", "lost"}
    BY <2>2 DEF StepOf
  <2> QED
    BY <1>2, <2>1, <2>2 DEF RetiredIsOffset
<1> QED
  BY <1>1, <1>2

\* A credit that is active is claimed by nobody but a call that has chosen it.
LEMMA ActiveClaims ==
  ASSUME CallInv, NEW q \in Ops, Counting(q), Claims(q) \cap Active # {}
  PROVE  q \in Busy
BY DEF CallInv, CallOk, Active, Busy

LEMMA RetireKept ==
  ASSUME CreditInv, NEW o \in Ops, NEW S \in SUBSET Credits, Retire(o, S)
  PROVE  CreditInv'
<1> USE DEF CreditInv
<1>1. CreditTypes' /\ Bought' = Bought
  BY DEF Retire, CreditTypes, Take, Active, Bought, OpStates
<1>2. StepOf(o)
  BY DEF Retire, StepOf, CreditTypes, Take, Meets
<1>3. CallOk(o)'
  BY <1>1 DEF Retire, Take, CreditTypes, CallInv, CallOk, Counting, Claims, Active, Bought
<1>4. ASSUME NEW q \in Ops \ {o}, Counting(o)', Counting(q), Claims(o)' \cap Claims(q) # {}
      PROVE  {o, q} \in overlap'
  <2>1. Claims(o)' \subseteq Active
    BY <1>4 DEF Retire, Take, CreditTypes, CallInv, CallOk, Counting, Claims, Active
  <2>2. q \in Busy
    BY <1>4, <2>1, ActiveClaims
  <2> QED
    BY <2>2 DEF Retire, Meets
<1>5. BusyInv' /\ ClaimInv' /\ CallInv'
  BY <1>2, <1>3, <1>4, OwnStep DEF Retire, CallInv
<1>6. RetiredIsOffset'
  <2>1. /\ retired' \subseteq retired \cup took'[o]
        /\ retired' # retired => op'[o] \in {"retired", "lost"}
        /\ offsets[o] \subseteq offsets'[o] /\ op[o] = "new"
    BY DEF Retire, Take, CreditTypes
  <2> QED
    BY <1>2, <2>1, RetiredStep
<1> QED
  BY <1>1, <1>5, <1>6

LEMMA RetireUnlearntKept ==
  ASSUME CreditInv, NEW o \in Ops, NEW S \in SUBSET Credits, RetireUnlearnt(o, S)
  PROVE  CreditInv'
<1> USE DEF CreditInv
<1>1. CreditTypes' /\ Bought' = Bought
  BY DEF RetireUnlearnt, CreditTypes, Take, Active, Bought, OpStates
<1>2. StepOf(o) /\ ~Counting(o)'
  BY DEF RetireUnlearnt, StepOf, CreditTypes, Take, Meets, CallInv, CallOk, Counting
<1>3. CallOk(o)'
  BY <1>1, <1>2 DEF RetireUnlearnt, Take, CreditTypes, CallInv, CallOk, Active, Bought
<1>4. BusyInv' /\ ClaimInv' /\ CallInv'
  BY <1>2, <1>3, OwnStep DEF RetireUnlearnt, CallInv
<1>5. RetiredIsOffset'
  <2>1. /\ retired' \subseteq retired \cup took'[o]
        /\ op'[o] \in {"retired", "lost"}
        /\ offsets[o] \subseteq offsets'[o] /\ op[o] = "new"
    BY DEF RetireUnlearnt, Take, CreditTypes
  <2> QED
    BY <1>2, <2>1, RetiredStep
<1> QED
  BY <1>1, <1>4, <1>5

LEMMA MeasureKept ==
  ASSUME CreditInv, NEW o \in Ops, NEW target, Measure(o, target)
  PROVE  CreditInv'
<1> USE DEF CreditInv
<1>1. CreditTypes' /\ Bought' = Bought
  BY DEF Measure, CreditTypes, Bought, OpStates
<1>2. StepOf(o) /\ ~Counting(o)'
  BY DEF Measure, StepOf, CreditTypes, Meets, CallInv, CallOk, Counting
<1>3. CallOk(o)'
  BY <1>1, <1>2 DEF Measure, CreditTypes, CallInv, CallOk
<1>4. BusyInv' /\ ClaimInv' /\ CallInv'
  BY <1>2, <1>3, OwnStep DEF Measure, CallInv
<1>5. RetiredIsOffset'
  BY <1>2, RetiredStep DEF Measure
<1> QED
  BY <1>1, <1>4, <1>5

LEMMA ChooseKept ==
  ASSUME CreditInv, NEW o \in Ops, Choose(o)
  PROVE  CreditInv'
<1> USE DEF CreditInv
<1>1. Fifo(goal[o]) \subseteq Active /\ Active \subseteq Bought
  BY DEF Fifo, Active
<1>2. Bought \subseteq Credits
  BY DEF CreditTypes, Bought, ToSet
<1>3. CreditTypes' /\ Bought' = Bought
  BY <1>1, <1>2 DEF Choose, CreditTypes, Bought, OpStates
<1>4. StepOf(o)
  BY DEF Choose, StepOf, CreditTypes
<1>5. CallOk(o)'
  BY <1>1, <1>3 DEF Choose, CreditTypes, CallInv, CallOk, Counting
<1>6. ASSUME NEW q \in Ops \ {o}, Counting(o)', Counting(q), Claims(o)' \cap Claims(q) # {}
      PROVE  {o, q} \in overlap'
  <2>1. Claims(o)' \subseteq Active
    BY <1>1, <1>6 DEF Choose, CreditTypes, CallInv, CallOk, Counting, Claims
  <2>2. q \in Busy
    BY <1>6, <2>1, ActiveClaims
  <2>3. o \in Busy
    BY DEF Choose, Busy
  <2> QED
    BY <2>2, <2>3 DEF BusyInv, Choose
<1>7. BusyInv' /\ ClaimInv' /\ CallInv'
  <2>1. op[o] # "new" /\ o \in Busy
    BY DEF Choose, Busy
  <2> QED
    BY <1>4, <1>5, <1>6, <2>1, OwnStep DEF CallInv
<1>8. RetiredIsOffset'
  BY <1>4, RetiredStep DEF Choose
<1> QED
  BY <1>3, <1>7, <1>8

\* A call that goes on counting what it counted keeps its claims.
LEMMA SameClaims ==
  ASSUME CreditInv, NEW o \in Ops, StepOf(o), op[o] # "new",
         o \in Busy' => o \in Busy, CallOk(o)',
         Counting(o)' => Counting(o), Claims(o)' \subseteq Claims(o)
  PROVE  BusyInv' /\ ClaimInv' /\ CallInv'
<1>1. ASSUME NEW q \in Ops \ {o}, Counting(o)', Counting(q), Claims(o)' \cap Claims(q) # {}
      PROVE  {o, q} \in overlap'
  BY <1>1 DEF CreditInv, ClaimInv, StepOf
<1> QED
  BY <1>1, OwnStep DEF CreditInv, CallInv

LEMMA RetireChosenKept ==
  ASSUME CreditInv, NEW o \in Ops, RetireChosen(o)
  PROVE  CreditInv'
<1>1. CallOk(o) /\ op[o] = "chosen"
  BY DEF CreditInv, CallInv, RetireChosen
<1>2. CreditTypes' /\ Bought' = Bought
  BY <1>1 DEF CreditInv, RetireChosen, CreditTypes, CallOk, Take, Bought, OpStates
<1>3. StepOf(o) /\ o \in Busy
  BY <1>1 DEF CreditInv, RetireChosen, StepOf, CreditTypes, Take, Busy
<1>4. Claims(o)' = Claims(o) /\ Counting(o)
  BY <1>1 DEF CreditInv, CreditTypes, RetireChosen, Take, CallOk, Claims, Counting
<1>5. CallOk(o)'
  BY <1>1 DEF CreditInv, CreditTypes, RetireChosen, Take, CallOk, Claims, Counting
<1>6. BusyInv' /\ ClaimInv' /\ CallInv'
  BY <1>1, <1>3, <1>4, <1>5, SameClaims
<1>7. RetiredIsOffset'
  <2>1. retired' \subseteq retired \cup took'[o] /\ op'[o] = "retired" /\ offsets' = offsets
    BY <1>1 DEF CreditInv, CreditTypes, RetireChosen, Take
  <2> QED
    BY <1>1, <1>3, <2>1, RetiredStep DEF CreditInv
<1> QED
  BY <1>2, <1>6, <1>7 DEF CreditInv

LEMMA LogOffsetKept ==
  ASSUME CreditInv, NEW o \in Ops, LogOffset(o)
  PROVE  CreditInv'
<1>1. CallOk(o) /\ op[o] = "retired"
  BY DEF CreditInv, CallInv, LogOffset
<1>2. CreditTypes' /\ Bought' = Bought
  BY DEF CreditInv, LogOffset, CreditTypes, Bought, OpStates
<1>3. StepOf(o) /\ o \in Busy
  BY <1>1 DEF CreditInv, LogOffset, StepOf, CreditTypes, Busy
<1>4. Claims(o)' = Claims(o) /\ Counting(o)
  BY <1>1 DEF LogOffset, Claims, Counting
<1>5. CallOk(o)'
  BY <1>1 DEF CreditInv, CreditTypes, LogOffset, CallOk, Claims, Counting
<1>6. BusyInv' /\ ClaimInv' /\ CallInv'
  BY <1>1, <1>3, <1>4, <1>5, SameClaims
<1>7. RetiredIsOffset'
  <2>1. offsets'[o] = ids[o] \cap Bought /\ retired' = retired
    BY <1>1 DEF CreditInv, CreditTypes, LogOffset
  <2>2. offsets[o] = {} /\ took[o] \subseteq offsets'[o]
    BY <1>1, <2>1 DEF CreditInv, CreditTypes, CallOk
  <2> QED
    BY <1>3, <2>1, <2>2, RetiredStep DEF CreditInv
<1> QED
  BY <1>2, <1>6, <1>7 DEF CreditInv

LEMMA LoseKept ==
  ASSUME CreditInv, NEW o \in Ops, Lose(o)
  PROVE  CreditInv'
<1>1. CallOk(o) /\ op[o] \in {"measured", "chosen", "retired"}
  BY DEF CreditInv, CallInv, Lose
<1>2. CreditTypes' /\ Bought' = Bought
  BY <1>1 DEF CreditInv, Lose, CreditTypes, CallOk, Take, Bought, OpStates
<1>3. StepOf(o) /\ o \in Busy /\ op'[o] = "lost"
  BY <1>1 DEF CreditInv, Lose, StepOf, CreditTypes, Take, Busy
<1>4. Claims(o)' \subseteq Claims(o) /\ (Counting(o)' => op[o] = "retired")
  BY <1>1 DEF CreditInv, CreditTypes, Lose, Take, CallOk, Claims, Counting
<1>5. CallOk(o)'
  BY <1>1, <1>4 DEF CreditInv, CreditTypes, Lose, Take, CallOk, Claims, Counting
<1>6. BusyInv' /\ ClaimInv' /\ CallInv'
  BY <1>1, <1>3, <1>4, <1>5, SameClaims DEF Counting
<1>7. RetiredIsOffset'
  <2>1. retired' \subseteq retired \cup took'[o] /\ offsets[o] \subseteq offsets'[o]
    BY <1>1 DEF CreditInv, CreditTypes, Lose, Take, CallOk
  <2>2. op[o] = "retired" => took'[o] = took[o]
    BY DEF Lose
  <2> QED
    BY <1>1, <1>3, <2>1, <2>2, RetiredStep DEF CreditInv
<1> QED
  BY <1>2, <1>6, <1>7 DEF CreditInv

LEMMA PurchaseKept ==
  ASSUME CreditInv, NEW c \in Credits, Purchase(c)
  PROVE  CreditInv'
<1>1. bought' \in Seq(Credits) /\ Bought \subseteq Bought'
  BY DEF CreditInv, CreditTypes, Purchase, Bought, ToSet
<1>2. CreditTypes'
  BY <1>1 DEF CreditInv, CreditTypes, Purchase
<1>3. CallInv'
  BY <1>1 DEF CreditInv, Purchase, CallInv, CallOk, Counting, Claims
<1>4. BusyInv' /\ ClaimInv' /\ RetiredIsOffset'
  BY DEF CreditInv, Purchase, BusyInv, ClaimInv, RetiredIsOffset, Busy, Counting, Claims
<1> QED
  BY <1>2, <1>3, <1>4 DEF CreditInv

\* The commands and the outcomes leave the credits alone; their faults share only
\* the bound.
LEMMA CreditNext == CreditInv /\ [Next]_vars => CreditInv'
<1> SUFFICES ASSUME CreditInv, [Next]_vars PROVE CreditInv'
  OBVIOUS
<1>1. ASSUME UNCHANGED <<bought, retired, op, goal, ids, offsets, took, autos, overlap>>
      PROVE  CreditInv'
  BY <1>1 DEF CreditInv, CreditTypes, CallInv, CallOk, BusyInv, ClaimInv, RetiredIsOffset,
              Counting, Claims, Busy, Bought
<1>2. ASSUME NEW c \in Calls, Command(c) PROVE CreditInv'
  BY <1>1, <1>2 DEF Command, Admit, Evaluate, Persist, CallFails, Increment, IncrementFails,
                    creditVars
<1>3. ASSUME NEW r \in Reports, Report(r) PROVE CreditInv'
  BY <1>1, <1>3 DEF Report, Check, RecordOutcome, ReadFigures, WriteFigures, ReportFails,
                    creditVars
<1>4. ASSUME CreditStep PROVE CreditInv'
  BY <1>4, PurchaseKept, RetireKept, RetireUnlearntKept, MeasureKept, ChooseKept,
     RetireChosenKept, LogOffsetKept, LoseKept DEF CreditStep, Begin, Continue
<1>5. CASE UNCHANGED vars
  BY <1>1, <1>5 DEF vars, creditVars
<1> QED
  BY <1>2, <1>3, <1>4, <1>5 DEF Next

\* What is counted twice without a claim was named by a retirement that took
\* something else.
LEMMA CountedTwice == CreditInv => OffsetsExplained
<1> SUFFICES ASSUME CreditInv, NEW p \in Ops, NEW q \in Ops, NEW c \in offsets[p] \cap offsets[q],
                    p # q, {p, q} \notin overlap
             PROVE  \E o \in {p, q} \ autos : c \notin took[o] /\ took[o] # {}
  BY DEF OffsetsExplained
<1>1. /\ CallOk(p) /\ CallOk(q) /\ Counting(p) /\ Counting(q)
      /\ c \in ids[p] /\ c \in ids[q]
  BY DEF CreditInv, CallInv, CallOk, Counting
<1>2. c \notin Claims(p) \/ c \notin Claims(q)
  BY <1>1 DEF CreditInv, ClaimInv
<1> QED
  BY <1>1, <1>2 DEF CallOk, Claims

(***************************************************************************)
(* Sums over finite sets.  The community modules define them by recursion  *)
(* over the set.  Each fact is proved for a set that is least among those  *)
(* it would fail for.                                                      *)
(***************************************************************************)
LEMMA LeastSubset ==
  ASSUME NEW S, IsFiniteSet(S), NEW G \in SUBSET SUBSET S, G # {}
  PROVE  \E T \in G : \A U \in G : U \subseteq T => U = T
<1>1. G \subseteq FiniteSubsetsOf(S)
  BY FS_Subset DEF FiniteSubsetsOf
<1>2. \E T \in G : \A U \in G : <<U, T>> \notin StrictSubsetOrdering(S)
  BY <1>1, FS_StrictSubsetOrderingWellFounded, WFMin
<1> QED
  BY <1>2 DEF StrictSubsetOrdering

LEMMA LeastNumber ==
  ASSUME NEW G \in SUBSET Nat, G # {}
  PROVE  \E n \in G : \A m \in G : n <= m
<1>1. PICK k \in G : TRUE
  OBVIOUS
<1> DEFINE K == 0..k
           H == {0..n : n \in {m \in G : m <= k}}
<1>2. IsFiniteSet(K) /\ H \in SUBSET SUBSET K /\ H # {}
  <2>1. k \in Nat /\ IsFiniteSet(K)
    BY FS_Interval
  <2>2. \A n \in Nat : n <= k => 0..n \subseteq K
    BY <2>1
  <2>3. K \in H
    BY <2>1
  <2> HIDE DEF K
  <2> QED
    BY <2>1, <2>2, <2>3
<1>3. PICK T \in H : \A U \in H : U \subseteq T => U = T
  <2> HIDE DEF H, K
  <2> QED
    BY <1>2, LeastSubset
<1>4. PICK n \in G : n <= k /\ T = 0..n
  OBVIOUS
<1>5. ASSUME NEW m \in G PROVE n <= m
  <2>1. m \in Nat /\ n \in Nat /\ k \in Nat
    OBVIOUS
  <2>2. m <= n => 0..m \in H /\ 0..m \subseteq T
    BY <1>4, <2>1
  <2>3. 0..m = 0..n => m = n
    <3>1. m \in 0..m /\ n \in 0..n
      BY <2>1
    <3>2. m \in 0..n /\ n \in 0..m => m = n
      BY <2>1
    <3> QED
      BY <3>1, <3>2
  <2> HIDE DEF H
  <2> QED
    BY <1>3, <1>4, <2>1, <2>2, <2>3
<1> QED
  BY <1>5

Pick(T) == CHOOSE x \in T : TRUE

\* g sums f over the subsets of S in D.
Sums(g, f, D) ==
  g = [s \in D |-> IF s = {} THEN 0 ELSE f[Pick(s)] + g[s \ {Pick(s)}]]

LEMMA SumUnfolds ==
  ASSUME NEW f, NEW S
  PROVE  SumFunctionOnSet(f, S) = (CHOOSE g : Sums(g, f, SUBSET S))[S]
BY DEF SumFunctionOnSet, FoldFunctionOnSet, MapThenFoldSet, Sums, Pick

LEMMA SumExists ==
  ASSUME NEW f, NEW S, IsFiniteSet(S)
  PROVE  \E g : Sums(g, f, SUBSET S)
<1> DEFINE Small(n) == {s \in SUBSET S : Cardinality(s) <= n}
           Bad      == {n \in Nat : ~ \E g : Sums(g, f, Small(n))}
<1>1. \A s \in SUBSET S : IsFiniteSet(s) /\ Cardinality(s) \in Nat /\ Cardinality(s) <= Cardinality(S)
  BY FS_Subset, FS_CardinalityType
<1>2. ASSUME Bad # {} PROVE FALSE
  <2>1. PICK n \in Bad : \A m \in Bad : n <= m
    <3>1. Bad \in SUBSET Nat
      OBVIOUS
    <3> HIDE DEF Bad
    <3> QED
      BY <1>2, <3>1, LeastNumber
  <2>2. CASE n = 0
    <3>1. Small(0) = {{}}
      BY <1>1, FS_EmptySet
    <3>2. Sums([s \in {{}} |-> 0], f, {{}})
      BY DEF Sums
    <3> QED
      BY <2>2, <3>1, <3>2
  <2>3. CASE n # 0
    <3>1. n \in Nat /\ n - 1 \in Nat /\ n - 1 \notin Bad
      <4>1. n \in Nat
        OBVIOUS
      <4> HIDE DEF Bad
      <4> QED
        BY <2>1, <2>3, <4>1
    <3>2. PICK h : Sums(h, f, Small(n - 1))
      BY <3>1
    <3> DEFINE g == [s \in Small(n) |-> IF s = {} THEN 0 ELSE f[Pick(s)] + h[s \ {Pick(s)}]]
    <3>3. ASSUME NEW s \in Small(n - 1) PROVE s \in Small(n) /\ g[s] = h[s]
      <4>1. s \in Small(n)
        BY <1>1, <3>1
      <4>2. h[s] = IF s = {} THEN 0 ELSE f[Pick(s)] + h[s \ {Pick(s)}]
        <5> HIDE DEF Small
        <5> QED
          BY <3>2, <3>3 DEF Sums
      <4> HIDE DEF Small
      <4> QED
        BY <4>1, <4>2
    <3>4. ASSUME NEW s \in Small(n), s # {} PROVE s \ {Pick(s)} \in Small(n - 1)
      <4>1. Pick(s) \in s
        BY <3>4 DEF Pick
      <4> QED
        BY <1>1, <3>1, <4>1, FS_RemoveElement
    <3>5. \A s \in Small(n) : g[s] = IF s = {} THEN 0 ELSE f[Pick(s)] + g[s \ {Pick(s)}]
      BY <3>3, <3>4
    <3>6. Sums(g, f, Small(n))
      BY <3>5 DEF Sums
    <3> QED
      BY <2>1, <3>6
  <2> QED
    BY <2>2, <2>3
<1>3. Small(Cardinality(S)) = SUBSET S /\ Cardinality(S) \in Nat
  BY <1>1
<1> QED
  BY <1>2, <1>3

\* Two sums agree where both are defined and the values do.
LEMMA SumsAgree ==
  ASSUME NEW f, NEW g, NEW S, NEW e, NEW h, NEW T,
         IsFiniteSet(S), T \subseteq S, \A x \in T : f[x] = e[x],
         Sums(g, f, SUBSET S), Sums(h, e, SUBSET T)
  PROVE  g[T] = h[T]
<1> DEFINE Bad == {U \in SUBSET T : g[U] # h[U]}
<1>1. ASSUME Bad # {} PROVE FALSE
  <2>1. PICK U \in Bad : \A V \in Bad : V \subseteq U => V = U
    <3>1. IsFiniteSet(T) /\ Bad \in SUBSET SUBSET T
      BY FS_Subset
    <3> HIDE DEF Bad
    <3> QED
      BY <1>1, <3>1, LeastSubset
  <2>2. /\ g[U] = IF U = {} THEN 0 ELSE f[Pick(U)] + g[U \ {Pick(U)}]
        /\ h[U] = IF U = {} THEN 0 ELSE e[Pick(U)] + h[U \ {Pick(U)}]
    BY <2>1 DEF Sums
  <2>3. U # {} => Pick(U) \in U
    BY DEF Pick
  <2>4. U # {} => g[U \ {Pick(U)}] = h[U \ {Pick(U)}]
    BY <2>1, <2>3
  <2> QED
    BY <2>1, <2>2, <2>3, <2>4
<1> QED
  BY <1>1

LEMMA SumIsOne ==
  ASSUME NEW f, NEW S, IsFiniteSet(S)
  PROVE  \E g : Sums(g, f, SUBSET S) /\ SumFunctionOnSet(f, S) = g[S]
BY SumExists, SumUnfolds

LEMMA SumStep ==
  ASSUME NEW f, NEW S, IsFiniteSet(S)
  PROVE  SumFunctionOnSet(f, S)
           = IF S = {} THEN 0 ELSE f[Pick(S)] + SumFunctionOnSet(f, S \ {Pick(S)})
<1>1. PICK T : T = S \ {Pick(S)} /\ IsFiniteSet(T) /\ T \subseteq S
  <2>1. IsFiniteSet(S \ {Pick(S)})
    BY FS_RemoveElement
  <2> QED
    BY <2>1
<1>2. PICK g : Sums(g, f, SUBSET S) /\ SumFunctionOnSet(f, S) = g[S]
  BY SumIsOne
<1>3. PICK h : Sums(h, f, SUBSET T) /\ SumFunctionOnSet(f, T) = h[T]
  BY <1>1, SumIsOne
<1>4. g[S] = IF S = {} THEN 0 ELSE f[Pick(S)] + g[T]
  BY <1>1, <1>2 DEF Sums
<1>5. g[T] = h[T]
  BY <1>1, <1>2, <1>3, SumsAgree
<1> QED
  BY <1>1, <1>2, <1>3, <1>4, <1>5

LEMMA SumEmpty == \A f : SumFunctionOnSet(f, {}) = 0
BY SumStep, FS_EmptySet

LEMMA SumType ==
  ASSUME NEW f, NEW S, IsFiniteSet(S), \A x \in S : f[x] \in Nat
  PROVE  SumFunctionOnSet(f, S) \in Nat
<1> DEFINE Bad == {U \in SUBSET S : SumFunctionOnSet(f, U) \notin Nat}
<1>1. ASSUME Bad # {} PROVE FALSE
  <2>1. PICK U \in Bad : \A V \in Bad : V \subseteq U => V = U
    <3>1. Bad \in SUBSET SUBSET S
      OBVIOUS
    <3> HIDE DEF Bad
    <3> QED
      BY <1>1, <3>1, LeastSubset
  <2>2. IsFiniteSet(U)
    BY FS_Subset
  <2>3. U # {} => Pick(U) \in U
    BY DEF Pick
  <2>4. U # {} => SumFunctionOnSet(f, U \ {Pick(U)}) \in Nat
    BY <2>1, <2>3
  <2>5. U # {} => f[Pick(U)] \in Nat
    BY <2>1, <2>3
  <2>6. SumFunctionOnSet(f, U)
          = IF U = {} THEN 0 ELSE f[Pick(U)] + SumFunctionOnSet(f, U \ {Pick(U)})
    BY <2>2, SumStep
  <2>7. SumFunctionOnSet(f, U) \in Nat
    BY <2>4, <2>5, <2>6
  <2> QED
    BY <2>1, <2>7
<1> QED
  BY <1>1

\* The order in which the elements are added does not matter.
LEMMA SumRemove ==
  ASSUME NEW f, NEW S, IsFiniteSet(S), \A x \in S : f[x] \in Nat, NEW c \in S
  PROVE  SumFunctionOnSet(f, S) = f[c] + SumFunctionOnSet(f, S \ {c})
<1> DEFINE Bad == {U \in SUBSET S : \E d \in U :
                     SumFunctionOnSet(f, U) # f[d] + SumFunctionOnSet(f, U \ {d})}
<1>1. ASSUME Bad # {} PROVE FALSE
  <2>1. PICK U \in Bad : \A V \in Bad : V \subseteq U => V = U
    <3>1. Bad \in SUBSET SUBSET S
      OBVIOUS
    <3> HIDE DEF Bad
    <3> QED
      BY <1>1, <3>1, LeastSubset
  <2>2. PICK d \in U : SumFunctionOnSet(f, U) # f[d] + SumFunctionOnSet(f, U \ {d})
    OBVIOUS
  <2> DEFINE p == Pick(U)
  <2>3. p \in U
    BY <2>2 DEF Pick
  <2>4. \A V \in SUBSET S : IsFiniteSet(V) /\ SumFunctionOnSet(f, V) \in Nat
    BY FS_Subset, SumType
  <2>5. SumFunctionOnSet(f, U) = f[p] + SumFunctionOnSet(f, U \ {p})
    BY <2>3, <2>4, SumStep
  <2>6. p # d
    BY <2>2, <2>5
  <2> HIDE DEF p
  <2>7. ASSUME NEW x \in U, NEW y \in U \ {x}
        PROVE  SumFunctionOnSet(f, U \ {x}) = f[y] + SumFunctionOnSet(f, (U \ {x}) \ {y})
    <3>1. U \ {x} \in SUBSET S /\ U \ {x} \notin Bad
      <4> HIDE DEF Bad
      <4>1. U \ {x} \subseteq U /\ U \ {x} # U
        OBVIOUS
      <4>2. U \in SUBSET S
        BY DEF Bad
      <4> QED
        BY <2>1, <4>1, <4>2
    <3> QED
      BY <3>1
  <2>8. /\ SumFunctionOnSet(f, U \ {p}) = f[d] + SumFunctionOnSet(f, (U \ {p}) \ {d})
        /\ SumFunctionOnSet(f, U \ {d}) = f[p] + SumFunctionOnSet(f, (U \ {d}) \ {p})
    BY <2>3, <2>6, <2>7
  <2>9. (U \ {p}) \ {d} = (U \ {d}) \ {p}
    OBVIOUS
  <2>10. /\ f[p] \in Nat /\ f[d] \in Nat
         /\ SumFunctionOnSet(f, (U \ {d}) \ {p}) \in Nat
    BY <2>2, <2>3, <2>4
  <2> QED
    BY <2>2, <2>5, <2>8, <2>9, <2>10
<1> QED
  BY <1>1

LEMMA SumAdd ==
  ASSUME NEW f, NEW S, IsFiniteSet(S), NEW c, c \notin S, \A x \in S \cup {c} : f[x] \in Nat
  PROVE  /\ SumFunctionOnSet(f, S \cup {c}) = f[c] + SumFunctionOnSet(f, S)
         /\ SumFunctionOnSet(f, S) \in Nat
<1>1. IsFiniteSet(S \cup {c}) /\ (S \cup {c}) \ {c} = S
  BY FS_AddElement
<1> QED
  BY <1>1, SumRemove, SumType

LEMMA SumGrows ==
  ASSUME NEW f, NEW e, NEW S, IsFiniteSet(S),
         \A x \in S : f[x] \in Nat /\ e[x] \in Nat /\ f[x] <= e[x]
  PROVE  SumFunctionOnSet(f, S) <= SumFunctionOnSet(e, S)
<1> DEFINE Bad == {U \in SUBSET S : ~ SumFunctionOnSet(f, U) <= SumFunctionOnSet(e, U)}
<1>1. ASSUME Bad # {} PROVE FALSE
  <2>1. PICK U \in Bad : \A V \in Bad : V \subseteq U => V = U
    <3>1. Bad \in SUBSET SUBSET S
      OBVIOUS
    <3> HIDE DEF Bad
    <3> QED
      BY <1>1, <3>1, LeastSubset
  <2>2. \A V \in SUBSET S : /\ IsFiniteSet(V)
                            /\ SumFunctionOnSet(f, V) \in Nat /\ SumFunctionOnSet(e, V) \in Nat
    BY FS_Subset, SumType
  <2>3. CASE U = {}
    <3>1. SumFunctionOnSet(f, U) = 0 /\ SumFunctionOnSet(e, U) = 0
      BY <2>3, SumEmpty
    <3>2. SumFunctionOnSet(f, U) <= SumFunctionOnSet(e, U)
      BY <3>1
    <3> QED
      BY <3>2
  <2>4. CASE U # {}
    <3>1. PICK x : x \in U
      BY <2>4
    <3>2. U \ {x} \in SUBSET S /\ U \ {x} \notin Bad
      <4>1. U \ {x} \subseteq U /\ U \ {x} # U /\ U \in SUBSET S
        BY <3>1
      <4> HIDE DEF Bad
      <4> QED
        BY <2>1, <4>1
    <3>3. SumFunctionOnSet(f, U \ {x}) <= SumFunctionOnSet(e, U \ {x})
      BY <3>2
    <3>4. /\ SumFunctionOnSet(f, U) = f[x] + SumFunctionOnSet(f, U \ {x})
          /\ SumFunctionOnSet(e, U) = e[x] + SumFunctionOnSet(e, U \ {x})
      <4>1. U \in SUBSET S
        OBVIOUS
      <4> HIDE DEF Bad
      <4> QED
        BY <2>2, <3>1, <4>1, SumRemove
    <3>5. /\ f[x] \in Nat /\ e[x] \in Nat /\ f[x] <= e[x]
          /\ SumFunctionOnSet(f, U \ {x}) \in Nat /\ SumFunctionOnSet(e, U \ {x}) \in Nat
      BY <2>2, <3>1, <3>2
    <3>6. SumFunctionOnSet(f, U) <= SumFunctionOnSet(e, U)
      BY <3>3, <3>4, <3>5
    <3> QED
      BY <2>1, <3>6
  <2> QED
    BY <2>3, <2>4
<1> QED
  BY <1>1

\* Every element of U belongs to one of S: counting them by what they belong to
\* counts each once.
Fibre(t, U, o) == {r \in U : t[r] = o}

LEMMA SumOfFibres ==
  ASSUME NEW t, NEW U, NEW S, IsFiniteSet(U), IsFiniteSet(S), \A r \in U : t[r] \in S
  PROVE  SumFunctionOnSet([o \in S |-> Cardinality(Fibre(t, U, o))], S) = Cardinality(U)
<1> DEFINE k    == [o \in S |-> Cardinality(Fibre(t, U, o))]
           F(V) == {r \in U : t[r] \in V}
           Bad  == {V \in SUBSET S : SumFunctionOnSet(k, V) # Cardinality(F(V))}
<1>1. \A o \in S : k[o] \in Nat
  BY FS_Subset, FS_CardinalityType DEF Fibre
<1>2. ASSUME Bad # {} PROVE FALSE
  <2>1. PICK V \in Bad : \A W \in Bad : W \subseteq V => W = V
    <3>1. Bad \in SUBSET SUBSET S
      OBVIOUS
    <3> HIDE DEF Bad
    <3> QED
      BY <1>2, <3>1, LeastSubset
  <2>2. V \in SUBSET S /\ IsFiniteSet(V) /\ SumFunctionOnSet(k, V) # Cardinality(F(V))
    BY FS_Subset
  <2> HIDE DEF k
  <2>3. CASE V = {}
    <3>1. F(V) = {}
      BY <2>3
    <3>2. SumFunctionOnSet(k, V) = 0
      BY <2>3, SumEmpty
    <3> QED
      BY <2>2, <3>1, <3>2, FS_EmptySet
  <2>4. CASE V # {}
    <3>1. PICK x : x \in V
      BY <2>4
    <3>2. V \ {x} \in SUBSET S /\ V \ {x} \notin Bad
      <4>1. V \ {x} \subseteq V /\ V \ {x} # V
        BY <3>1
      <4> HIDE DEF Bad
      <4> QED
        BY <2>1, <2>2, <4>1
    <3>3. SumFunctionOnSet(k, V \ {x}) = Cardinality(F(V \ {x}))
      BY <3>2
    <3>4. SumFunctionOnSet(k, V) = k[x] + SumFunctionOnSet(k, V \ {x})
      <4>1. \A y \in V : k[y] \in Nat
        BY <1>1, <2>2
      <4> HIDE DEF Bad
      <4> QED
        BY <2>2, <3>1, <4>1, SumRemove
    <3>5. F(V) = Fibre(t, U, x) \cup F(V \ {x}) /\ Fibre(t, U, x) \cap F(V \ {x}) = {}
      BY <3>1 DEF Fibre
    <3>6. IsFiniteSet(Fibre(t, U, x)) /\ IsFiniteSet(F(V \ {x}))
      BY FS_Subset DEF Fibre
    <3>7. Cardinality(F(V)) = Cardinality(Fibre(t, U, x)) + Cardinality(F(V \ {x})) - 0
      <4>1. ASSUME NEW A, NEW B, IsFiniteSet(A), IsFiniteSet(B), A \cap B = {}
            PROVE  Cardinality(A \cup B) = Cardinality(A) + Cardinality(B) - 0
        BY <4>1, FS_Union, FS_EmptySet
      <4> HIDE DEF F
      <4> QED
        BY <3>5, <3>6, <4>1
    <3>8. k[x] = Cardinality(Fibre(t, U, x))
      BY <2>2, <3>1 DEF k
    <3>9. Cardinality(Fibre(t, U, x)) \in Nat /\ Cardinality(F(V \ {x})) \in Nat
      BY <3>6, FS_CardinalityType
    <3> HIDE DEF F, Bad
    <3> QED
      BY <2>2, <3>3, <3>4, <3>7, <3>8, <3>9
  <2> QED
    BY <2>3, <2>4
<1>3. SumFunctionOnSet(k, S) = Cardinality(F(S)) /\ F(S) = U
  BY <1>2
<1> QED
  BY <1>3

(***************************************************************************)
(* The cover of a command.  Only a retirement takes active credits away.   *)
(***************************************************************************)
CoverInv ==
  /\ IsFiniteSet(Bought)
  /\ need \in [Calls -> Nat]
  /\ \A c \in Calls : call[c] \in {"new", "admitted"} => need[c] = 0
  /\ CoverageExplained

LEMMA AvailableGrows ==
  ASSUME CreditInv, IsFiniteSet(Bought), NEW c \in Credits, Purchase(c)
  PROVE  /\ IsFiniteSet(Bought') /\ Available \in Nat
         /\ Available' \in Nat /\ Available' >= Available
<1>1. /\ bought \in Seq(Credits) /\ c \notin Bought /\ retired' = retired /\ retired \subseteq Bought
      /\ bought' = Append(bought, c)
  BY DEF CreditInv, CreditTypes, Purchase
<1>2. Bought' = Bought \cup {c} /\ Bought \subseteq Credits
  BY <1>1 DEF Bought, ToSet
<1>3. Active' = Active \cup {c} /\ c \notin Active /\ Active \subseteq Credits
  BY <1>1, <1>2 DEF Active
<1>4. IsFiniteSet(Active) /\ IsFiniteSet(Bought')
  BY <1>2, FS_Subset, FS_AddElement DEF Active
<1>5. \A x \in Active \cup {c} : Amount[x] \in Nat
  BY <1>3, CreditsAssumption
<1>6. /\ SumFunctionOnSet(Amount, Active \cup {c}) = Amount[c] + SumFunctionOnSet(Amount, Active)
      /\ SumFunctionOnSet(Amount, Active) \in Nat
  BY <1>3, <1>4, <1>5, SumAdd
<1>7. Available = SumFunctionOnSet(Amount, Active) /\ Available' = SumFunctionOnSet(Amount, Active \cup {c})
  BY <1>3 DEF Available, Sum
<1> QED
  BY <1>4, <1>5, <1>6, <1>7

LEMMA CoverInitially == Init => CoverInv
<1> SUFFICES ASSUME Init PROVE CoverInv
  OBVIOUS
<1>1. Bought = {}
  BY DEF Init, CreditsInit, Bought, ToSet
<1>2. \A c \in Calls : call[c] # "ready" /\ need[c] = 0
  BY DEF Init
<1> QED
  BY <1>1, <1>2, FS_EmptySet DEF Init, CoverInv, CoverageExplained

LEMMA CoverNext == UsageInv /\ CreditInv /\ CoverInv /\ [Next]_vars => CoverInv'
<1> SUFFICES ASSUME UsageInv, CreditInv, CoverInv, [Next]_vars PROVE CoverInv'
  OBVIOUS
<1>1. call \in [Calls -> CallStates] /\ need \in [Calls -> Nat]
  BY DEF UsageInv, UsageTypes, CoverInv
<1>2. ASSUME UNCHANGED <<bought, retired>>
      PROVE  Available' = Available /\ Bought' = Bought
  BY <1>2 DEF Available, Active, Bought
<1>3. ASSUME NEW c \in Calls, Command(c) PROVE CoverInv'
  <2>1. UNCHANGED <<bought, retired, shaken>>
    BY <1>3 DEF Command, Admit, Evaluate, Persist, CallFails, Increment, IncrementFails, creditVars
  <2>2. CASE Evaluate(c)
    <3>1. /\ call[c] = "admitted" /\ need[c] = 0
          /\ \A d \in Calls \ {c} : call'[d] = call[d] /\ need'[d] = need[d]
      BY <1>1, <2>2 DEF Evaluate, CoverInv
    <3>2. /\ need' \in [Calls -> Nat] /\ call'[c] \in {"refused", "ready"}
          /\ need'[c] > 0 => Available >= need'[c]
      BY <1>1, <2>2, <3>1, AccountAssumption DEF Evaluate, Covered
    <3> QED
      BY <1>2, <2>1, <3>1, <3>2 DEF CoverInv, CoverageExplained
  <2>3. CASE ~Evaluate(c)
    <3>1. need' = need
      BY <1>3, <2>3 DEF Command, Admit, Persist, CallFails, Increment, IncrementFails
    <3>2. \A d \in Calls : /\ call'[d] = "ready" => call[d] = "ready"
                           /\ call'[d] \in {"new", "admitted"} => call[d] \in {"new", "admitted"}
      BY <1>1, <1>3, <2>3 DEF Command, Admit, Persist, CallFails, Increment, IncrementFails
    <3> QED
      BY <1>2, <2>1, <3>1, <3>2 DEF CoverInv, CoverageExplained
  <2> QED
    BY <2>2, <2>3
<1>4. ASSUME CreditStep PROVE CoverInv'
  <2>1. UNCHANGED <<call, need>>
    BY <1>4 DEF CreditStep
  <2>2. CASE \E c \in Credits : Purchase(c)
    <3>1. /\ retired' = retired /\ shaken' = shaken
      BY <1>4, <2>2 DEF CreditStep, Purchase
    <3>2. IsFiniteSet(Bought') /\ Available \in Nat /\ Available' \in Nat /\ Available' >= Available
      BY <2>2, AvailableGrows DEF CoverInv
    <3>3. \A c \in Calls : Available >= need[c] => Available' >= need[c]
      BY <1>1, <3>2
    <3> QED
      BY <2>1, <3>1, <3>2, <3>3 DEF CoverInv, CoverageExplained
  <2>3. CASE \E o \in Ops : Begin(o) \/ Continue(o)
    <3>1. bought' = bought
      BY <2>3 DEF Begin, Continue, Retire, RetireUnlearnt, Measure, Choose, RetireChosen, LogOffset, Lose
    <3>2. retired' # retired => \A c \in Calls : call[c] = "ready" => c \in shaken'
      BY <1>4 DEF CreditStep
    <3>3. shaken \subseteq shaken' /\ Bought' = Bought
      BY <1>4, <3>1 DEF CreditStep, Bought
    <3>4. retired' = retired => Available' = Available
      BY <1>2, <3>1
    <3> QED
      BY <2>1, <3>2, <3>3, <3>4 DEF CoverInv, CoverageExplained
  <2> QED
    BY <1>4, <2>2, <2>3 DEF CreditStep
<1>5. ASSUME (\E r \in Reports : Report(r)) \/ UNCHANGED vars PROVE CoverInv'
  <2>1. UNCHANGED <<bought, retired, call, need>>
    BY <1>5 DEF Report, Check, RecordOutcome, ReadFigures, WriteFigures, ReportFails, creditVars,
                usageVars, vars
  <2>2. shaken' = shaken
    BY <1>5 DEF Report, Check, RecordOutcome, ReadFigures, WriteFigures, ReportFails,
                usageVars, vars
  <2> QED
    BY <1>2, <2>1, <2>2 DEF CoverInv, CoverageExplained
<1> QED
  BY <1>3, <1>4, <1>5 DEF Next

(***************************************************************************)
(* The day's figures.  An outcome belongs to the row that its report made  *)
(* or wrote to.  A row holds, and every report at work on it has read, at  *)
(* least the outcomes surely added to it and at most those ever added:     *)
(* a write that another one overtook loses only outcomes that raced.       *)
(***************************************************************************)
Target == [r \in Reports |-> IF seen[r].row = None THEN r ELSE seen[r].row]
Added  == {r \in outcomes : report[r] \in {"answered", "failed"}}
Sure   == {r \in outcomes \ raced : report[r] = "answered"}

Between(o, n) ==
  /\ Cardinality(Fibre(Target, Sure, o)) <= n
  /\ n <= Cardinality(Fibre(Target, Added, o))

OutcomeTypes ==
  /\ report \in [Reports -> ReportStates]
  /\ outcomes \subseteq Reports /\ raced \subseteq Reports
  /\ figures \in [Reports -> Nat]
  /\ seen \in [Reports -> [row : Reports \cup {None}, total : Nat]]

StageInv ==
  /\ \A r \in Reports :
       /\ report[r] \in {"recorded", "read", "answered"} => r \in outcomes
       /\ r \in outcomes => report[r] \in {"recorded", "read", "answered", "failed"}
       /\ report[r] \notin {"read", "answered", "failed"} => seen[r].row = None
       /\ figures[r] > 0 => report[r] \in {"answered", "failed"} /\ seen[r].row = None
       /\ seen[r].row # None => figures[seen[r].row] > 0
  /\ \A q, r \in Measuring : q # r => q \in raced /\ r \in raced

FigureInv ==
  \A o \in Reports :
    /\ Between(o, figures[o])
    /\ \A r \in Measuring : seen[r].row = o => Between(o, seen[r].total)

AccuracyInv == OutcomeTypes /\ StageInv /\ FigureInv

LEMMA FibreCards ==
  ASSUME NEW t, NEW U, NEW W \in SUBSET Reports, U \subseteq W, NEW o
  PROVE  /\ IsFiniteSet(U) /\ IsFiniteSet(Fibre(t, U, o))
         /\ Cardinality(Fibre(t, U, o)) \in Nat /\ Cardinality(Fibre(t, W, o)) \in Nat
         /\ Cardinality(Fibre(t, U, o)) <= Cardinality(Fibre(t, W, o))
<1>1. IsFiniteSet(W) /\ IsFiniteSet(U)
  BY ReportsFinite, FS_Subset
<1>2. IsFiniteSet(Fibre(t, W, o)) /\ IsFiniteSet(Fibre(t, U, o))
  BY <1>1, FS_Subset DEF Fibre
<1>3. Fibre(t, U, o) \subseteq Fibre(t, W, o)
  BY DEF Fibre
<1> QED
  BY <1>1, <1>2, <1>3, FS_Subset, FS_CardinalityType

LEMMA FibreAdd ==
  ASSUME NEW t, NEW U \in SUBSET Reports, NEW r \in Reports, r \notin U, NEW o
  PROVE  Cardinality(Fibre(t, U \cup {r}, o))
           = IF t[r] = o THEN Cardinality(Fibre(t, U, o)) + 1 ELSE Cardinality(Fibre(t, U, o))
<1>1. IsFiniteSet(Fibre(t, U, o))
  BY FibreCards
<1>2. t[r] = o => Fibre(t, U \cup {r}, o) = Fibre(t, U, o) \cup {r} /\ r \notin Fibre(t, U, o)
  BY DEF Fibre
<1>3. t[r] # o => Fibre(t, U \cup {r}, o) = Fibre(t, U, o)
  BY DEF Fibre
<1> QED
  BY <1>1, <1>2, <1>3, FS_AddElement

LEMMA AccuracyInitially == Init => AccuracyInv
<1> SUFFICES ASSUME Init PROVE AccuracyInv
  OBVIOUS
<1>1. OutcomeTypes
  BY DEF Init, OutcomeTypes, ReportStates, NoRow
<1>2. StageInv
  BY DEF Init, StageInv, NoRow, Measuring
<1>3. Added = {} /\ Sure = {} /\ Measuring = {} /\ \A o \in Reports : figures[o] = 0
  BY DEF Init, Added, Sure, Measuring
<1>4. \A o : Fibre(Target, {}, o) = {}
  BY DEF Fibre
<1>5. FigureInv
  BY <1>3, <1>4, FS_EmptySet DEF FigureInv, Between
<1> QED
  BY <1>1, <1>2, <1>5 DEF AccuracyInv

\* A step that writes no figures, and at most adds a failed report's outcome.
LEMMA UnwrittenKept ==
  ASSUME OutcomeTypes, OutcomeTypes', FigureInv,
         figures' = figures, Sure' = Sure, Added \subseteq Added',
         \A r \in Added : Target'[r] = Target[r],
         \A r \in Measuring' : \/ r \in Measuring /\ seen'[r] = seen[r]
                               \/ seen'[r] = NoRow
                               \/ \E o \in Reports : seen'[r] = [row |-> o, total |-> figures[o]]
  PROVE  FigureInv'
<1>1. Sure \subseteq Added /\ Added' \in SUBSET Reports /\ None \notin Reports
  BY AccountAssumption DEF Sure, Added, OutcomeTypes
<1>2. ASSUME NEW o \in Reports, NEW n \in Nat, Between(o, n) PROVE Between(o, n)'
  <2>1. Fibre(Target', Sure', o) = Fibre(Target, Sure, o)
    BY <1>1 DEF Fibre
  <2>2. Fibre(Target', Added, o) = Fibre(Target, Added, o)
    BY DEF Fibre
  <2>3. /\ Cardinality(Fibre(Target', Added, o)) <= Cardinality(Fibre(Target', Added', o))
        /\ Cardinality(Fibre(Target', Added, o)) \in Nat
        /\ Cardinality(Fibre(Target', Added', o)) \in Nat
    BY <1>1, FibreCards
  <2> QED
    BY <1>2, <2>1, <2>2, <2>3 DEF Between
<1> SUFFICES ASSUME NEW o \in Reports
             PROVE  /\ Between(o, figures[o])'
                    /\ \A r \in Measuring' : seen'[r].row = o => Between(o, seen[r].total)'
  BY DEF FigureInv
<1>3. figures[o] \in Nat /\ Between(o, figures[o])
  BY DEF OutcomeTypes, FigureInv
<1>4. PICK n : n = figures[o]
  OBVIOUS
<1>5. Between(o, n)'
  BY <1>2, <1>3, <1>4
<1>6. Between(o, figures[o])'
  BY <1>4, <1>5
<1>7. ASSUME NEW r \in Measuring', seen'[r].row = o PROVE Between(o, seen[r].total)'
  <2>1. PICK m : m = seen'[r].total
    OBVIOUS
  <2>2. m \in Nat /\ Between(o, m)
    <3>1. CASE r \in Measuring /\ seen'[r] = seen[r]
      BY <1>7, <2>1, <3>1 DEF FigureInv, OutcomeTypes, Measuring
    <3>2. CASE seen'[r] = NoRow
      BY <1>1, <1>7, <3>2 DEF NoRow
    <3>3. CASE \E p \in Reports : seen'[r] = [row |-> p, total |-> figures[p]]
      BY <1>3, <1>7, <2>1, <3>3
    <3> QED
      BY <3>1, <3>2, <3>3
  <2>3. Between(o, m)'
    BY <1>2, <2>2
  <2> QED
    BY <2>1, <2>3
<1> QED
  BY <1>6, <1>7

\* A report writes its figures: it is added to its row, and if nothing raced with it
\* what it read is what the row holds.
LEMMA WrittenKept ==
  ASSUME OutcomeTypes, OutcomeTypes', StageInv, FigureInv,
         NEW r \in Measuring, figures' = Written(r), UNCHANGED <<seen, outcomes, raced>>,
         NEW s \in {"answered", "failed"}, report' = [report EXCEPT ![r] = s]
  PROVE  StageInv' /\ FigureInv'
<1>1. /\ r \in Reports /\ report[r] = "read" /\ r \in outcomes /\ figures[r] = 0
      /\ None \notin Reports
  BY AccountAssumption DEF Measuring, StageInv, OutcomeTypes
<1>2. /\ report'[r] = s /\ \A q \in Reports \ {r} : report'[q] = report[q]
      /\ Measuring' = Measuring \ {r}
  BY <1>1 DEF OutcomeTypes, Measuring
<1>3. PICK o : o = Target[r]
  OBVIOUS
<1>4. /\ o \in Reports /\ figures'[o] > 0
      /\ \A p \in Reports \ {o} : figures'[p] = figures[p]
      /\ seen[r].row = o => figures'[o] = seen[r].total + 1
      /\ seen[r].row = None => o = r /\ figures'[o] = 1
      /\ seen[r].row \in {o, None}
  BY <1>1, <1>3 DEF Target, Written, OutcomeTypes
<1>5. Target' = Target /\ Added' = Added \cup {r} /\ r \notin Added /\ r \notin Sure
      /\ Sure' \subseteq Sure \cup {r} /\ Sure \subseteq Sure' /\ (r \in raced => Sure' = Sure)
  BY <1>1, <1>2 DEF Target, Added, Sure, OutcomeTypes
<1>6. Sure \in SUBSET Reports /\ Added \in SUBSET Reports /\ Sure' \in SUBSET Reports
  BY DEF Sure, Added, OutcomeTypes
<1>7. \A p : /\ Cardinality(Fibre(Target, Sure, p)) \in Nat
             /\ Cardinality(Fibre(Target, Added, p)) \in Nat
             /\ Cardinality(Fibre(Target, Sure', p)) \in Nat
             /\ Cardinality(Fibre(Target, Added', p))
                  = IF p = o THEN Cardinality(Fibre(Target, Added, p)) + 1
                             ELSE Cardinality(Fibre(Target, Added, p))
             /\ Cardinality(Fibre(Target, Sure', p))
                  <= IF p = o THEN Cardinality(Fibre(Target, Sure, p)) + 1
                              ELSE Cardinality(Fibre(Target, Sure, p))
  <2> SUFFICES ASSUME NEW p
               PROVE  /\ Cardinality(Fibre(Target, Sure, p)) \in Nat
                      /\ Cardinality(Fibre(Target, Added, p)) \in Nat
                      /\ Cardinality(Fibre(Target, Sure', p)) \in Nat
                      /\ Cardinality(Fibre(Target, Added', p))
                           = IF p = o THEN Cardinality(Fibre(Target, Added, p)) + 1
                                      ELSE Cardinality(Fibre(Target, Added, p))
                      /\ Cardinality(Fibre(Target, Sure', p))
                           <= IF p = o THEN Cardinality(Fibre(Target, Sure, p)) + 1
                                       ELSE Cardinality(Fibre(Target, Sure, p))
    OBVIOUS
  <2>1. /\ Cardinality(Fibre(Target, Sure, p)) \in Nat
        /\ Cardinality(Fibre(Target, Added, p)) \in Nat
        /\ Cardinality(Fibre(Target, Sure', p)) \in Nat
    BY <1>6, FibreCards
  <2>2. Cardinality(Fibre(Target, Added \cup {r}, p))
          = IF o = p THEN Cardinality(Fibre(Target, Added, p)) + 1
                     ELSE Cardinality(Fibre(Target, Added, p))
    BY <1>1, <1>3, <1>5, <1>6, FibreAdd
  <2>3. Cardinality(Fibre(Target, Sure \cup {r}, p))
          = IF o = p THEN Cardinality(Fibre(Target, Sure, p)) + 1
                     ELSE Cardinality(Fibre(Target, Sure, p))
    BY <1>1, <1>3, <1>5, <1>6, FibreAdd
  <2>4. Sure' = Sure \/ Sure' = Sure \cup {r}
    BY <1>5
  <2> QED
    BY <1>5, <2>1, <2>2, <2>3, <2>4
<1>8. StageInv'
  BY <1>1, <1>2, <1>4, <1>5 DEF StageInv, OutcomeTypes, Target
<1>9. ASSUME NEW p, NEW n,
             Cardinality(Fibre(Target, Sure', p)) <= n, n <= Cardinality(Fibre(Target, Added', p))
      PROVE  Between(p, n)'
  BY <1>5, <1>9 DEF Between
<1>10. ASSUME NEW p, NEW n \in Nat, Between(p, n), p # o \/ r \in raced PROVE Between(p, n)'
  <2>1. /\ Cardinality(Fibre(Target, Sure, p)) <= n
        /\ n <= Cardinality(Fibre(Target, Added, p))
    BY <1>10 DEF Between
  <2>2. Cardinality(Fibre(Target, Sure', p)) <= Cardinality(Fibre(Target, Sure, p))
    <3>1. CASE p # o
      BY <1>7, <3>1
    <3>2. CASE r \in raced
      <4>1. Sure' = Sure
        BY <1>5, <3>2
      <4>2. Cardinality(Fibre(Target, Sure, p)) \in Nat
        BY <1>7
      <4> QED
        BY <4>1, <4>2
    <3> QED
      BY <1>10, <3>1, <3>2
  <2>3. Cardinality(Fibre(Target, Added, p)) <= Cardinality(Fibre(Target, Added', p))
    BY <1>7
  <2>4. /\ Cardinality(Fibre(Target, Sure, p)) \in Nat /\ Cardinality(Fibre(Target, Added, p)) \in Nat
        /\ Cardinality(Fibre(Target, Sure', p)) \in Nat
        /\ Cardinality(Fibre(Target, Added', p)) \in Nat
    BY <1>7
  <2> HIDE DEF Target, Sure, Added
  <2>5. /\ Cardinality(Fibre(Target, Sure', p)) <= n
        /\ n <= Cardinality(Fibre(Target, Added', p))
    BY <2>1, <2>2, <2>3, <2>4
  <2> QED
    BY <1>9, <2>5
<1>11. ASSUME NEW n \in Nat, Between(o, n) PROVE Between(o, n + 1)'
  <2>1. /\ Cardinality(Fibre(Target, Sure, o)) <= n
        /\ n <= Cardinality(Fibre(Target, Added, o))
    BY <1>11 DEF Between
  <2>2. /\ Cardinality(Fibre(Target, Sure, o)) \in Nat /\ Cardinality(Fibre(Target, Added, o)) \in Nat
        /\ Cardinality(Fibre(Target, Sure', o)) \in Nat
        /\ Cardinality(Fibre(Target, Added', o)) = Cardinality(Fibre(Target, Added, o)) + 1
        /\ Cardinality(Fibre(Target, Sure', o)) <= Cardinality(Fibre(Target, Sure, o)) + 1
    BY <1>7
  <2>3. /\ Cardinality(Fibre(Target, Sure', o)) <= n + 1
        /\ n + 1 <= Cardinality(Fibre(Target, Added', o))
    BY <2>1, <2>2
  <2> QED
    BY <1>9, <2>3
<1>12. ASSUME NEW p \in Reports PROVE Between(p, figures[p])'
  <2>1. PICK n : n = figures'[p]
    OBVIOUS
  <2>2. Between(p, n)'
    <3>1. CASE p # o
      BY <1>4, <1>10, <2>1, <3>1 DEF FigureInv, OutcomeTypes
    <3>2. CASE p = o /\ seen[r].row = o
      <4>1. PICK m : m = seen[r].total
        OBVIOUS
      <4>2. m \in Nat /\ Between(o, m) /\ n = m + 1
        BY <1>1, <1>4, <2>1, <3>2, <4>1 DEF FigureInv, OutcomeTypes
      <4> QED
        BY <1>11, <3>2, <4>2
    <3>3. CASE p = o /\ seen[r].row = None
      <4>1. Between(o, 0) /\ n = 0 + 1
        BY <1>1, <1>4, <2>1, <3>3 DEF FigureInv
      <4> QED
        BY <1>11, <3>3, <4>1
    <3> QED
      BY <1>4, <3>1, <3>2, <3>3
  <2> QED
    BY <2>1, <2>2
<1>13. ASSUME NEW p \in Reports, NEW q \in Measuring', seen'[q].row = p
       PROVE  Between(p, seen[q].total)'
  <2>1. q \in Measuring /\ q # r /\ r \in raced /\ q \in Reports
    BY <1>2 DEF StageInv, Measuring
  <2>2. PICK n : n = seen[q].total
    OBVIOUS
  <2>3. Between(p, n) /\ n \in Nat /\ seen'[q].total = n
    BY <1>13, <2>1, <2>2 DEF FigureInv, OutcomeTypes
  <2>4. Between(p, n)'
    BY <1>10, <2>1, <2>3
  <2> QED
    BY <2>3, <2>4
<1> QED
  BY <1>8, <1>12, <1>13 DEF FigureInv

LEMMA AccuracyNext == AccuracyInv /\ [Next]_vars => AccuracyInv'
<1> SUFFICES ASSUME AccuracyInv, [Next]_vars PROVE AccuracyInv'
  OBVIOUS
<1>1. OutcomeTypes /\ StageInv /\ FigureInv /\ None \notin Reports
  BY AccountAssumption DEF AccuracyInv
<1>2. ASSUME NEW r \in Reports, Report(r) PROVE AccuracyInv'
  <2> USE <1>1
  <2>1. OutcomeTypes'
    BY <1>2 DEF Report, Check, RecordOutcome, ReadFigures, WriteFigures, ReportFails, Written,
                OutcomeTypes, ReportStates, NoRow, Rows, Measuring
  <2>2. CASE \E c \in Calls, e \in Execs \cup {None} : Check(r, c, e)
    <3>1. /\ UNCHANGED <<outcomes, figures, seen, raced>> /\ report[r] = "new"
          /\ \E s \in {"unknown", "conflict", "checked"} : report' = [report EXCEPT ![r] = s]
      BY <2>2 DEF Check
    <3>2. /\ report'[r] \in {"unknown", "conflict", "checked"}
          /\ \A q \in Reports \ {r} : report'[q] = report[q]
          /\ r \notin outcomes /\ Measuring' = Measuring
      BY <3>1 DEF OutcomeTypes, StageInv, Measuring
    <3>3. StageInv'
      BY <3>1, <3>2 DEF StageInv, OutcomeTypes
    <3>4. Sure' = Sure /\ Added' = Added /\ Target' = Target
      BY <3>1, <3>2 DEF Sure, Added, Target, OutcomeTypes
    <3>5. FigureInv'
      BY <2>1, <3>1, <3>2, <3>4, UnwrittenKept
    <3> QED
      BY <2>1, <3>3, <3>5 DEF AccuracyInv
  <2>3. CASE RecordOutcome(r)
    <3>1. /\ UNCHANGED <<figures, seen, raced>> /\ report[r] = "checked" /\ r \notin outcomes
          /\ \/ report' = [report EXCEPT ![r] = "failed"] /\ outcomes' = outcomes
             \/ report' = [report EXCEPT ![r] = "recorded"] /\ outcomes' = outcomes \cup {r}
      BY <2>3 DEF RecordOutcome, StageInv
    <3>2. /\ \/ report'[r] = "failed" /\ outcomes' = outcomes
             \/ report'[r] = "recorded" /\ outcomes' = outcomes \cup {r}
          /\ \A q \in Reports \ {r} : report'[q] = report[q]
          /\ Measuring' = Measuring
      BY <3>1 DEF OutcomeTypes, Measuring
    <3>3. StageInv'
      BY <3>1, <3>2 DEF StageInv, OutcomeTypes
    <3>4. Sure' = Sure /\ Added' = Added /\ Target' = Target
      BY <3>1, <3>2 DEF Sure, Added, Target, OutcomeTypes
    <3>5. FigureInv'
      BY <2>1, <3>1, <3>2, <3>4, UnwrittenKept
    <3> QED
      BY <2>1, <3>3, <3>5 DEF AccuracyInv
  <2>4. CASE ReadFigures(r)
    <3>1. /\ UNCHANGED <<outcomes, figures>> /\ report[r] = "recorded"
          /\ report' = [report EXCEPT ![r] = "read"]
          /\ seen[r].row = None /\ r \notin Measuring
      BY <2>4 DEF ReadFigures, StageInv, Measuring
    <3>2. /\ report'[r] = "read" /\ \A q \in Reports \ {r} : report'[q] = report[q] /\ seen'[q] = seen[q]
          /\ Measuring' = Measuring \cup {r}
      BY <2>4, <3>1 DEF OutcomeTypes, Measuring, ReadFigures
    <3>3. \/ seen'[r] = NoRow
          \/ \E o \in Reports : figures[o] > 0 /\ seen'[r] = [row |-> o, total |-> figures[o]]
      BY <2>4 DEF ReadFigures, OutcomeTypes, Rows
    <3>4. /\ raced' = IF Measuring = {} THEN raced ELSE raced \cup Measuring \cup {r}
          /\ raced \subseteq raced'
      BY <2>4 DEF ReadFigures
    <3>5. \A p, q \in Measuring' : p # q => p \in raced' /\ q \in raced'
      BY <3>2, <3>4 DEF StageInv
    <3>6. StageInv'
      <4>1. \A q \in Reports : seen'[q].row # None => figures'[seen'[q].row] > 0
        <5>1. ASSUME NEW q \in Reports \ {r}, seen'[q].row # None PROVE figures'[seen'[q].row] > 0
          <6>1. seen'[q] = seen[q] /\ figures' = figures
            BY <3>1, <3>2
          <6> QED
            BY <5>1, <6>1 DEF StageInv
        <5>2. ASSUME seen'[r].row # None PROVE figures'[seen'[r].row] > 0
          <6>1. PICK o \in Reports : figures[o] > 0 /\ seen'[r] = [row |-> o, total |-> figures[o]]
            BY <3>3, <5>2 DEF NoRow
          <6> QED
            BY <3>1, <6>1
        <5> QED
          BY <5>1, <5>2
      <4>2. figures[r] = 0
        BY <3>1 DEF StageInv, OutcomeTypes
      <4> QED
        BY <3>1, <3>2, <3>5, <4>1, <4>2 DEF StageInv, OutcomeTypes
    <3>7. Sure' = Sure /\ Added' = Added
      BY <3>1, <3>2, <3>4 DEF Sure, Added, Measuring, OutcomeTypes
    <3>8. \A q \in Added : Target'[q] = Target[q]
      BY <3>1, <3>2 DEF Added, Target, OutcomeTypes
    <3>9. \A q \in Measuring' : \/ q \in Measuring /\ seen'[q] = seen[q]
                                \/ seen'[q] = NoRow
                                \/ \E o \in Reports : seen'[q] = [row |-> o, total |-> figures[o]]
      <4> SUFFICES ASSUME NEW q \in Measuring'
                   PROVE  \/ q \in Measuring /\ seen'[q] = seen[q]
                          \/ seen'[q] = NoRow
                          \/ \E o \in Reports : seen'[q] = [row |-> o, total |-> figures[o]]
        OBVIOUS
      <4>1. CASE q = r
        BY <3>3, <4>1
      <4>2. CASE q # r
        BY <3>2, <4>2 DEF Measuring
      <4> QED
        BY <4>1, <4>2
    <3>10. figures' = figures /\ Added \subseteq Added'
      BY <3>1, <3>7
    <3>11. FigureInv'
      BY <2>1, <3>7, <3>8, <3>9, <3>10, UnwrittenKept
    <3> QED
      BY <2>1, <3>6, <3>11 DEF AccuracyInv
  <2>5. CASE WriteFigures(r)
    <3>1. r \in Measuring /\ figures' = Written(r) /\ UNCHANGED <<seen, outcomes, raced>>
          /\ report' = [report EXCEPT ![r] = "answered"]
      BY <2>5 DEF WriteFigures, Measuring
    <3> QED
      BY <2>1, <3>1, WrittenKept DEF AccuracyInv
  <2>6. CASE ReportFails(r) /\ figures' = figures
    <3>1. /\ UNCHANGED <<figures, seen, raced>> /\ report[r] \in {"checked", "recorded", "read"}
          /\ report' = [report EXCEPT ![r] = "failed"]
          /\ outcomes' = outcomes \/ outcomes' = outcomes \cup {r}
      BY <2>6 DEF ReportFails
    <3>2. /\ report'[r] = "failed" /\ \A q \in Reports \ {r} : report'[q] = report[q]
          /\ Measuring' = Measuring \ {r} /\ figures[r] = 0
      BY <3>1 DEF OutcomeTypes, Measuring, StageInv
    <3>3. StageInv'
      BY <3>1, <3>2 DEF StageInv, OutcomeTypes
    <3>4. Sure' = Sure /\ Added \subseteq Added' /\ Target' = Target
      BY <3>1, <3>2 DEF Sure, Added, Target, OutcomeTypes
    <3>5. FigureInv'
      BY <2>1, <3>1, <3>2, <3>4, UnwrittenKept
    <3> QED
      BY <2>1, <3>3, <3>5 DEF AccuracyInv
  <2>7. CASE ReportFails(r) /\ figures' # figures
    <3>1. r \in Measuring /\ figures' = Written(r) /\ UNCHANGED <<seen, outcomes, raced>>
          /\ report' = [report EXCEPT ![r] = "failed"]
      BY <2>7 DEF ReportFails, Measuring
    <3> QED
      BY <2>1, <3>1, WrittenKept DEF AccuracyInv
  <2> QED
    BY <1>2, <2>2, <2>3, <2>4, <2>5, <2>6, <2>7 DEF Report
<1>3. ASSUME (\E c \in Calls : Command(c)) \/ CreditStep \/ UNCHANGED vars PROVE AccuracyInv'
  <2>1. UNCHANGED outcomeVars
    BY <1>3 DEF Command, Admit, Evaluate, Persist, CallFails, Increment, IncrementFails, CreditStep, vars
  <2> QED
    BY <1>1, <2>1 DEF outcomeVars, AccuracyInv, OutcomeTypes, StageInv, FigureInv, Between, Measuring,
                      Target, Added, Sure
<1> QED
  BY <1>2, <1>3 DEF Next

\* Every outcome belongs to one row, so what the rows hold adds up to at least the
\* outcomes surely added and at most those ever added.
LEMMA FiguresAccounted == AccuracyInv => AccuracyExplained
<1> SUFFICES ASSUME AccuracyInv PROVE AccuracyExplained
  OBVIOUS
<1>1. OutcomeTypes /\ FigureInv
  BY DEF AccuracyInv
<1>2. \A r \in Reports : Target[r] \in Reports
  BY <1>1 DEF OutcomeTypes, Target
<1>3. /\ Sure \in SUBSET Reports /\ Added \in SUBSET Reports /\ Added \subseteq outcomes
      /\ outcomes \in SUBSET Reports /\ Sure \subseteq Added
  BY <1>1 DEF OutcomeTypes, Sure, Added
<1> DEFINE high    == [o \in Reports |-> Cardinality(Fibre(Target, Added, o))]
           low     == [o \in Reports |-> Cardinality(Fibre(Target, Sure, o))]
           missing == raced \cup {r \in Reports : report[r] \in {"recorded", "read", "failed"}}
<1>4. SumFunctionOnSet(high, Reports) = Cardinality(Added)
      /\ SumFunctionOnSet(low, Reports) = Cardinality(Sure)
  <2>1. ASSUME NEW U \in SUBSET Reports
        PROVE  SumFunctionOnSet([o \in Reports |-> Cardinality(Fibre(Target, U, o))], Reports)
                 = Cardinality(U)
    <3>1. IsFiniteSet(U) /\ IsFiniteSet(Reports) /\ \A r \in U : Target[r] \in Reports
      BY <1>2, ReportsFinite, FS_Subset
    <3> QED
      BY <3>1, SumOfFibres
  <2> QED
    BY <1>3, <2>1
<1>5. \A o \in Reports : /\ high[o] \in Nat /\ low[o] \in Nat /\ figures[o] \in Nat
                         /\ low[o] <= figures[o] /\ figures[o] <= high[o]
  BY <1>1, <1>3, FibreCards DEF FigureInv, Between, OutcomeTypes
<1>6. /\ SumFunctionOnSet(low, Reports) <= SumFunctionOnSet(figures, Reports)
      /\ SumFunctionOnSet(figures, Reports) <= SumFunctionOnSet(high, Reports)
  <2> HIDE DEF high, low
  <2> QED
    BY <1>5, ReportsFinite, SumGrows
<1>7. SumFunction(figures) = SumFunctionOnSet(figures, Reports)
  BY <1>1 DEF OutcomeTypes, SumFunction, SumFunctionOnSet, FoldFunction
<1>8. outcomes \ missing \subseteq Sure
  BY <1>1, <1>3 DEF AccuracyInv, StageInv, Sure
<1>9. /\ Cardinality(Added) <= Cardinality(outcomes) /\ Cardinality(outcomes) \in Nat
      /\ Cardinality(outcomes \ missing) <= Cardinality(Sure)
      /\ Cardinality(outcomes \ missing) \in Nat
      /\ Cardinality(Added) \in Nat /\ Cardinality(Sure) \in Nat
      /\ SumFunctionOnSet(figures, Reports) \in Nat
  BY <1>1, <1>3, <1>8, ReportsFinite, FS_Subset, FS_CardinalityType, SumType DEF OutcomeTypes
<1>10. /\ SumFunction(figures) <= Cardinality(outcomes)
       /\ Cardinality(outcomes \ missing) <= SumFunction(figures)
  <2> HIDE DEF high, low, missing
  <2> QED
    BY <1>4, <1>6, <1>7, <1>9
<1> QED
  BY <1>10 DEF AccuracyExplained

(***************************************************************************)
(* The remaining types.  A measured goal is a number because the log's     *)
(* rows are finite sums.                                                   *)
(***************************************************************************)
RemainingTypes ==
  /\ goal \in [Ops -> Nat]
  /\ offsets \in [Ops -> SUBSET Bought]
  /\ took \in [Ops -> SUBSET retired]
  /\ autos \subseteq Ops
  /\ overlap \subseteq SUBSET Ops
  /\ faults \in 0..MaxFaults
  /\ tries \in [Calls -> Nat]
  /\ shaken \subseteq Calls
  /\ subject \in [Reports -> Calls \cup {None}]
  /\ exec \in [Reports -> Execs \cup {None}]

LEMMA TypesFromParts ==
  UsageInv /\ CreditInv /\ CoverInv /\ AccuracyInv /\ RemainingTypes => TypeOK
BY DEF UsageInv, UsageTypes, CreditInv, CreditTypes, CoverInv, AccuracyInv, OutcomeTypes,
       RemainingTypes, TypeOK, CreditsTypeOK

LEMMA TotalIsNumber ==
  ASSUME CreditInv, IsFiniteSet(Bought), offsets \in [Ops -> SUBSET Bought]
  PROVE  TotalOffset \in Nat
<1>1. Bought \subseteq Credits
  BY DEF CreditInv, CreditTypes, Bought, ToSet
<1>2. ASSUME NEW o \in Ops PROVE Logged[o] \in Nat
  <2>1. IsFiniteSet(offsets[o]) /\ \A c \in offsets[o] : Amount[c] \in Nat
    BY <1>1, CreditsAssumption, FS_Subset
  <2>2. SumFunctionOnSet(Amount, offsets[o]) \in Nat
    BY <2>1, SumType
  <2> QED
    BY <2>2 DEF Logged, Sum
<1>3. SumFunctionOnSet(Logged, Ops) \in Nat
  BY <1>2, OpsFinite, SumType
<1>4. SumFunction(Logged) = SumFunctionOnSet(Logged, Ops)
  BY DEF Logged, SumFunction, SumFunctionOnSet, FoldFunction
<1> QED
  BY <1>3, <1>4 DEF TotalOffset

LEMMA RemainingInitially == Init => RemainingTypes
BY AccountAssumption, CreditsAssumption DEF Init, CreditsInit, RemainingTypes

LEMMA RemainingNext ==
  CreditInv /\ CoverInv /\ RemainingTypes /\ [Next]_vars => RemainingTypes'
<1> SUFFICES ASSUME CreditInv, CoverInv, RemainingTypes, [Next]_vars PROVE RemainingTypes'
  OBVIOUS
<1>1. MaxFaults \in Nat
  BY CreditsAssumption
<1>2. ASSUME NEW c \in Calls, Command(c) PROVE RemainingTypes'
  BY <1>1, <1>2 DEF Command, Admit, Evaluate, Persist, CallFails, Increment, IncrementFails, Fault,
                    RemainingTypes, creditVars, outcomeVars, Bought
<1>3. ASSUME NEW r \in Reports, Report(r) PROVE RemainingTypes'
  BY <1>1, <1>3 DEF Report, Check, RecordOutcome, ReadFigures, WriteFigures, ReportFails, Fault,
                    RemainingTypes, creditVars, usageVars, Bought
<1>4. ASSUME CreditStep PROVE RemainingTypes'
  <2>1. UNCHANGED <<tries, subject, exec>> /\ shaken' \subseteq Calls
    BY <1>4 DEF CreditStep, outcomeVars, RemainingTypes
  <2>2. ASSUME NEW o \in Ops, Meets(o) PROVE overlap' \subseteq SUBSET Ops
    BY <2>2 DEF Meets, Busy, RemainingTypes
  <2>3. ASSUME NEW o \in Ops, NEW S, NEW T, Take(o, S, T) PROVE took' \in [Ops -> SUBSET retired']
    BY <2>3 DEF Take, RemainingTypes
  <2>4. CASE \E c \in Credits : Purchase(c)
    <3>1. Bought \subseteq Bought'
      <4>1. PICK c \in Credits : bought' = Append(bought, c)
        BY <2>4 DEF Purchase
      <4>2. bought \in Seq(Credits)
        BY DEF CreditInv, CreditTypes
      <4> QED
        BY <4>1, <4>2 DEF Bought, ToSet
    <3> QED
      BY <2>1, <2>4, <3>1 DEF Purchase, RemainingTypes
  <2>5. CASE \E o \in Ops : Begin(o) \/ Continue(o)
    <3>1. PICK o \in Ops : Begin(o) \/ Continue(o)
      BY <2>5
    <3>2. bought' = bought /\ Bought' = Bought
      BY <3>1 DEF Begin, Continue, Retire, RetireUnlearnt, Measure, Choose, RetireChosen,
                  LogOffset, Lose, Bought
    <3>3. goal' \in [Ops -> Nat] /\ autos' \subseteq Ops
      <4>1. CASE \E target \in Goals : Measure(o, target)
        <5>1. PICK target \in Goals : Measure(o, target)
          BY <4>1
        <5>2. TotalOffset \in Nat /\ target \in Nat
          BY TotalIsNumber, CreditsAssumption DEF CoverInv, RemainingTypes
        <5>3. target > TotalOffset => target - TotalOffset \in Nat
          BY <5>2
        <5> HIDE DEF TotalOffset
        <5> QED
          BY <5>1, <5>3 DEF Measure, RemainingTypes
      <4>2. CASE ~ \E target \in Goals : Measure(o, target)
        BY <3>1, <4>2 DEF Begin, Continue, Retire, RetireUnlearnt, Choose, RetireChosen, LogOffset,
                          Lose, RemainingTypes
      <4> QED
        BY <4>1, <4>2
    <3>4. took' \in [Ops -> SUBSET retired']
      BY <2>3, <3>1 DEF Begin, Continue, Retire, RetireUnlearnt, Measure, Choose, RetireChosen,
                        LogOffset, Lose, RemainingTypes
    <3>5. offsets' \in [Ops -> SUBSET Bought']
      <4>1. offsets' = offsets \/ offsets' = [offsets EXCEPT ![o] = ids[o] \cap Bought]
        BY <3>1 DEF Begin, Continue, Retire, RetireUnlearnt, Measure, Choose, RetireChosen,
                    LogOffset, Lose
      <4>2. ids[o] \cap Bought \in SUBSET Bought
        OBVIOUS
      <4> QED
        BY <3>2, <4>1, <4>2 DEF RemainingTypes
    <3>6. overlap' \subseteq SUBSET Ops
      BY <2>2, <3>1 DEF Begin, Continue, Retire, RetireUnlearnt, Measure, Choose, RetireChosen,
                        LogOffset, Lose, RemainingTypes
    <3>7. faults' \in 0..MaxFaults
      <4>1. faults' = faults \/ Fault
        BY <3>1 DEF Begin, Continue, Retire, RetireUnlearnt, Measure, Choose, RetireChosen,
                    LogOffset, Lose
      <4> QED
        BY <1>1, <4>1 DEF Fault, RemainingTypes
    <3> QED
      BY <2>1, <3>3, <3>4, <3>5, <3>6, <3>7 DEF RemainingTypes
  <2> QED
    BY <1>4, <2>4, <2>5 DEF CreditStep
<1>5. CASE UNCHANGED vars
  BY <1>5 DEF vars, creditVars, usageVars, outcomeVars, RemainingTypes, Bought
<1> QED
  BY <1>2, <1>3, <1>4, <1>5 DEF Next

(***************************************************************************)
(* The theorems.                                                           *)
(***************************************************************************)
AccountInv == UsageInv /\ CreditInv /\ CoverInv /\ AccuracyInv /\ RemainingTypes

LEMMA AccountInvariant == Spec => []AccountInv
<1>1. Init => AccountInv
  BY UsageInitially, CreditInitially, CoverInitially, AccuracyInitially,
     RemainingInitially DEF Init, AccountInv
<1>2. AccountInv /\ [Next]_vars => AccountInv'
  <2> SUFFICES ASSUME AccountInv, [Next]_vars PROVE AccountInv'
    OBVIOUS
  <2>1. UsageInv /\ CreditInv /\ CoverInv /\ AccuracyInv /\ RemainingTypes
    BY DEF AccountInv
  <2>2. UsageInv' /\ CreditInv' /\ CoverInv' /\ AccuracyInv' /\ RemainingTypes'
    BY <2>1, UsageNext, CreditNext, CoverNext, AccuracyNext, RemainingNext
  <2> QED
    BY <2>2 DEF AccountInv
<1> QED
  BY <1>1, <1>2, PTL DEF Spec

\* Every table, request and history keeps its type; an automatic offset measures a
\* number, whatever the log holds.
THEOREM AccountTyped == Spec => []TypeOK
<1>1. AccountInv => TypeOK
  BY TypesFromParts DEF AccountInv
<1> QED
  BY <1>1, AccountInvariant, PTL

\* However many commands overlap, and whatever becomes of their increments, the
\* monthly quota is exceeded by no more than the requests past the check and not
\* yet counted (assertCommandQuota, incrementOrgUsage).
THEOREM QuotaBounded == Spec => []OverageExplained
<1>1. AccountInv => OverageExplained
  <2> SUFFICES ASSUME UsageInv, tier # "ENTERPRISE" PROVE Cardinality(commands) <= Cap + excess
    BY DEF AccountInv, OverageExplained
  <2>1. InProgress \cup commands \in SUBSET Calls
    BY DEF UsageInv, UsageTypes, InProgress
  <2>2. /\ Cardinality(commands) <= Cardinality(InProgress \cup commands)
        /\ Cardinality(commands) \in Nat /\ Cardinality(InProgress \cup commands) \in Nat
    BY <2>1, FiniteCalls
  <2>3. Cardinality(InProgress \cup commands) <= Cap + excess /\ excess \in Nat
    BY DEF UsageInv, UsageTypes, QuotaInv
  <2> QED
    BY <2>2, <2>3, CapNat
<1> QED
  BY <1>1, AccountInvariant, PTL

\* No organization is refused a command below its quota, but for increments that a
\* retry applied twice.
THEOREM RefusalsJustified == Spec => []RefusalJustified
<1>1. AccountInv => RefusalJustified
  <2> SUFFICES ASSUME UsageInv, NEW c \in Calls, call[c] = "overQuota"
               PROVE  Cardinality(commands) + doubled >= Cap
    BY DEF AccountInv, RefusalJustified
  <2>1. /\ Cardinality(counted) <= Cardinality(commands)
        /\ Cardinality(counted) \in Nat /\ Cardinality(commands) \in Nat
    BY FiniteCalls DEF UsageInv, UsageTypes
  <2>2. Cardinality(counted) + doubled >= Cap /\ doubled \in Nat
    BY DEF UsageInv, UsageTypes, RefusalInv
  <2> QED
    BY <2>1, <2>2, CapNat
<1> QED
  BY <1>1, AccountInvariant, PTL

\* Any number of retirements and automatic offsets, interleaved statement by
\* statement: a credit counted twice is explained by an overlap or by the sum over
\* named credits (POST /retire, POST /auto-offset).
THEOREM DoubleOffsetsExplained == Spec => []OffsetsExplained
<1>1. AccountInv => OffsetsExplained
  BY CountedTwice DEF AccountInv
<1> QED
  BY <1>1, AccountInvariant, PTL

\* No retired credit is missing from the emission log for any other reason than a
\* call at work or lost between its two statements.
THEOREM NoCreditForgotten == Spec => []RetiredIsOffset
<1>1. AccountInv => RetiredIsOffset
  BY DEF AccountInv, CreditInv
<1> QED
  BY <1>1, AccountInvariant, PTL

\* Whatever credits are bought, retired and set off meanwhile, a command that has to
\* be covered comes to its commit covered, but for the cover that a retirement took
\* away after the check (ensureCreditCoverage, persistDecision).
THEOREM CoverKept == Spec => []CoverageExplained
<1>1. AccountInv => CoverageExplained
  BY DEF AccountInv, CoverInv
<1> QED
  BY <1>1, AccountInvariant, PTL

\* Any number of outcome reports, whose reads and writes of the day's figures
\* interleave and fail anywhere: the figures count no outcome twice, and miss only
\* outcomes still to be added, failed reports and those that raced
\* (updateAccuracyMetrics).
THEOREM FiguresExplained == Spec => []AccuracyExplained
<1>1. AccountInv => AccuracyExplained
  BY FiguresAccounted DEF AccountInv
<1> QED
  BY <1>1, AccountInvariant, PTL
=============================================================================
