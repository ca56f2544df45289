---------------------------- MODULE CarbonAccount ----------------------------
(***************************************************************************)
(* What an organization is charged and credited for (lib/carbon-command.ts,*)
(* lib/organizations.ts, lib/carbon-outcome.ts): carbon commands against   *)
(* the month's command quota, the outcomes reported for them and the day's *)
(* accuracy figures, beside the credits of CarbonCredits, which a command  *)
(* may have to be covered by.                                              *)
(*                                                                         *)
(* A command reads the usage counter before its evaluation; the increment  *)
(* is a detached call after its commit, retried by incrementOrgUsage       *)
(* inside retryAsync. An outcome is committed first; the figures follow in *)
(* a second transaction, a read and a write at READ COMMITTED, and the     *)
(* unique index of the figures does not hold for its NULL columns. One     *)
(* month, one day, one organization. The other detached writes of a        *)
(* command (audit, embedding, fingerprint, adaptive run) and the adaptive  *)
(* signals of an outcome write tables nothing here reads.                  *)
(***************************************************************************)
EXTENDS CarbonCredits, FiniteSets

CONSTANTS
  Calls,        \* POST /carbon/command
  Reports,      \* POST /carbon/outcome
  Execs,        \* providerExecutionIds
  None,
  Limit,        \* monthlyCommandLimit
  Grace,        \* Math.ceil(monthlyCommandLimit * 1.1)
  Attempts,     \* tries of an increment: MAX_RETRIES times retryAsync's maxRetries
  Needs,        \* estimated emissions of a command that must be covered
  MaxArrivals   \* bound: requests of all kinds

ASSUME AccountAssumption ==
  /\ IsFiniteSet(Calls) /\ None \notin Execs \cup Reports
  /\ Limit \in Nat \ {0} /\ Grace \in Nat /\ Limit <= Grace
  /\ Attempts \in Nat \ {0} /\ Needs \subseteq Nat /\ MaxArrivals \in Nat

ASSUME ReportsFinite == IsFiniteSet(Reports)

ASSUME OpsFinite == IsFiniteSet(Ops)

VARIABLES
  tier,      \* planTier
  call,      \* command request -> where it stands
  need,      \* command request -> the coverage demanded, 0 for none
  commands,  \* rows of CarbonCommand, by the request that made them
  count,     \* commandCount of the month's usage counter
  pending,   \* commands whose increment is still being tried
  tries,     \* command -> failed tries
  report,    \* outcome report -> where it stands
  subject,   \* outcome report -> the command it names
  exec,      \* outcome report -> its providerExecutionId
  outcomes,  \* rows of CarbonCommandOutcome, by the report that made them
  figures,   \* accuracy rows of the day: report that made the row -> totalCommands
  seen,      \* outcome report -> the accuracy row and total it read
  counted,   \* history: commands whose increment was applied
  doubled,   \* history: increments applied to a command a second time
  excess,    \* history: requests past the quota check and not counted, when the
             \* latest one passed it
  shaken,    \* history: requests whose cover was retired after it was checked
  raced      \* history: reports whose read and write of the figures overlapped

usageVars   == <<tier, call, need, commands, count, pending, tries, counted, doubled, excess, shaken>>
outcomeVars == <<report, subject, exec, outcomes, figures, seen, raced>>
vars        == <<creditVars, usageVars, outcomeVars>>

NoRow == [row |-> None, total |-> 0]

\* The organization may have commands of earlier in the month.
Init ==
  /\ CreditsInit
  /\ tier \in {"FREE", "GROWTH", "ENTERPRISE"}
  /\ \E old \in SUBSET Calls :
       /\ tier = "ENTERPRISE" \/ Cardinality(old) <= Limit
       /\ call = [c \in Calls |-> IF c \in old THEN "earlier" ELSE "new"]
       /\ commands = old
       /\ counted = old
       /\ count = Cardinality(old)
  /\ need = [c \in Calls |-> 0]
  /\ pending = {}
  /\ tries = [c \in Calls |-> 0]
  /\ doubled = 0
  /\ excess = 0
  /\ shaken = {}
  /\ report = [r \in Reports |-> "new"]
  /\ subject = [r \in Reports |-> None]
  /\ exec = [r \in Reports |-> None]
  /\ outcomes = {}
  /\ figures = [r \in Reports |-> 0]
  /\ seen = [r \in Reports |-> NoRow]
  /\ raced = {}

-----------------------------------------------------------------------------
\* processCarbonCommand.
InProgress == {c \in Calls : call[c] \in {"admitted", "ready"}}
Uncounted  == (InProgress \cup commands) \ counted
Cap        == IF tier = "FREE" THEN Limit ELSE Grace

\* Mutants of WithinQuota: off by one; GROWTH without its grace.
WithinQuotaOrAt == tier = "ENTERPRISE" \/ count <= Cap
WithinQuotaNoGrace == tier = "ENTERPRISE" \/ count < Limit

\* assertCommandQuota, with the counter as it was read.
WithinQuota == tier = "ENTERPRISE" \/ count < Cap

Admit(c) ==
  /\ call[c] = "new"
  /\ \/ /\ WithinQuota
        /\ call' = [call EXCEPT ![c] = "admitted"]
        /\ excess' = Cardinality(Uncounted)
     \/ /\ ~WithinQuota
        /\ call' = [call EXCEPT ![c] = "overQuota"]
        /\ UNCHANGED excess
  /\ UNCHANGED <<creditVars, outcomeVars, tier, need, commands, count, pending, tries,
                 counted, doubled, shaken>>

\* Mutant of Covered: a command may use more than there is.
CoveredByAny(n) == Available > 0

\* ensureCreditCoverage
Covered(n) == Available > 0 /\ Available >= n

\* The candidates are evaluated, and cover is demanded by the organization or the
\* request (or not). An error, an empty choice or missing cover ends the request.
Evaluate(c) ==
  /\ call[c] = "admitted"
  /\ \/ call' = [call EXCEPT ![c] = "refused"] /\ UNCHANGED need
     \/ call' = [call EXCEPT ![c] = "ready"] /\ UNCHANGED need
     \/ \E n \in Needs :
          /\ Covered(n)
          /\ call' = [call EXCEPT ![c] = "ready"]
          /\ need' = [need EXCEPT ![c] = n]
  /\ UNCHANGED <<creditVars, outcomeVars, tier, commands, count, pending, tries,
                 counted, doubled, excess, shaken>>

\* persistDecision commits; the increment is launched and the request answered.
Persist(c) ==
  /\ call[c] = "ready"
  /\ call' = [call EXCEPT ![c] = "answered"]
  /\ commands' = commands \cup {c}
  /\ pending' = pending \cup {c}
  /\ UNCHANGED <<creditVars, outcomeVars, tier, need, count, tries, counted, doubled,
                 excess, shaken>>

\* The transaction fails, applied or not, or the process dies on the way: no
\* increment is ever launched.
CallFails(c) ==
  /\ c \in InProgress
  /\ Fault
  /\ call' = [call EXCEPT ![c] = "failed"]
  /\ \/ UNCHANGED commands
     \/ call[c] = "ready" /\ commands' = commands \cup {c}
  /\ UNCHANGED <<bought, retired, op, goal, ids, offsets, took, autos, overlap>>
  /\ UNCHANGED <<outcomeVars, tier, need, count, pending, tries, counted, doubled,
                 excess, shaken>>

\* The increment is one statement of the database.
Charge(c) ==
  /\ count' = count + 1
  /\ counted' = counted \cup {c}
  /\ doubled' = doubled + (IF c \in counted THEN 1 ELSE 0)

Increment(c) ==
  /\ c \in pending
  /\ Charge(c)
  /\ pending' = pending \ {c}
  /\ UNCHANGED <<creditVars, outcomeVars, tier, call, need, commands, tries, excess, shaken>>

\* A try fails, applied or not, and is repeated until the tries are used up; or
\* the process dies with it.
IncrementFails(c) ==
  /\ c \in pending
  /\ Fault
  /\ Charge(c) \/ UNCHANGED <<count, counted, doubled>>
  /\ tries' = [tries EXCEPT ![c] = @ + 1]
  /\ pending' \in IF tries[c] + 1 < Attempts THEN {pending, pending \ {c}}
                                            ELSE {pending \ {c}}
  /\ UNCHANGED <<bought, retired, op, goal, ids, offsets, took, autos, overlap>>
  /\ UNCHANGED <<outcomeVars, tier, call, need, commands, excess, shaken>>

-----------------------------------------------------------------------------
\* processCarbonOutcome.
Recorded(c) == \E o \in outcomes : subject[o] = c
Executed(e) == e # None /\ \E o \in outcomes : exec[o] = e

Check(r, c, e) ==
  /\ report[r] = "new"
  /\ \/ /\ c \notin commands
        /\ report' = [report EXCEPT ![r] = "unknown"]
        /\ UNCHANGED <<subject, exec>>
     \/ /\ c \in commands /\ (Recorded(c) \/ Executed(e))
        /\ report' = [report EXCEPT ![r] = "conflict"]
        /\ UNCHANGED <<subject, exec>>
     \/ /\ c \in commands /\ ~Recorded(c) /\ ~Executed(e)
        /\ report' = [report EXCEPT ![r] = "checked"]
        /\ subject' = [subject EXCEPT ![r] = c]
        /\ exec' = [exec EXCEPT ![r] = e]
  /\ UNCHANGED <<creditVars, usageVars, outcomes, figures, seen, raced>>

\* The unique indexes on commandId and providerExecutionId.
Duplicate(r) == Recorded(subject[r]) \/ Executed(exec[r])

\* The outcome and the status EXECUTED of its command, in one transaction.
RecordOutcome(r) ==
  /\ report[r] = "checked"
  /\ \/ /\ Duplicate(r)
        /\ report' = [report EXCEPT ![r] = "failed"]
        /\ UNCHANGED outcomes
     \/ /\ ~Duplicate(r)
        /\ report' = [report EXCEPT ![r] = "recorded"]
        /\ outcomes' = outcomes \cup {r}
  /\ UNCHANGED <<creditVars, usageVars, subject, exec, figures, seen, raced>>

Rows == {r \in Reports : figures[r] > 0}
Measuring == {r \in Reports : report[r] = "read"}

\* updateAccuracyMetrics: findFirst takes any of the day's rows.
ReadFigures(r) ==
  /\ report[r] = "recorded"
  /\ report' = [report EXCEPT ![r] = "read"]
  /\ \/ Rows = {} /\ seen' = [seen EXCEPT ![r] = NoRow]
     \/ \E o \in Rows : seen' = [seen EXCEPT ![r] = [row |-> o, total |-> figures[o]]]
  /\ raced' = IF Measuring = {} THEN raced ELSE raced \cup Measuring \cup {r}
  /\ UNCHANGED <<creditVars, usageVars, subject, exec, outcomes, figures>>

\* Mutant of Written: a new row for every outcome beside the updated one.
WrittenTwice(r) ==
  [o \in Reports |-> CASE o = seen[r].row -> seen[r].total + 1
                       [] o = r           -> 1
                       [] OTHER           -> figures[o]]

\* A row of its own, or the row it read with the total it read plus one.
Written(r) ==
  [o \in Reports |-> CASE o = seen[r].row                   -> seen[r].total + 1
                       [] o = r /\ seen[r].row = None       -> 1
                       [] OTHER                             -> figures[o]]

WriteFigures(r) ==
  /\ report[r] = "read"
  /\ report' = [report EXCEPT ![r] = "answered"]
  /\ figures' = Written(r)
  /\ UNCHANGED <<creditVars, usageVars, subject, exec, outcomes, seen, raced>>

\* A statement fails, applied or not, or the process dies: the caller gets an
\* error, and a repeated report of a recorded outcome is a conflict.
ReportFails(r) ==
  /\ report[r] \in {"checked", "recorded", "read"}
  /\ Fault
  /\ report' = [report EXCEPT ![r] = "failed"]
  /\ \/ UNCHANGED <<outcomes, figures>>
     \/ /\ report[r] = "checked" /\ ~Duplicate(r)
        /\ outcomes' = outcomes \cup {r}
        /\ UNCHANGED figures
     \/ report[r] = "read" /\ figures' = Written(r) /\ UNCHANGED outcomes
  /\ UNCHANGED <<bought, retired, op, goal, ids, offsets, took, autos, overlap>>
  /\ UNCHANGED <<usageVars, subject, exec, seen, raced>>

-----------------------------------------------------------------------------
Arrived ==
  {c \in Calls : call[c] \notin {"new", "earlier"}} \cup
  {r \in Reports : report[r] # "new"} \cup {o \in Ops : op[o] # "new"}

Room == Cardinality(Arrived) < MaxArrivals

\* Bound: the outcomes and the credits share no state, so no behaviour has both.
NoReports == \A r \in Reports : report[r] = "new"
NoCredits == bought = <<>> /\ \A o \in Ops : op[o] = "new"

Report(r) ==
  \/ Room /\ NoCredits /\ \E c \in Calls, e \in Execs \cup {None} : Check(r, c, e)
  \/ RecordOutcome(r) \/ ReadFigures(r) \/ WriteFigures(r) \/ ReportFails(r)

\* A step of the credits; it can undo the cover a request has checked.
CreditStep ==
  /\ NoReports
  /\ \/ \E c \in Credits : Purchase(c)
     \/ \E o \in Ops : (Room /\ Begin(o)) \/ Continue(o)
  /\ shaken' = IF retired' = retired THEN shaken
               ELSE shaken \cup {c \in Calls : call[c] = "ready"}
  /\ UNCHANGED <<outcomeVars, tier, call, need, commands, count, pending, tries, counted,
                 doubled, excess>>

Command(c) ==
  \/ Room /\ Admit(c)
  \/ Evaluate(c) \/ Persist(c) \/ CallFails(c) \/ Increment(c) \/ IncrementFails(c)

Next == (\E c \in Calls : Command(c)) \/ (\E r \in Reports : Report(r)) \/ CreditStep

Spec == Init /\ [][Next]_vars

-----------------------------------------------------------------------------
CallStates   == {"new", "earlier", "admitted", "overQuota", "refused", "ready", "answered", "failed"}
ReportStates == {"new", "unknown", "conflict", "checked", "recorded", "read",
                 "answered", "failed"}

\* Types of the tables, the requests and the histories.
TypeOK ==
  /\ CreditsTypeOK
  /\ tier \in {"FREE", "GROWTH", "ENTERPRISE"}
  /\ call \in [Calls -> CallStates]
  /\ need \in [Calls -> Nat]
  /\ pending \subseteq commands /\ commands \subseteq Calls
  /\ counted \subseteq commands
  /\ count \in Nat /\ doubled \in Nat /\ excess \in Nat
  /\ tries \in [Calls -> Nat]
  /\ shaken \subseteq Calls
  /\ report \in [Reports -> ReportStates]
  /\ subject \in [Reports -> Calls \cup {None}]
  /\ exec \in [Reports -> Execs \cup {None}]
  /\ outcomes \subseteq Reports
  /\ figures \in [Reports -> Nat]
  /\ seen \in [Reports -> [row : Reports \cup {None}, total : Nat]]
  /\ raced \subseteq Reports

\* The quota is exceeded only by requests that were past the check, or committed,
\* without being counted when the latest request passed it: those in progress,
\* those whose increment is on its way and those whose increment was lost. (The
\* code calls the FREE limit a hard block.)
OverageExplained == tier # "ENTERPRISE" => Cardinality(commands) <= Cap + excess

\* Nobody is refused below the quota, unless an increment whose answer was lost
\* was applied twice.
RefusalJustified ==
  \A c \in Calls : call[c] = "overQuota" => Cardinality(commands) + doubled >= Cap

\* A request that has to be covered gets to its commit only while the active
\* credits cover it, unless credits were retired after its check: a purchase, a
\* refused or a failed offset take no cover away.
CoverageExplained ==
  \A c \in Calls : call[c] = "ready" /\ need[c] > 0 => Available >= need[c] \/ c \in shaken

\* The day's figures count no outcome twice, and count every outcome but those
\* still to be added, those whose report failed, and those whose read and write
\* overlapped another report's.
AccuracyExplained ==
  LET total   == SumFunction(figures)
      missing == raced \cup {r \in Reports : report[r] \in {"recorded", "read", "failed"}}
  IN /\ total <= Cardinality(outcomes)
     /\ Cardinality(outcomes \ missing) <= total

=============================================================================
