---------------------------- MODULE CarbonCredits ----------------------------
(***************************************************************************)
(* The carbon credits of one organization and the emission log they are    *)
(* set off in (routes/credits.ts): purchase, retirement by id and the      *)
(* automatic offset. No call uses a transaction: /retire is an update and  *)
(* an insert, /auto-offset two reads, an update and an insert, and calls   *)
(* interleave between the statements. A call can be lost between any two   *)
(* of them, and a statement can fail after it was applied.                 *)
(*                                                                         *)
(* Nothing in the repository writes the positive rows of the emission log, *)
(* so the target of an automatic offset (emissions times the percentage    *)
(* asked for) is a value from Goals.                                       *)
(***************************************************************************)
EXTENDS Integers, Sequences, SequencesExt

CONSTANTS
  Credits,    \* credit ids
  Amount,     \* credit -> amountCO2
  Ops,        \* calls of /retire and /auto-offset
  Goals,      \* targets of an automatic offset
  MaxFaults   \* bound: statements that fail and calls that die

ASSUME CreditsAssumption ==
  /\ Amount \in [Credits -> Nat \ {0}]
  /\ Goals \subseteq Nat
  /\ MaxFaults \in Nat

VARIABLES
  bought,     \* the credits, in the order of purchasedAt
  retired,    \* those with status RETIRED
  op,         \* call -> where it stands
  goal,       \* call -> the offset still needed, as it measured it
  ids,        \* call -> the credits it retires
  offsets,    \* call -> the credits its row of the emission log counts
  took,       \* history: call -> the credits its own update retired
  autos,      \* history: calls of /auto-offset
  overlap,    \* history: pairs of calls that were in progress together
  faults

creditVars == <<bought, retired, op, goal, ids, offsets, took, autos, overlap, faults>>

CreditsInit ==
  /\ bought = <<>>
  /\ retired = {}
  /\ op = [o \in Ops |-> "new"]
  /\ goal = [o \in Ops |-> 0]
  /\ ids = [o \in Ops |-> {}]
  /\ offsets = [o \in Ops |-> {}]
  /\ took = [o \in Ops |-> {}]
  /\ autos = {}
  /\ overlap = {}
  /\ faults = 0

Fault == faults < MaxFaults /\ faults' = faults + 1

Sum(S)      == SumFunctionOnSet(Amount, S)
Bought      == ToSet(bought)
Active      == Bought \ retired
Available   == Sum(Active)
Logged      == [o \in Ops |-> Sum(offsets[o])]
TotalOffset == SumFunction(Logged)

Busy == {o \in Ops : op[o] \in {"measured", "chosen", "retired"}}
Meets(o) == overlap' = overlap \cup {{o, p} : p \in Busy \ {o}}

Purchase(c) ==
  /\ c \notin Bought
  /\ bought' = Append(bought, c)
  /\ UNCHANGED <<retired, op, goal, ids, offsets, took, autos, overlap, faults>>

-----------------------------------------------------------------------------
\* updateMany: the credits of S that are ACTIVE, or every credit of S.
Take(o, S, T) ==
  /\ retired' = retired \cup T
  /\ ids' = [ids EXCEPT ![o] = S]
  /\ took' = [took EXCEPT ![o] = T \ retired]

\* Mutant of Retire: a call that finds no active credit goes on.
RetireAny(o, S) ==
  /\ op[o] = "new"
  /\ Meets(o)
  /\ op' = [op EXCEPT ![o] = "retired"]
  /\ Take(o, S, S \cap Active)
  /\ UNCHANGED <<bought, goal, offsets, autos, faults>>

\* POST /retire, its update: 404 when none of the ids is active.
Retire(o, S) ==
  /\ op[o] = "new"
  /\ Meets(o)
  /\ \/ /\ S \cap Active = {}
        /\ op' = [op EXCEPT ![o] = "refused"]
        /\ UNCHANGED <<retired, ids, took>>
     \/ /\ S \cap Active # {}
        /\ op' = [op EXCEPT ![o] = "retired"]
        /\ Take(o, S, S \cap Active)
  /\ UNCHANGED <<bought, goal, offsets, autos, faults>>

\* POST /auto-offset reads the log and is done when the target is met.
Measure(o, target) ==
  /\ op[o] = "new"
  /\ Meets(o)
  /\ autos' = autos \cup {o}
  /\ \/ /\ target <= TotalOffset
        /\ op' = [op EXCEPT ![o] = "satisfied"]
        /\ UNCHANGED goal
     \/ /\ target > TotalOffset
        /\ op' = [op EXCEPT ![o] = "measured"]
        /\ goal' = [goal EXCEPT ![o] = target - TotalOffset]
  /\ UNCHANGED <<bought, retired, ids, offsets, took, faults>>

\* The oldest active credits, as many as reach the needed offset.
Fifo(needed) ==
  LET oldest(n)  == {c \in Active : \E i \in 1..n : bought[i] = c}
      reaches(n) == Sum(oldest(n)) >= needed
  IN oldest(CHOOSE n \in 0..Len(bought) : reaches(n) /\ \A m \in 0..(n - 1) : ~reaches(m))

\* It reads the active credits and picks the oldest.
Choose(o) ==
  /\ op[o] = "measured"
  /\ \/ /\ Available < goal[o]
        /\ op' = [op EXCEPT ![o] = "refused"]
        /\ UNCHANGED ids
     \/ /\ Available >= goal[o]
        /\ op' = [op EXCEPT ![o] = "chosen"]
        /\ ids' = [ids EXCEPT ![o] = Fifo(goal[o])]
  /\ UNCHANGED <<bought, retired, goal, offsets, took, autos, overlap, faults>>

\* Its update names the credits by id and does not look at their status again.
RetireChosen(o) ==
  /\ op[o] = "chosen"
  /\ op' = [op EXCEPT ![o] = "retired"]
  /\ Take(o, ids[o], ids[o])
  /\ UNCHANGED <<bought, goal, offsets, autos, overlap, faults>>

\* Mutant of LogOffset: the row is never written.
LogNothing(o) ==
  /\ op[o] = "retired"
  /\ op' = [op EXCEPT ![o] = "done"]
  /\ UNCHANGED <<bought, retired, goal, ids, offsets, took, autos, overlap, faults>>

\* Both calls log every credit they named that exists, whoever retired it.
LogOffset(o) ==
  /\ op[o] = "retired"
  /\ op' = [op EXCEPT ![o] = "done"]
  /\ offsets' = [offsets EXCEPT ![o] = ids[o] \cap Bought]
  /\ UNCHANGED <<bought, retired, goal, ids, took, autos, overlap, faults>>

\* A statement throws or the process dies: the call is over; what it wrote stays,
\* and the statement in hand may have been applied.
Lose(o) ==
  /\ op[o] \in {"measured", "chosen", "retired"}
  /\ Fault
  /\ op' = [op EXCEPT ![o] = "lost"]
  /\ \/ UNCHANGED <<retired, ids, took, offsets>>
     \/ op[o] = "chosen" /\ Take(o, ids[o], ids[o]) /\ UNCHANGED offsets
     \/ /\ op[o] = "retired"
        /\ offsets' = [offsets EXCEPT ![o] = ids[o] \cap Bought]
        /\ UNCHANGED <<retired, ids, took>>
  /\ UNCHANGED <<bought, goal, autos, overlap>>

\* The first update of /retire was applied, but its answer is lost.
RetireUnlearnt(o, S) ==
  /\ op[o] = "new"
  /\ Fault
  /\ Meets(o)
  /\ op' = [op EXCEPT ![o] = "lost"]
  /\ Take(o, S, S \cap Active)
  /\ UNCHANGED <<bought, goal, offsets, autos>>

Begin(o) == \/ \E S \in SUBSET Credits \ {{}} : Retire(o, S) \/ RetireUnlearnt(o, S)
            \/ \E target \in Goals : Measure(o, target)

Continue(o) == Choose(o) \/ RetireChosen(o) \/ LogOffset(o) \/ Lose(o)

-----------------------------------------------------------------------------
OpStates == {"new", "measured", "satisfied", "refused", "chosen", "retired", "done", "lost"}

\* Types of the credits, the log and the calls.
CreditsTypeOK ==
  /\ bought \in Seq(Credits)
  /\ retired \subseteq Bought
  /\ op \in [Ops -> OpStates]
  /\ goal \in [Ops -> Nat]
  /\ ids \in [Ops -> SUBSET Credits]
  /\ offsets \in [Ops -> SUBSET Bought]
  /\ took \in [Ops -> SUBSET retired]
  /\ autos \subseteq Ops
  /\ overlap \subseteq SUBSET Ops
  /\ faults \in 0..MaxFaults

\* A credit is counted in two rows of the emission log only when the two calls
\* overlapped, or when one is a /retire that named it after its retirement beside
\* a credit it did retire: it sums all the ids, not those its update changed.
OffsetsExplained ==
  \A p, q \in Ops : \A c \in offsets[p] \cap offsets[q] :
    \/ p = q
    \/ {p, q} \in overlap
    \/ \E o \in {p, q} \ autos : c \notin took[o] /\ took[o] # {}

\* A retired credit is in the emission log, unless the call that retired it is
\* still at work or was lost between its two statements.
RetiredIsOffset ==
  \A c \in retired :
    \/ \E o \in Ops : c \in offsets[o]
    \/ \E o \in Ops : c \in took[o] /\ op[o] \in {"retired", "lost"}
=============================================================================
