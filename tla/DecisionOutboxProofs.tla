------------------------ MODULE DecisionOutboxProofs ------------------------
(***************************************************************************)
(* What holds of the outbox for every number of nodes, overlapping         *)
(* batches, events, sinks and failures. The invariant ties a batch's place *)
(* in the loop to the row it holds; without it neither property is         *)
(* inductive, since a write depends on what the batch learnt earlier.      *)
(* Two parts follow that need more: the refinement of EventDelivery by one *)
(* dispatcher, and the bound on the requests two overlapping batches make. *)
(***************************************************************************)
EXTENDS DecisionOutbox, FiniteSetTheorems, TLAPS

Working == {"post", "accepted", "rejected", "thrown"}

\* Where a batch stands says whether it holds a row; an accepted answer says
\* that the row's sink has the event.
LoopInv ==
  \A b \in Batches :
    /\ pc[b] \in Working => item[b] \in Item
    /\ pc[b] \in {"idle", "loop"} => item[b] = NoItem
    /\ pc[b] = "accepted" => item[b].row \in accepted

Inv == TypeOK /\ LoopInv /\ SentWasAccepted /\ ProcessingHasOwner

USE DEF Hazards, Statuses, Row, Item, Rows, Events, NoItem

\* What the failure record of a candidate looks like: typed, and neither SENT
\* nor PROCESSING, so it settles the row or returns it to the candidates.
LEMMA FailedRecord ==
  ASSUME NEW i \in Item
  PROVE  /\ Failed(i) \in Row
         /\ Failed(i).status \in {"FAILED", "DEAD_LETTER"}
BY OutboxAssumption DEF Failed

\* The rows a batch writes keep the table's type, whether or not they land.
LEMMA RowUpdates ==
  ASSUME TypeOK, NEW r \in Rows
  PROVE  /\ Processing(r) \in Row /\ Processing(r).status = "PROCESSING"
         /\ Sent(r) \in Row /\ Sent(r).status = "SENT"
         /\ DeadLettered(r) \in Row /\ DeadLettered(r).status = "DEAD_LETTER"
BY DEF TypeOK, Processing, Sent, DeadLettered

LEMMA AttemptType ==
  ASSUME TypeOK, NEW r \in Rows, NEW row \in Row, Attempt(r, row)
  PROVE  outbox' \in [Rows -> Row]
BY DEF TypeOK, Attempt, Write

\* The types hold initially and every action keeps them.
LEMMA TypeInit == Init => TypeOK
BY OutboxAssumption DEF Init, TypeOK

LEMMA TypeNext == TypeOK /\ LoopInv /\ [Next]_vars => TypeOK'
<1> SUFFICES ASSUME TypeOK, LoopInv, [Next]_vars PROVE TypeOK'
  OBVIOUS
<1> USE OutboxAssumption DEF TypeOK, Spend, store, loop
<1>1. ASSUME NEW S \in SUBSET Sinks, Publish(S) PROVE TypeOK'
  BY <1>1 DEF Publish, Fresh
<1>2. CASE EnqueueDecisionEvaluated
  BY <1>1, <1>2 DEF EnqueueDecisionEvaluated
<1>3. ASSUME NEW s \in Sinks, CreateTestEvent(s) PROVE TypeOK'
  BY <1>1, <1>3 DEF CreateTestEvent
<1>4. ASSUME NEW s \in Sinks, ToggleSink(s) PROVE TypeOK'
  BY <1>4 DEF ToggleSink
<1>5. ASSUME NEW r \in Rows, Requeue(r) PROVE TypeOK'
  BY <1>5 DEF Requeue, Fresh
<1>6. ASSUME NEW r \in Rows, Elapse(r) PROVE TypeOK'
  <2>1. outbox[r] \in Row
    OBVIOUS
  <2>2. outbox' = [outbox EXCEPT ![r] = [outbox[r] EXCEPT !.due = TRUE]]
    BY <1>6 DEF Elapse
  <2>3. outbox' \in [Rows -> Row]
    BY <2>1, <2>2
  <2> QED
    BY <1>6, <2>3 DEF Elapse
<1>7. ASSUME NEW T \in Candidates PROVE Snapshot(T) \subseteq Item
  BY DEF Candidates, Due, Snapshot
<1>8. ASSUME NEW b \in Batches, StartCycle(b) PROVE TypeOK'
  BY <1>7, <1>8 DEF StartCycle, Begin
<1>9. ASSUME NEW b \in Batches, DispatchNow(b) PROVE TypeOK'
  BY <1>7, <1>9 DEF DispatchNow, Begin
<1>10. ASSUME NEW b \in Batches, Finish(b) PROVE TypeOK'
  BY <1>10 DEF Finish, Return
<1>11. ASSUME NEW b \in Batches, NEW i \in todo[b], SkipInactive(b, i) PROVE TypeOK'
  <2>1. i.row \in Rows /\ DeadLettered(i.row) \in Row
    BY RowUpdates
  <2>2. outbox' \in [Rows -> Row]
    BY <1>11, <2>1 DEF SkipInactive, Write
  <2> QED
    BY <1>11, <2>2 DEF SkipInactive
<1>12. ASSUME NEW b \in Batches, NEW i \in todo[b], MarkProcessing(b, i) PROVE TypeOK'
  <2>1. i.row \in Rows /\ Processing(i.row) \in Row
    BY RowUpdates
  <2>2. outbox' \in [Rows -> Row]
    BY <1>12, <2>1 DEF MarkProcessing, Write
  <2> QED
    BY <1>12, <2>2 DEF MarkProcessing
<1>13. ASSUME NEW b \in Batches, NEW i \in todo[b], MarkFails(b, i) PROVE TypeOK'
  <2>1. i \in Item /\ i.row \in Rows
    OBVIOUS
  <2>2. (IF i.active THEN Processing(i.row) ELSE DeadLettered(i.row)) \in Row
    BY <2>1, RowUpdates
  <2>3. outbox' \in [Rows -> Row]
    BY <1>13, <2>1, <2>2, AttemptType DEF MarkFails
  <2> QED
    BY <1>13, <2>1, <2>3 DEF MarkFails, Return
<1>14. ASSUME NEW b \in Batches, Post(b) PROVE TypeOK'
  BY <1>14 DEF Post, LoopInv, Working
<1>15. ASSUME NEW b \in Batches, RecordSent(b) PROVE TypeOK'
  <2>1. item[b] \in Item /\ item[b].row \in Rows
    BY <1>15 DEF RecordSent, LoopInv, Working
  <2> QED
    BY <1>15, <2>1, RowUpdates DEF RecordSent, Write, Proceed
<1>16. ASSUME NEW b \in Batches, RecordFailure(b) PROVE TypeOK'
  BY <1>16, FailedRecord DEF RecordFailure, Write, Proceed, LoopInv, Working
<1>17. ASSUME NEW b \in Batches, RecordThrows(b) PROVE TypeOK'
  <2>1. item[b] \in Item /\ item[b].row \in Rows
    BY <1>17 DEF RecordThrows, LoopInv, Working
  <2>2. outbox' \in [Rows -> Row]
    BY <1>17, <2>1, RowUpdates, FailedRecord, AttemptType DEF RecordThrows
  <2> QED
    BY <1>17, <2>1, <2>2 DEF RecordThrows
<1>18. ASSUME NEW b \in Batches, CatchThrows(b) PROVE TypeOK'
  BY <1>18, FailedRecord DEF CatchThrows, Attempt, Write, Return, LoopInv, Working
<1>19. ASSUME NEW n \in Nodes, Crash(n) PROVE TypeOK'
  <2>1. \A b \in Batches : item[b] # NoItem => item[b].row \in Rows
    OBVIOUS
  <2>2. abandoned' \subseteq Rows
    BY <1>19, <2>1, SMTT(20) DEF Crash
  <2>3. pc' \in [Batches -> {"idle", "loop", "post", "accepted", "rejected", "thrown"}]
        /\ cron' \in [Batches -> BOOLEAN]
    BY <1>19 DEF Crash
  <2>4. todo' \in [Batches -> SUBSET Item]
    BY <1>19 DEF Crash
  <2>5. item' \in [Batches -> Item \cup {NoItem}]
    BY <1>19 DEF Crash
  <2>6. running' \in [Nodes -> BOOLEAN] /\ budget' \in [Hazards -> Nat]
    BY <1>19 DEF Crash
  <2>7. UNCHANGED <<sinkActive, published, outbox, accepted, posts>>
    BY <1>19 DEF Crash
  <2> QED
    BY <2>2, <2>3, <2>4, <2>5, <2>6, <2>7
<1>20. CASE UNCHANGED vars
  BY <1>20 DEF vars
<1> QED
  BY <1>2, <1>3, <1>4, <1>5, <1>6, <1>8, <1>9, <1>10, <1>11, <1>12, <1>13,
     <1>14, <1>15, <1>16, <1>17, <1>18, <1>19, <1>20 DEF Next, Deliver, Interrupt

\* No action separates a batch's place in the loop from the row it holds.
LEMMA LoopNext == TypeOK /\ LoopInv /\ [Next]_vars => LoopInv'
<1> SUFFICES ASSUME TypeOK, LoopInv, [Next]_vars PROVE LoopInv'
  OBVIOUS
<1> USE DEF TypeOK, LoopInv, Working, store, loop
<1>1. CASE EnqueueDecisionEvaluated
  BY <1>1 DEF EnqueueDecisionEvaluated, Publish
<1>2. ASSUME NEW s \in Sinks, CreateTestEvent(s) \/ ToggleSink(s) PROVE LoopInv'
  BY <1>2 DEF CreateTestEvent, Publish, ToggleSink
<1>3. ASSUME NEW r \in Rows, Requeue(r) \/ Elapse(r) PROVE LoopInv'
  BY <1>3 DEF Requeue, Elapse
<1>4. ASSUME NEW b \in Batches, StartCycle(b) \/ DispatchNow(b) PROVE LoopInv'
  BY <1>4 DEF StartCycle, DispatchNow, Begin
<1>5. ASSUME NEW b \in Batches, Finish(b) PROVE LoopInv'
  BY <1>5 DEF Finish, Return
<1>6. ASSUME NEW b \in Batches, NEW i \in todo[b],
             SkipInactive(b, i) \/ MarkProcessing(b, i) PROVE LoopInv'
  BY <1>6 DEF SkipInactive, MarkProcessing
<1>7. ASSUME NEW b \in Batches, NEW i \in todo[b], MarkFails(b, i) PROVE LoopInv'
  BY <1>7 DEF MarkFails, Return
<1>8. ASSUME NEW b \in Batches, Post(b) PROVE LoopInv'
  BY <1>8 DEF Post
<1>9. ASSUME NEW b \in Batches, RecordSent(b) \/ RecordFailure(b) PROVE LoopInv'
  BY <1>9 DEF RecordSent, RecordFailure, Proceed
<1>10. ASSUME NEW b \in Batches, RecordThrows(b) PROVE LoopInv'
  BY <1>10 DEF RecordThrows
<1>11. ASSUME NEW b \in Batches, CatchThrows(b) PROVE LoopInv'
  BY <1>11 DEF CatchThrows, Return
<1>12. ASSUME NEW n \in Nodes, Crash(n) PROVE LoopInv'
  BY <1>12 DEF Crash
<1>13. CASE UNCHANGED vars
  BY <1>13 DEF vars
<1> QED
  BY <1>1, <1>2, <1>3, <1>4, <1>5, <1>6, <1>7, <1>8, <1>9, <1>10, <1>11, <1>12,
     <1>13 DEF Next, Deliver, Interrupt

\* A batch writes SENT only on an accepted answer; nobody else writes SENT.
LEMMA SentNext == Inv /\ [Next]_vars => SentWasAccepted'
<1> SUFFICES ASSUME Inv, [Next]_vars PROVE SentWasAccepted'
  OBVIOUS
<1> USE DEF Inv, SentWasAccepted, store, loop
<1> DEFINE Quiet == UNCHANGED <<outbox, accepted>>
<1>1. ASSUME NEW S \in SUBSET Sinks, Publish(S) PROVE SentWasAccepted'
  BY <1>1 DEF Publish, Fresh
<1>2. CASE EnqueueDecisionEvaluated
  BY <1>1, <1>2 DEF EnqueueDecisionEvaluated
<1>3. ASSUME NEW s \in Sinks, CreateTestEvent(s) PROVE SentWasAccepted'
  BY <1>1, <1>3 DEF CreateTestEvent
<1>4. ASSUME NEW r \in Rows, Requeue(r) \/ Elapse(r) PROVE SentWasAccepted'
  BY <1>4 DEF Requeue, Elapse, Fresh, TypeOK
<1>5. ASSUME NEW b \in Batches, StartCycle(b) \/ DispatchNow(b) \/ Finish(b) PROVE Quiet
  BY <1>5 DEF StartCycle, DispatchNow, Begin, Finish
<1>6. ASSUME NEW r \in Rows, NEW row \in Row, Attempt(r, row),
             row.status = "SENT" => r \in accepted, UNCHANGED accepted
      PROVE SentWasAccepted'
  BY <1>6 DEF Attempt, Write, TypeOK
<1>7. ASSUME NEW b \in Batches, NEW i \in todo[b],
             SkipInactive(b, i) \/ MarkProcessing(b, i) \/ MarkFails(b, i)
      PROVE SentWasAccepted'
  <2>1. i.row \in Rows
    BY DEF TypeOK
  <2>2. \/ Attempt(i.row, Processing(i.row))
        \/ Attempt(i.row, DeadLettered(i.row))
    BY <1>7 DEF SkipInactive, MarkProcessing, MarkFails, Attempt
  <2>3. UNCHANGED accepted
    BY <1>7 DEF SkipInactive, MarkProcessing, MarkFails
  <2> QED
    BY <1>6, <2>1, <2>2, <2>3, RowUpdates
<1>8. ASSUME NEW b \in Batches, Post(b) PROVE SentWasAccepted'
  BY <1>8 DEF Post
<1>9. ASSUME NEW b \in Batches,
             RecordSent(b) \/ RecordFailure(b) \/ RecordThrows(b) \/ CatchThrows(b)
      PROVE SentWasAccepted'
  <2>1. item[b] \in Item /\ item[b].row \in Rows
    BY <1>9 DEF RecordSent, RecordFailure, RecordThrows, CatchThrows, LoopInv, Working
  <2>2. \/ Attempt(item[b].row, Sent(item[b].row)) /\ item[b].row \in accepted
        \/ Attempt(item[b].row, Failed(item[b]))
    BY <1>9 DEF RecordSent, RecordFailure, RecordThrows, CatchThrows, Attempt, LoopInv
  <2>3. UNCHANGED accepted
    BY <1>9 DEF RecordSent, RecordFailure, RecordThrows, CatchThrows, Proceed
  <2> QED
    BY <1>6, <2>1, <2>2, <2>3, RowUpdates, FailedRecord
<1>10. ASSUME NEW s \in Sinks, ToggleSink(s) PROVE Quiet
  BY <1>10 DEF ToggleSink
<1>11. ASSUME NEW n \in Nodes, Crash(n) PROVE Quiet
  BY <1>11 DEF Crash
<1>12. CASE UNCHANGED vars
  BY <1>12 DEF vars
<1>13. Quiet => SentWasAccepted'
  OBVIOUS
<1> QED
  BY <1>2, <1>3, <1>4, <1>5, <1>7, <1>8, <1>9, <1>10, <1>11, <1>12, <1>13
  DEF Next, Deliver, Interrupt

\* Only marking a row makes it PROCESSING, and then the batch has it in hand; a
\* batch lets a row go only after writing another status, or by abandoning it.
LEMMA OwnerNext == Inv /\ [Next]_vars => ProcessingHasOwner'
<1> SUFFICES ASSUME Inv, [Next]_vars PROVE ProcessingHasOwner'
  OBVIOUS
<1> USE DEF Inv, ProcessingHasOwner, InHand, store, loop
<1>1. ASSUME NEW S \in SUBSET Sinks, Publish(S) PROVE ProcessingHasOwner'
  BY <1>1 DEF Publish, Fresh
<1>2. CASE EnqueueDecisionEvaluated
  BY <1>1, <1>2 DEF EnqueueDecisionEvaluated
<1>3. ASSUME NEW s \in Sinks, CreateTestEvent(s) PROVE ProcessingHasOwner'
  BY <1>1, <1>3 DEF CreateTestEvent
<1>4. ASSUME NEW r \in Rows, Requeue(r) \/ Elapse(r) PROVE ProcessingHasOwner'
  <2>1. \A x \in Rows : outbox'[x].status = "PROCESSING" =>
          outbox[x].status = "PROCESSING" /\ x # r
    BY <1>4 DEF Requeue, Elapse, Fresh, TypeOK
  <2>2. item' = item /\ \A x \in Rows : x # r /\ x \in abandoned => x \in abandoned'
    BY <1>4 DEF Requeue, Elapse
  <2> QED
    BY <2>1, <2>2
<1>5. CASE UNCHANGED <<outbox, item, abandoned>>
  BY <1>5
<1>6. ASSUME NEW b \in Batches, StartCycle(b) \/ DispatchNow(b)
      PROVE UNCHANGED <<outbox, item, abandoned>>
  BY <1>6 DEF StartCycle, DispatchNow, Begin
<1>7. ASSUME NEW b \in Batches, Finish(b) PROVE UNCHANGED <<outbox, item, abandoned>>
  BY <1>7 DEF Finish, Return, LoopInv, TypeOK
<1>8. ASSUME NEW b \in Batches, Post(b) PROVE UNCHANGED <<outbox, item, abandoned>>
  BY <1>8 DEF Post
\* A write of any row but PROCESSING, the hands unchanged on every other row.
<1>9. ASSUME NEW r \in Rows, NEW row \in Row, Attempt(r, row),
             row.status # "PROCESSING" \/ r \in abandoned',
             abandoned \subseteq abandoned',
             outbox'[r] = row \/ r \in abandoned' \/ item' = item,
             \A b \in Batches : item'[b] = item[b] \/ item[b] = NoItem
                                  \/ item[b].row = r
      PROVE ProcessingHasOwner'
  <2> SUFFICES ASSUME NEW x \in Rows, outbox'[x].status = "PROCESSING",
                      x \notin abandoned'
               PROVE  \E b \in Batches : InHand(b, x)'
    OBVIOUS
  <2>1. CASE x = r
    BY <2>1, <1>9 DEF Attempt, Write, TypeOK
  <2>2. CASE x # r
    <3>1. outbox'[x] = outbox[x]
      BY <2>2, <1>9 DEF Attempt, Write, TypeOK
    <3>2. PICK b \in Batches : InHand(b, x)
      BY <3>1, <1>9
    <3> QED
      BY <2>2, <3>2, <1>9
  <2> QED
    BY <2>1, <2>2
<1>10. ASSUME NEW b \in Batches, NEW i \in todo[b], SkipInactive(b, i)
       PROVE ProcessingHasOwner'
  <2>1. i.row \in Rows
    BY DEF TypeOK
  <2> QED
    BY <2>1, <1>9, <1>10, RowUpdates DEF SkipInactive, Attempt
<1>11. ASSUME NEW b \in Batches, NEW i \in todo[b], MarkProcessing(b, i)
       PROVE ProcessingHasOwner'
  <2>1. i \in Item /\ i.row \in Rows /\ i # NoItem
    BY DEF TypeOK
  <2>2. item[b] = NoItem
    BY <1>11 DEF MarkProcessing, LoopInv
  <2>3. item' = [item EXCEPT ![b] = i] /\ UNCHANGED abandoned
    BY <1>11 DEF MarkProcessing
  <2>4. \A x \in Rows : x # i.row => outbox'[x] = outbox[x]
    BY <1>11, <2>1 DEF MarkProcessing, Write, TypeOK
  <2> QED
    BY <2>1, <2>2, <2>3, <2>4 DEF TypeOK
<1>12. ASSUME NEW b \in Batches, NEW i \in todo[b], MarkFails(b, i)
       PROVE ProcessingHasOwner'
  <2>1. i.row \in Rows
    BY DEF TypeOK
  <2>2. \E row \in Row : Attempt(i.row, row)
    BY <2>1, <1>12, RowUpdates DEF MarkFails
  <2>3. i.row \in abandoned' /\ abandoned \subseteq abandoned'
    BY <1>12 DEF MarkFails
  <2>4. item[b] = NoItem /\ item' = [item EXCEPT ![b] = NoItem]
    BY <1>12 DEF MarkFails, Return, LoopInv
  <2> QED
    BY <1>9, <2>1, <2>2, <2>3, <2>4 DEF TypeOK
<1>13. ASSUME NEW b \in Batches, RecordSent(b) \/ RecordFailure(b)
       PROVE ProcessingHasOwner'
  <2>1. item[b] \in Item /\ item[b].row \in Rows
    BY <1>13 DEF RecordSent, RecordFailure, LoopInv, Working
  <2>2. \E row \in Row : /\ Write(item[b].row, row)
                         /\ row.status # "PROCESSING"
    BY <1>13, <2>1, RowUpdates, FailedRecord DEF RecordSent, RecordFailure
  <2>3. item' = [item EXCEPT ![b] = NoItem] /\ UNCHANGED abandoned
    BY <1>13 DEF RecordSent, RecordFailure, Proceed
  <2>4. \E row \in Row : outbox'[item[b].row] = row /\ row.status # "PROCESSING"
                           /\ Attempt(item[b].row, row)
    BY <2>1, <2>2 DEF Write, Attempt, TypeOK
  <2> QED
    BY <1>9, <2>1, <2>3, <2>4 DEF TypeOK
<1>14. ASSUME NEW b \in Batches, RecordThrows(b) PROVE ProcessingHasOwner'
  <2>1. item[b] \in Item /\ item[b].row \in Rows
    BY <1>14 DEF RecordThrows, LoopInv, Working
  <2>2. \E row \in Row : Attempt(item[b].row, row) /\ row.status # "PROCESSING"
    BY <1>14, <2>1, RowUpdates, FailedRecord DEF RecordThrows
  <2>3. UNCHANGED <<item, abandoned>>
    BY <1>14 DEF RecordThrows
  <2> QED
    BY <1>9, <2>1, <2>2, <2>3
<1>15. ASSUME NEW b \in Batches, CatchThrows(b) PROVE ProcessingHasOwner'
  <2>1. item[b] \in Item /\ item[b].row \in Rows
    BY <1>15 DEF CatchThrows, LoopInv, Working
  <2>2. \E row \in Row : Attempt(item[b].row, row) /\ row.status # "PROCESSING"
    BY <1>15, <2>1, FailedRecord DEF CatchThrows
  <2>3. /\ item[b].row \in abandoned' /\ abandoned \subseteq abandoned'
        /\ item' = [item EXCEPT ![b] = NoItem]
    BY <1>15 DEF CatchThrows, Return
  <2> QED
    BY <1>9, <2>1, <2>2, <2>3 DEF TypeOK
<1>16. ASSUME NEW n \in Nodes, Crash(n) PROVE ProcessingHasOwner'
  BY <1>16 DEF Crash, TypeOK
<1>17. ASSUME NEW s \in Sinks, ToggleSink(s) PROVE UNCHANGED <<outbox, item, abandoned>>
  BY <1>17 DEF ToggleSink
<1>18. CASE UNCHANGED vars
  BY <1>18 DEF vars
<1> QED
  BY <1>2, <1>3, <1>4, <1>5, <1>6, <1>7, <1>8, <1>10, <1>11, <1>12, <1>13,
     <1>14, <1>15, <1>16, <1>17, <1>18 DEF Next, Deliver, Interrupt

LEMMA InvAlways == Spec => []Inv
<1>1. Init => Inv
  <2>1. Init => LoopInv /\ SentWasAccepted /\ ProcessingHasOwner
    BY DEF Init, LoopInv, Working, SentWasAccepted, ProcessingHasOwner
  <2> QED
    BY <2>1, TypeInit DEF Inv
<1>2. Inv /\ [Next]_vars => Inv'
  BY TypeNext, LoopNext, SentNext, OwnerNext DEF Inv
<1> QED
  BY <1>1, <1>2, PTL DEF Spec

\* The outbox keeps its types; a SENT row was accepted by its sink; and a row is
\* PROCESSING only while a live batch has it in hand, or after a crash or an
\* exception took that batch.
THEOREM OutboxSafe == Spec => [](TypeOK /\ SentWasAccepted /\ ProcessingHasOwner)
<1>1. Inv => TypeOK /\ SentWasAccepted /\ ProcessingHasOwner
  BY DEF Inv
<1> QED
  BY <1>1, InvAlways, PTL

-----------------------------------------------------------------------------
(***************************************************************************)
(* One dispatcher: what the outbox delivers.                               *)
(*                                                                         *)
(* The flag of its only node lets one batch run at a time, so a candidate  *)
(* is in the table what it was when it was read, and its attempt count is  *)
(* never below the requests made.  SoleInv says so of every row, of every  *)
(* candidate still to visit and of the one in hand.                        *)
(***************************************************************************)
SoleDispatcher ==
  /\ \A a, b \in Batches : Host[a] = Host[b]
  /\ Budget["manual"] = 0 /\ Budget["requeue"] = 0

Open(r) == outbox[r].status \in {"PENDING", "FAILED"}

OneBatch ==
  /\ budget["manual"] = 0 /\ budget["requeue"] = 0
  /\ \A b \in Batches : pc[b] # "idle" => cron[b] /\ running[Host[b]]
  /\ \A a, b \in Batches : pc[a] # "idle" /\ pc[b] # "idle" => a = b
  /\ \A b \in Batches : pc[b] = "idle" => todo[b] = {}

RowPart(r) ==
  /\ outbox[r].status = "absent" => posts[r] = 0
  /\ r[1] > published => outbox[r].status = "absent"
  /\ Open(r) => outbox[r].attempts < MaxAttempts /\ posts[r] <= outbox[r].attempts

TodoPart(b) ==
  /\ \A i \in todo[b] : Open(i.row) /\ outbox[i.row].attempts = i.attempts
  /\ \A i, j \in todo[b] : i.row = j.row => i = j
  /\ pc[b] \in Working => \A i \in todo[b] : i.row # item[b].row

HandPart(b) ==
  pc[b] \in Working =>
    /\ item[b].attempts < MaxAttempts
    /\ posts[item[b].row] <= item[b].attempts + (IF pc[b] = "post" THEN 0 ELSE 1)
    /\ pc[b] # "thrown" => outbox[item[b].row].status = "PROCESSING"
    /\ pc[b] = "thrown" => outbox[item[b].row].status \in {"PROCESSING", "SENT",
                                                           Failed(item[b]).status}

SoleInv ==
  /\ OneBatch
  /\ \A r \in Rows : RowPart(r)
  /\ \A b \in Batches : TodoPart(b) /\ HandPart(b)

LEMMA SoleBegins == SoleDispatcher /\ Init => SoleInv
<1> SUFFICES ASSUME SoleDispatcher, Init PROVE SoleInv
  OBVIOUS
<1>1. OneBatch
  BY DEF Init, SoleDispatcher, OneBatch
<1>2. \A r \in Rows : RowPart(r)
  BY DEF Init, RowPart, Open
<1>3. \A b \in Batches : TodoPart(b) /\ HandPart(b)
  BY DEF Init, TodoPart, HandPart, Working
<1> QED
  BY <1>1, <1>2, <1>3 DEF SoleInv

\* A step of one batch finds the others idle, so its own part is what remains.
LEMMA BatchStepKeeps ==
  ASSUME SoleInv, NEW b \in Batches, pc[b] # "idle",
         \A a \in Batches : a # b => pc'[a] = pc[a] /\ todo'[a] = todo[a],
         pc'[b] # "idle" => cron' = cron /\ running' = running,
         pc'[b] = "idle" => todo'[b] = {},
         budget'["manual"] = budget["manual"], budget'["requeue"] = budget["requeue"],
         \A r \in Rows : RowPart(r)', TodoPart(b)', HandPart(b)'
  PROVE  SoleInv'
<1>1. \A a \in Batches : a # b => pc'[a] = "idle" /\ todo'[a] = {}
  BY DEF SoleInv, OneBatch
<1>2. OneBatch'
  BY <1>1 DEF SoleInv, OneBatch
<1>3. \A a \in Batches : a # b => TodoPart(a)' /\ HandPart(a)'
  BY <1>1 DEF TodoPart, HandPart, Working
<1> QED
  BY <1>2, <1>3 DEF SoleInv

\* One row is written, the others and their requests stay.
LEMMA OtherRows ==
  ASSUME TypeOK, SoleInv, NEW r \in Rows, NEW row, outbox' = [outbox EXCEPT ![r] = row],
         UNCHANGED <<posts, published>>, RowPart(r)'
  PROVE  \A x \in Rows : RowPart(x)'
BY DEF TypeOK, SoleInv, RowPart, Open

\* The events published, the sinks and the clock leave the batches' rows alone.
LEMMA PublishKeepsSole ==
  ASSUME Inv, SoleInv, NEW S \in SUBSET Sinks, Publish(S)
  PROVE  SoleInv'
<1>1. /\ UNCHANGED <<running, pc, cron, todo, item, budget, posts>>
      /\ published \in Nat /\ published' = published + 1
      /\ \A r \in Rows : outbox'[r] = IF r[1] = published + 1 /\ r[2] \in S THEN Fresh ELSE outbox[r]
  BY DEF Publish, loop, Inv, TypeOK
<1>2. \A r \in Rows : r[1] = published + 1 => outbox[r].status = "absent"
  BY <1>1 DEF SoleInv, RowPart
<1>3. \A r \in Rows : RowPart(r)'
  <2> SUFFICES ASSUME NEW r \in Rows PROVE RowPart(r)'
    OBVIOUS
  <2>1. CASE r[1] = published + 1 /\ r[2] \in S
    BY <1>1, <1>2, <2>1, OutboxAssumption DEF SoleInv, RowPart, Open, Fresh
  <2>2. CASE ~(r[1] = published + 1 /\ r[2] \in S)
    BY <1>1, <2>2 DEF SoleInv, RowPart, Open
  <2> QED
    BY <2>1, <2>2
<1>4. \A r \in Rows : outbox[r].status # "absent" => outbox'[r] = outbox[r]
  BY <1>1, <1>2
<1>5. \A b \in Batches : TodoPart(b)' /\ HandPart(b)'
  <2> SUFFICES ASSUME NEW b \in Batches PROVE TodoPart(b)' /\ HandPart(b)'
    OBVIOUS
  <2>1. \A i \in todo[b] : i.row \in Rows
    BY DEF Inv, TypeOK
  <2>2. TodoPart(b)'
    BY <1>1, <1>4, <2>1 DEF SoleInv, TodoPart, Open
  <2>3. CASE pc[b] \in Working
    <3>1. item[b] \in Item /\ item[b].row \in Rows /\ Failed(item[b]).status # "absent"
      BY <2>3, FailedRecord DEF Inv, LoopInv
    <3>2. outbox'[item[b].row] = outbox[item[b].row]
      BY <1>4, <2>3, <3>1 DEF SoleInv, HandPart
    <3> QED
      BY <1>1, <2>2, <3>2 DEF SoleInv, HandPart, Failed
  <2> QED
    BY <1>1, <2>2, <2>3 DEF HandPart
<1>6. OneBatch'
  BY <1>1 DEF SoleInv, OneBatch
<1> QED
  BY <1>3, <1>5, <1>6 DEF SoleInv

LEMMA ElapseKeepsSole ==
  ASSUME Inv, SoleInv, NEW r \in Rows, Elapse(r)
  PROVE  /\ SoleInv'
         /\ \A x \in Rows : outbox'[x].status = outbox[x].status
<1>1. /\ UNCHANGED <<published, running, pc, cron, todo, item, budget, posts>>
      /\ outbox' = [outbox EXCEPT ![r] = [outbox[r] EXCEPT !.due = TRUE]]
  BY DEF Elapse, loop
<1>2. \A x \in Rows : /\ outbox'[x].status = outbox[x].status
                      /\ outbox'[x].attempts = outbox[x].attempts
  BY <1>1 DEF Inv, TypeOK
<1>3. OneBatch' /\ \A x \in Rows : RowPart(x)'
  BY <1>1, <1>2 DEF SoleInv, OneBatch, RowPart, Open
<1>4. \A b \in Batches : TodoPart(b)' /\ HandPart(b)'
  <2> SUFFICES ASSUME NEW b \in Batches PROVE TodoPart(b)' /\ HandPart(b)'
    OBVIOUS
  <2>1. \A i \in todo[b] : i.row \in Rows
    BY DEF Inv, TypeOK
  <2>2. pc[b] \in Working => item[b].row \in Rows
    BY DEF Inv, LoopInv
  <2> QED
    BY <1>1, <1>2, <2>1, <2>2 DEF SoleInv, TodoPart, HandPart, Open, Failed
<1> QED
  BY <1>2, <1>3, <1>4 DEF SoleInv

\* A cycle starts only when no batch of the node runs, and reads what is there.
LEMMA CycleKeepsSole ==
  ASSUME SoleDispatcher, Inv, SoleInv, NEW b \in Batches, StartCycle(b)
  PROVE  SoleInv'
<1>1. /\ UNCHANGED <<published, outbox, item, budget, posts>>
      /\ pc' = [pc EXCEPT ![b] = "loop"] /\ cron' = [cron EXCEPT ![b] = TRUE]
      /\ running' = [running EXCEPT ![Host[b]] = TRUE] /\ ~running[Host[b]]
  BY DEF StartCycle, Begin, store
<1>2. PICK T \in Candidates : todo' = [todo EXCEPT ![b] = Snapshot(T)]
  BY DEF StartCycle, Begin
<1>3. \A a \in Batches : pc[a] = "idle" /\ todo[a] = {} /\ item[a] = NoItem
  BY <1>1 DEF SoleDispatcher, Inv, LoopInv, SoleInv, OneBatch
<1>4. /\ pc'[b] = "loop" /\ cron'[b] = TRUE /\ running'[Host[b]] = TRUE
      /\ \A a \in Batches : a # b => pc'[a] = "idle" /\ todo'[a] = {}
      /\ todo'[b] = Snapshot(T)
  BY <1>1, <1>2, <1>3, OutboxAssumption DEF Inv, TypeOK
<1>5. OneBatch'
  BY <1>1, <1>4 DEF SoleInv, OneBatch
<1>6. \A r \in Rows : RowPart(r)'
  BY <1>1 DEF SoleInv, RowPart, Open
<1>7. T \subseteq Due
  BY DEF Candidates
<1>8. \A a \in Batches : TodoPart(a)' /\ HandPart(a)'
  BY <1>1, <1>4, <1>7 DEF TodoPart, HandPart, Working, Snapshot, Due, Open
<1> QED
  BY <1>5, <1>6, <1>8 DEF SoleInv

\* A candidate is left behind, taken in hand, or lost with its batch.
LEMMA VisitKeepsSole ==
  ASSUME Inv, SoleInv, NEW b \in Batches, NEW i \in todo[b],
         SkipInactive(b, i) \/ MarkProcessing(b, i) \/ MarkFails(b, i)
  PROVE  /\ SoleInv'
         /\ Open(i.row) /\ i.row \in Rows /\ UNCHANGED <<posts, accepted>>
         /\ \E row \in Row : /\ outbox' = [outbox EXCEPT ![i.row] = row]
                             /\ row.status \in {"PENDING", "FAILED", "PROCESSING", "DEAD_LETTER"}
<1> DEFINE r == i.row
<1>1. /\ i \in Item /\ r \in Rows /\ pc[b] = "loop" /\ item[b] = NoItem
      /\ Open(r) /\ outbox[r].attempts = i.attempts /\ outbox[r] \in Row
      /\ RowPart(r) /\ TodoPart(b)
  BY DEF Inv, TypeOK, LoopInv, SoleInv, TodoPart, SkipInactive, MarkProcessing, MarkFails
<1>2. /\ UNCHANGED <<published, posts, accepted>>
      /\ budget'["manual"] = budget["manual"] /\ budget'["requeue"] = budget["requeue"]
  BY DEF SkipInactive, MarkProcessing, MarkFails, Spend, Inv, TypeOK
<1>3. /\ Processing(r) = [outbox[r] EXCEPT !.status = "PROCESSING"]
      /\ DeadLettered(r) = [outbox[r] EXCEPT !.status = "DEAD_LETTER"]
      /\ Processing(r).attempts = i.attempts
  BY <1>1 DEF Processing, DeadLettered
<1>4. \E row \in Row : /\ outbox' = [outbox EXCEPT ![r] = row]
                       /\ row = outbox[r] \/ row.status \in {"PROCESSING", "DEAD_LETTER"}
  <2>1. /\ Processing(r) \in Row /\ Processing(r).status = "PROCESSING"
        /\ DeadLettered(r) \in Row /\ DeadLettered(r).status = "DEAD_LETTER"
    BY <1>1, RowUpdates DEF Inv
  <2>2. \/ outbox' = [outbox EXCEPT ![r] = Processing(r)]
        \/ outbox' = [outbox EXCEPT ![r] = DeadLettered(r)]
        \/ outbox' = outbox
    BY DEF SkipInactive, MarkProcessing, MarkFails, Attempt, Write
  <2>3. outbox = [outbox EXCEPT ![r] = outbox[r]]
    BY <1>1 DEF Inv, TypeOK
  <2> QED
    BY <1>1, <2>1, <2>2, <2>3
<1>5. PICK row \in Row : /\ outbox' = [outbox EXCEPT ![r] = row]
                         /\ row = outbox[r] \/ row.status \in {"PROCESSING", "DEAD_LETTER"}
  BY <1>4
<1>6. outbox'[r] = row /\ \A x \in Rows : x # r => outbox'[x] = outbox[x]
  BY <1>1, <1>5 DEF Inv, TypeOK
<1>7. RowPart(r)'
  BY <1>1, <1>2, <1>5, <1>6 DEF RowPart, Open
<1>8. \A x \in Rows : RowPart(x)'
  BY <1>1, <1>2, <1>5, <1>7, OtherRows DEF Inv
<1>9. \A j \in todo[b] : j # i => j.row \in Rows /\ j.row # r
  BY <1>1 DEF TodoPart, Inv, TypeOK
<1>10. SoleInv'
  <2>1. CASE SkipInactive(b, i)
    <3>1. /\ UNCHANGED <<running, pc, cron, item>> /\ todo' = [todo EXCEPT ![b] = @ \ {i}]
      BY <2>1 DEF SkipInactive
    <3>2. todo'[b] = todo[b] \ {i} /\ pc'[b] = "loop"
      BY <1>1, <3>1 DEF Inv, TypeOK
    <3>3. \A a \in Batches : a # b => pc'[a] = pc[a] /\ todo'[a] = todo[a]
      BY <3>1 DEF Inv, TypeOK
    <3>4. TodoPart(b)' /\ HandPart(b)'
      BY <1>1, <1>6, <1>9, <3>2 DEF TodoPart, HandPart, Working, Open
    <3> QED
      BY <1>1, <1>2, <1>8, <3>1, <3>2, <3>3, <3>4, BatchStepKeeps
  <2>2. CASE MarkProcessing(b, i)
    <3>1. /\ UNCHANGED <<running, cron>> /\ todo' = [todo EXCEPT ![b] = @ \ {i}]
          /\ item' = [item EXCEPT ![b] = i] /\ pc' = [pc EXCEPT ![b] = "post"]
          /\ outbox' = [outbox EXCEPT ![r] = Processing(r)]
      BY <2>2 DEF MarkProcessing, Write
    <3>2. /\ todo'[b] = todo[b] \ {i} /\ pc'[b] = "post" /\ item'[b] = i
          /\ outbox'[r].status = "PROCESSING"
      BY <1>1, <3>1, RowUpdates DEF Inv, TypeOK
    <3>3. \A a \in Batches : a # b => pc'[a] = pc[a] /\ todo'[a] = todo[a]
      BY <3>1 DEF Inv, TypeOK
    <3>4. TodoPart(b)'
      BY <1>1, <1>6, <1>9, <3>2 DEF TodoPart, Open
    <3>5. HandPart(b)'
      <4>1. i.attempts < MaxAttempts /\ posts[r] <= i.attempts /\ i.attempts \in Nat
        BY <1>1 DEF RowPart
      <4> QED
        BY <1>2, <3>2, <4>1 DEF HandPart
    <3> QED
      BY <1>1, <1>2, <1>8, <3>1, <3>2, <3>3, <3>4, <3>5, BatchStepKeeps
  <2>3. CASE MarkFails(b, i)
    <3>1. pc'[b] = "idle" /\ todo'[b] = {}
          /\ \A a \in Batches : a # b => pc'[a] = pc[a] /\ todo'[a] = todo[a]
      BY <2>3 DEF MarkFails, Return, Inv, TypeOK
    <3>2. TodoPart(b)' /\ HandPart(b)'
      BY <3>1 DEF TodoPart, HandPart, Working
    <3> QED
      BY <1>1, <1>2, <1>8, <3>1, <3>2, BatchStepKeeps
  <2> QED
    BY <2>1, <2>2, <2>3
<1>11. row.status \in {"PENDING", "FAILED", "PROCESSING", "DEAD_LETTER"}
  BY <1>1, <1>5 DEF Open
<1> QED
  BY <1>1, <1>2, <1>5, <1>10, <1>11

\* The request leaves with an attempt to spare.
LEMMA PostKeepsSole ==
  ASSUME Inv, SoleInv, NEW b \in Batches, Post(b)
  PROVE  /\ SoleInv'
         /\ item[b].row \in Rows /\ outbox[item[b].row].status = "PROCESSING"
         /\ posts[item[b].row] < MaxAttempts
<1> DEFINE r == item[b].row
<1>1. /\ UNCHANGED <<published, outbox, running, cron, todo, item, budget>>
      /\ pc[b] = "post" /\ posts' = [posts EXCEPT ![r] = @ + 1]
      /\ pc' = [pc EXCEPT ![b] = "accepted"] \/ pc' = [pc EXCEPT ![b] = "rejected"]
         \/ pc' = [pc EXCEPT ![b] = "thrown"]
  BY DEF Post
<1>2. /\ item[b] \in Item /\ r \in Rows /\ item[b].attempts \in Nat /\ posts[r] \in Nat
      /\ TodoPart(b) /\ HandPart(b) /\ RowPart(r) /\ MaxAttempts \in Nat
  BY <1>1, OutboxAssumption DEF Inv, TypeOK, LoopInv, Working, SoleInv
<1>3. /\ item[b].attempts < MaxAttempts /\ posts[r] <= item[b].attempts
      /\ outbox[r].status = "PROCESSING"
  BY <1>1, <1>2 DEF HandPart, Working
<1>4. /\ pc'[b] \in {"accepted", "rejected", "thrown"} /\ posts'[r] = posts[r] + 1
      /\ \A x \in Rows : x # r => posts'[x] = posts[x]
      /\ \A a \in Batches : a # b => pc'[a] = pc[a]
  BY <1>1, <1>2 DEF Inv, TypeOK
<1>5. \A x \in Rows : RowPart(x)'
  BY <1>1, <1>3, <1>4 DEF SoleInv, RowPart, Open
<1>6. TodoPart(b)'
  BY <1>1, <1>2 DEF TodoPart, Working, Open
<1>7. HandPart(b)'
  BY <1>1, <1>2, <1>3, <1>4 DEF HandPart
<1> QED
  BY <1>1, <1>2, <1>3, <1>4, <1>5, <1>6, <1>7, BatchStepKeeps

\* What a result may be written over: the mark, or an earlier try of the same record.
Resulting(b) ==
  \E row \in Row :
    /\ outbox' = [outbox EXCEPT ![item[b].row] = row]
    /\ \/ row = outbox[item[b].row]
       \/ row = Failed(item[b])
       \/ row.status = "SENT" /\ item[b].row \in accepted /\ outbox[item[b].row].status = "PROCESSING"

LEMMA ResultGiven ==
  ASSUME Inv, SoleInv, NEW b \in Batches,
         RecordSent(b) \/ RecordFailure(b) \/ RecordThrows(b) \/ CatchThrows(b)
  PROVE  /\ pc[b] \in {"accepted", "rejected", "thrown"}
         /\ item[b] \in Item /\ item[b].row \in Rows
         /\ UNCHANGED <<published, posts, accepted>> /\ Resulting(b)
         /\ budget'["manual"] = budget["manual"] /\ budget'["requeue"] = budget["requeue"]
<1> DEFINE r == item[b].row
<1>1. /\ pc[b] \in {"accepted", "rejected", "thrown"}
      /\ UNCHANGED <<published, posts, accepted>>
  BY DEF RecordSent, RecordFailure, RecordThrows, CatchThrows, Proceed
<1>2. /\ item[b] \in Item /\ r \in Rows /\ HandPart(b) /\ outbox[r] \in Row
      /\ pc[b] = "accepted" => r \in accepted
  BY <1>1 DEF Inv, TypeOK, LoopInv, Working, SoleInv
<1>3. budget'["manual"] = budget["manual"] /\ budget'["requeue"] = budget["requeue"]
  BY DEF RecordSent, RecordFailure, RecordThrows, CatchThrows, Proceed, Spend, Inv, TypeOK
<1>4. /\ Failed(item[b]) \in Row
      /\ Sent(r) \in Row /\ Sent(r).status = "SENT"
      /\ outbox = [outbox EXCEPT ![r] = outbox[r]]
  BY <1>2, FailedRecord, RowUpdates DEF Inv, TypeOK
<1>5. \/ pc[b] = "accepted" /\ outbox' = [outbox EXCEPT ![r] = Sent(r)]
      \/ outbox' = [outbox EXCEPT ![r] = Failed(item[b])]
      \/ outbox' = outbox
  BY DEF RecordSent, RecordFailure, RecordThrows, CatchThrows, Attempt, Write
<1>6. Resulting(b)
  BY <1>2, <1>4, <1>5 DEF Resulting, HandPart, Working
<1> QED
  BY <1>1, <1>2, <1>3, <1>6

LEMMA ResultKeepsSole ==
  ASSUME Inv, SoleInv, NEW b \in Batches,
         RecordSent(b) \/ RecordFailure(b) \/ RecordThrows(b) \/ CatchThrows(b)
  PROVE  SoleInv'
<1>0. PICK r \in Rows : r = item[b].row
  BY ResultGiven
<1>1. /\ pc[b] \in {"accepted", "rejected", "thrown"} /\ item[b] \in Item
      /\ UNCHANGED <<published, posts, accepted>>
      /\ budget'["manual"] = budget["manual"] /\ budget'["requeue"] = budget["requeue"]
  BY ResultGiven
<1>2. PICK row \in Row :
        /\ outbox' = [outbox EXCEPT ![r] = row]
        /\ \/ row = outbox[r]
           \/ row = Failed(item[b])
           \/ row.status = "SENT" /\ r \in accepted /\ outbox[r].status = "PROCESSING"
  BY <1>0, ResultGiven DEF Resulting
<1>3. /\ outbox'[r] = row /\ \A x \in Rows : x # r => outbox'[x] = outbox[x]
      /\ item[b].attempts \in Nat /\ posts[r] \in Nat /\ MaxAttempts \in Nat
      /\ RowPart(r) /\ TodoPart(b) /\ HandPart(b) /\ published \in Nat
  BY <1>1, <1>2, OutboxAssumption DEF Inv, TypeOK, SoleInv
<1>4. posts[r] <= item[b].attempts + 1 /\ item[b].attempts < MaxAttempts
      /\ outbox[r].status # "absent"
  BY <1>0, <1>1, <1>3, FailedRecord DEF HandPart, Working
<1>5. /\ Failed(item[b]).attempts = item[b].attempts + 1
      /\ Failed(item[b]).status \in {"FAILED", "DEAD_LETTER"}
      /\ Failed(item[b]).status = "FAILED" => item[b].attempts + 1 < MaxAttempts
  BY <1>3, FailedRecord, <1>1 DEF Failed
<1>6. RowPart(r)'
  <2>1. CASE row = outbox[r]
    BY <1>1, <1>3, <2>1 DEF RowPart, Open
  <2>2. CASE row = Failed(item[b])
    BY <1>1, <1>3, <1>4, <1>5, <2>2 DEF RowPart, Open
  <2>3. CASE row.status = "SENT"
    BY <1>1, <1>3, <1>4, <2>3 DEF RowPart, Open
  <2> QED
    BY <1>2, <2>1, <2>2, <2>3
<1>7. \A x \in Rows : RowPart(x)'
  BY <1>1, <1>2, <1>6, OtherRows DEF Inv
<1>8. \A j \in todo[b] : j.row \in Rows /\ j.row # r
  BY <1>0, <1>1, <1>3 DEF TodoPart, Working, Inv, TypeOK
<1>9. CASE RecordSent(b) \/ RecordFailure(b)
  <2>1. /\ UNCHANGED <<running, cron, todo>> /\ pc' = [pc EXCEPT ![b] = "loop"]
    BY <1>9 DEF RecordSent, RecordFailure, Proceed
  <2>2. pc'[b] = "loop" /\ \A a \in Batches : a # b => pc'[a] = pc[a]
    BY <2>1 DEF Inv, TypeOK
  <2>3. TodoPart(b)' /\ HandPart(b)'
    BY <1>3, <1>8, <2>1, <2>2 DEF TodoPart, HandPart, Working, Open
  <2> QED
    BY <1>1, <1>7, <2>1, <2>2, <2>3, BatchStepKeeps
<1>10. CASE RecordThrows(b)
  <2>1. /\ UNCHANGED <<running, cron, todo, item>> /\ pc' = [pc EXCEPT ![b] = "thrown"]
        /\ pc[b] # "thrown"
    BY <1>10 DEF RecordThrows
  <2>2. pc'[b] = "thrown" /\ \A a \in Batches : a # b => pc'[a] = pc[a]
    BY <2>1 DEF Inv, TypeOK
  <2>3. TodoPart(b)'
    BY <1>0, <1>1, <1>3, <1>8, <2>1, <2>2 DEF TodoPart, Working, Open
  <2>4. outbox[r].status = "PROCESSING"
    BY <1>0, <1>1, <1>3, <2>1 DEF HandPart, Working
  <2>5. outbox'[r].status \in {"PROCESSING", "SENT", Failed(item[b]).status}
    BY <1>2, <1>3, <2>4
  <2>6. HandPart(b)'
    BY <1>0, <1>1, <1>4, <2>1, <2>2, <2>5 DEF HandPart, Failed
  <2> QED
    BY <1>1, <1>7, <2>1, <2>2, <2>3, <2>6, BatchStepKeeps
<1>11. CASE CatchThrows(b)
  <2>1. pc'[b] = "idle" /\ todo'[b] = {}
        /\ \A a \in Batches : a # b => pc'[a] = pc[a] /\ todo'[a] = todo[a]
    BY <1>11 DEF CatchThrows, Return, Inv, TypeOK
  <2>2. TodoPart(b)' /\ HandPart(b)'
    BY <2>1 DEF TodoPart, HandPart, Working
  <2> QED
    BY <1>1, <1>7, <2>1, <2>2, BatchStepKeeps
<1> QED
  BY <1>9, <1>10, <1>11

\* A batch ends, or its process dies.
LEMMA EndKeepsSole ==
  ASSUME Inv, SoleInv,
         (\E b \in Batches : Finish(b)) \/ (\E n \in Nodes : Crash(n))
  PROVE  SoleInv'
<1>1. /\ UNCHANGED <<published, outbox, posts>>
      /\ budget'["manual"] = budget["manual"] /\ budget'["requeue"] = budget["requeue"]
  BY DEF Finish, Crash, Spend, store, Inv, TypeOK
<1>2. \A r \in Rows : RowPart(r)'
  BY <1>1 DEF SoleInv, RowPart, Open
<1>3. ASSUME NEW b \in Batches, Finish(b) PROVE SoleInv'
  <2>1. pc[b] # "idle" /\ pc'[b] = "idle" /\ todo'[b] = {}
        /\ \A a \in Batches : a # b => pc'[a] = pc[a] /\ todo'[a] = todo[a]
    BY <1>3 DEF Finish, Return, Inv, TypeOK
  <2>2. TodoPart(b)' /\ HandPart(b)'
    BY <2>1 DEF TodoPart, HandPart, Working
  <2> QED
    BY <1>1, <1>2, <2>1, <2>2, BatchStepKeeps
<1>4. ASSUME NEW n \in Nodes, Crash(n) PROVE SoleInv'
  <2>1. /\ \A b \in Batches : Host[b] = n => pc'[b] = "idle" /\ todo'[b] = {}
        /\ \A b \in Batches : Host[b] # n => /\ pc'[b] = pc[b] /\ todo'[b] = todo[b]
                                             /\ cron'[b] = cron[b] /\ item'[b] = item[b]
        /\ running' = [running EXCEPT ![n] = FALSE]
    BY <1>4 DEF Crash
  <2>2. \A b \in Batches : Host[b] # n => running'[Host[b]] = running[Host[b]]
    BY <2>1, OutboxAssumption DEF Inv, TypeOK
  <2>3. OneBatch'
    BY <1>1, <2>1, <2>2 DEF SoleInv, OneBatch
  <2>4. \A b \in Batches : TodoPart(b)' /\ HandPart(b)'
    BY <1>1, <2>1 DEF SoleInv, TodoPart, HandPart, Working, Open, Failed
  <2> QED
    BY <1>2, <2>3, <2>4 DEF SoleInv
<1> QED
  BY <1>3, <1>4

\* Without an operator's dispatches and requeues, every step of the outbox is one
\* of these.
LEMMA SoleSteps ==
  ASSUME Inv, SoleInv, [Next]_vars
  PROVE  \/ \E S \in SUBSET Sinks : Publish(S)
         \/ \E r \in Rows : Elapse(r)
         \/ \E b \in Batches : \/ StartCycle(b) \/ Finish(b) \/ Post(b)
                               \/ \E i \in todo[b] : \/ SkipInactive(b, i)
                                                     \/ MarkProcessing(b, i)
                                                     \/ MarkFails(b, i)
                               \/ RecordSent(b) \/ RecordFailure(b)
                               \/ RecordThrows(b) \/ CatchThrows(b)
         \/ \E n \in Nodes : Crash(n)
         \/ \E s \in Sinks : ToggleSink(s)
         \/ UNCHANGED vars
<1>1. budget["manual"] = 0 /\ budget["requeue"] = 0
  BY DEF SoleInv, OneBatch
<1>2. \A b \in Batches : ~DispatchNow(b)
  BY <1>1 DEF DispatchNow, Spend
<1>3. \A r \in Rows : ~Requeue(r)
  BY <1>1 DEF Requeue, Spend
<1>4. EnqueueDecisionEvaluated => \E S \in SUBSET Sinks : Publish(S)
  BY DEF EnqueueDecisionEvaluated
<1>5. \A s \in Sinks : CreateTestEvent(s) => \E S \in SUBSET Sinks : Publish(S)
  BY DEF CreateTestEvent
<1> QED
  BY <1>2, <1>3, <1>4, <1>5 DEF Next, Deliver, Interrupt

LEMMA SoleNext == SoleDispatcher /\ Inv /\ SoleInv /\ [Next]_vars => SoleInv'
<1> SUFFICES ASSUME SoleDispatcher, Inv, SoleInv, [Next]_vars PROVE SoleInv'
  OBVIOUS
<1>1. ASSUME NEW b \in Batches, StartCycle(b) \/ Post(b) PROVE SoleInv'
  BY <1>1, CycleKeepsSole, PostKeepsSole
<1>2. ASSUME NEW b \in Batches, NEW i \in todo[b],
             SkipInactive(b, i) \/ MarkProcessing(b, i) \/ MarkFails(b, i)
      PROVE  SoleInv'
  BY <1>2, VisitKeepsSole
<1>3. CASE (\E s \in Sinks : ToggleSink(s)) \/ UNCHANGED vars
  <2>1. /\ UNCHANGED <<published, outbox, running, pc, cron, todo, item, posts>>
        /\ budget'["manual"] = budget["manual"] /\ budget'["requeue"] = budget["requeue"]
    BY <1>3 DEF ToggleSink, Spend, store, loop, vars, Inv, TypeOK
  <2> QED
    BY <2>1 DEF SoleInv, OneBatch, RowPart, TodoPart, HandPart, Open, Failed
<1> QED
  BY <1>1, <1>2, <1>3, SoleSteps, PublishKeepsSole, ElapseKeepsSole, ResultKeepsSole, EndKeepsSole

-----------------------------------------------------------------------------
(***************************************************************************)
(* The refinement.  A step writes one row at most; what the row's status   *)
(* stands for changes the way EventDelivery lets it, or not at all.        *)
(***************************************************************************)
Waits(s)   == s \in {"PENDING", "FAILED", "PROCESSING"}
Delivered  == [r \in Rows |->
                 CASE outbox[r].status = "absent"      -> "none"
                   [] outbox[r].status = "SENT"        -> "confirmed"
                   [] outbox[r].status = "DEAD_LETTER" -> "dead"
                   [] OTHER                            -> "waiting"]

LEMMA StatusStands ==
  ASSUME TypeOK, NEW r \in Rows
  PROVE  /\ outbox[r].status = "absent" <=> Delivered[r] = "none"
         /\ Waits(outbox[r].status) <=> Delivered[r] = "waiting"
         /\ outbox[r].status = "SENT" <=> Delivered[r] = "confirmed"
         /\ outbox[r].status = "DEAD_LETTER" <=> Delivered[r] = "dead"
<1>1. outbox[r].status \in Statuses
  BY DEF TypeOK
<1> QED
  BY <1>1 DEF Delivered, Waits

LEMMA OneRowDelivered ==
  ASSUME TypeOK, TypeOK', NEW r \in Rows,
         \A x \in Rows : x # r => outbox'[x].status = outbox[x].status,
         UNCHANGED <<posts, accepted>>,
         \/ outbox'[r].status = outbox[r].status
         \/ Waits(outbox[r].status) /\ Waits(outbox'[r].status)
         \/ Waits(outbox[r].status) /\ outbox'[r].status = "DEAD_LETTER"
         \/ Waits(outbox[r].status) /\ outbox'[r].status = "SENT" /\ r \in accepted
         \/ /\ outbox[r].status = "SENT"
            /\ Waits(outbox'[r].status) \/ outbox'[r].status = "DEAD_LETTER"
  PROVE  [Delivery!Next]_(Delivery!vars)
<1>1. \A x \in Rows : x # r => Delivered'[x] = Delivered[x]
  BY DEF Delivered
<1>2. Delivered' = [Delivered EXCEPT ![r] = Delivered'[r]]
  <2>1. Delivered' = [x \in Rows |-> Delivered'[x]] /\ Delivered = [x \in Rows |-> Delivered[x]]
    BY DEF Delivered
  <2> QED
    BY <1>1, <2>1
<1>3. CASE Delivered'[r] = Delivered[r]
  <2>1. Delivered' = Delivered
    BY <1>2, <1>3 DEF Delivered
  <2> QED
    BY <2>1 DEF Delivery!vars, Delivered
<1>4. CASE Delivered[r] = "waiting" /\ Delivered'[r] = "dead"
  <2>1. Delivery!GiveUp(r)
    BY <1>2, <1>4 DEF Delivery!GiveUp, Delivered
  <2> QED
    BY <2>1 DEF Delivery!Next
<1>5. CASE Delivered[r] = "waiting" /\ Delivered'[r] = "confirmed" /\ r \in accepted
  <2>1. Delivery!Confirm(r)
    BY <1>2, <1>5 DEF Delivery!Confirm, Delivered
  <2> QED
    BY <2>1 DEF Delivery!Next
<1>6. CASE Delivered[r] = "confirmed" /\ Delivered'[r] \in {"waiting", "dead"}
  <2>1. Delivery!Doubt(r)
    BY <1>2, <1>6 DEF Delivery!Doubt, Delivered
  <2> QED
    BY <2>1 DEF Delivery!Next
<1>7. /\ outbox'[r].status = "absent" <=> Delivered'[r] = "none"
      /\ Waits(outbox'[r].status) <=> Delivered'[r] = "waiting"
      /\ outbox'[r].status = "SENT" <=> Delivered'[r] = "confirmed"
      /\ outbox'[r].status = "DEAD_LETTER" <=> Delivered'[r] = "dead"
  <2>1. outbox'[r].status \in Statuses
    BY DEF TypeOK
  <2> QED
    BY <2>1 DEF Delivered, Waits
<1>8. /\ outbox[r].status = "absent" <=> Delivered[r] = "none"
      /\ Waits(outbox[r].status) <=> Delivered[r] = "waiting"
      /\ outbox[r].status = "SENT" <=> Delivered[r] = "confirmed"
      /\ outbox[r].status = "DEAD_LETTER" <=> Delivered[r] = "dead"
  BY StatusStands
<1>9. outbox'[r].status = outbox[r].status => Delivered'[r] = Delivered[r]
  BY DEF Delivered
<1> QED
  BY <1>3, <1>4, <1>5, <1>6, <1>7, <1>8, <1>9

LEMMA DeliveryInit == Init => Delivery!Init
BY DEF Init, Delivery!Init

LEMMA DeliveryNext ==
  ASSUME SoleDispatcher, Inv, Inv', SoleInv, [Next]_vars
  PROVE  [Delivery!Next]_(Delivery!vars)
<1>1. CASE UNCHANGED <<outbox, posts, accepted>>
  BY <1>1 DEF Delivery!vars
<1>2. ASSUME NEW S \in SUBSET Sinks, Publish(S) PROVE [Delivery!Next]_(Delivery!vars)
  <2> DEFINE new == {r \in Rows : r[1] = published + 1 /\ r[2] \in S}
  <2>1. /\ \A r \in Rows : outbox'[r] = IF r \in new THEN Fresh ELSE outbox[r]
        /\ UNCHANGED <<posts, accepted>>
    BY <1>2 DEF Publish
  <2>2. \A r \in new : outbox[r].status = "absent"
    BY DEF SoleInv, RowPart, Inv, TypeOK
  <2>3. new \in SUBSET {r \in Rows : Delivered[r] = "none"}
    BY <2>2 DEF Delivered
  <2>4. Delivered' = [r \in Rows |-> IF r \in new THEN "waiting" ELSE Delivered[r]]
    <3> HIDE DEF new
    <3> QED
      BY <2>1 DEF Delivered, Fresh
  <2>5. Delivery!Publish
    BY <2>1, <2>3, <2>4 DEF Delivery!Publish, Delivered
  <2> QED
    BY <2>5 DEF Delivery!Next
<1>3. ASSUME NEW r \in Rows, Elapse(r) PROVE [Delivery!Next]_(Delivery!vars)
  <2>1. UNCHANGED <<posts, accepted>>
    BY <1>3 DEF Elapse
  <2> QED
    BY <1>3, <2>1, ElapseKeepsSole, OneRowDelivered DEF Inv
<1>4. ASSUME NEW b \in Batches, NEW i \in todo[b],
             SkipInactive(b, i) \/ MarkProcessing(b, i) \/ MarkFails(b, i)
      PROVE  [Delivery!Next]_(Delivery!vars)
  <2>1. /\ Open(i.row) /\ i.row \in Rows /\ UNCHANGED <<posts, accepted>>
        /\ \E row \in Row : /\ outbox' = [outbox EXCEPT ![i.row] = row]
                            /\ row.status \in {"PENDING", "FAILED", "PROCESSING", "DEAD_LETTER"}
    BY <1>4, VisitKeepsSole
  <2>2. /\ \A x \in Rows : x # i.row => outbox'[x].status = outbox[x].status
        /\ Waits(outbox'[i.row].status) \/ outbox'[i.row].status = "DEAD_LETTER"
        /\ Waits(outbox[i.row].status)
    BY <2>1 DEF Inv, TypeOK, Open, Waits
  <2> QED
    BY <2>1, <2>2, OneRowDelivered DEF Inv
<1>5. ASSUME NEW b \in Batches, Post(b) PROVE [Delivery!Next]_(Delivery!vars)
  <2>1. PICK r \in Rows : r = item[b].row
    BY <1>5, PostKeepsSole
  <2>2. outbox[r].status = "PROCESSING" /\ posts[r] < MaxAttempts
    BY <1>5, <2>1, PostKeepsSole
  <2>3. /\ posts' = [posts EXCEPT ![r] = @ + 1] /\ accepted' \in {accepted, accepted \cup {r}}
        /\ outbox' = outbox
    BY <1>5, <2>1 DEF Post
  <2>4. Delivered[r] = "waiting" /\ Delivered' = Delivered
    BY <2>2, <2>3 DEF Delivered
  <2>5. Delivery!Try(r)
    BY <2>2, <2>3, <2>4 DEF Delivery!Try, Delivered
  <2> QED
    BY <2>5 DEF Delivery!Next
<1>6. ASSUME NEW b \in Batches,
             RecordSent(b) \/ RecordFailure(b) \/ RecordThrows(b) \/ CatchThrows(b)
      PROVE  [Delivery!Next]_(Delivery!vars)
  <2>1. PICK r \in Rows : r = item[b].row
    BY <1>6, ResultGiven
  <2>2. /\ pc[b] \in Working /\ item[b] \in Item /\ UNCHANGED <<posts, accepted>>
    BY <1>6, ResultGiven DEF Working
  <2>3. PICK row \in Row :
          /\ outbox' = [outbox EXCEPT ![r] = row]
          /\ \/ row = outbox[r]
             \/ row = Failed(item[b])
             \/ row.status = "SENT" /\ r \in accepted /\ outbox[r].status = "PROCESSING"
    BY <1>6, <2>1, ResultGiven DEF Resulting
  <2>4. outbox'[r] = row /\ \A x \in Rows : x # r => outbox'[x].status = outbox[x].status
    BY <2>3 DEF Inv, TypeOK
  <2>5. outbox[r].status \in {"PROCESSING", "SENT", Failed(item[b]).status}
    BY <2>1, <2>2 DEF SoleInv, HandPart
  <2>6. Failed(item[b]).status \in {"FAILED", "DEAD_LETTER"}
    BY <2>2, FailedRecord
  <2> QED
    BY <2>2, <2>3, <2>4, <2>5, <2>6, OneRowDelivered DEF Inv, Waits
<1>7. ASSUME NEW b \in Batches, StartCycle(b) \/ Finish(b) PROVE UNCHANGED <<outbox, posts, accepted>>
  BY <1>7 DEF StartCycle, Begin, Finish, store
<1>8. ASSUME NEW n \in Nodes, Crash(n) PROVE UNCHANGED <<outbox, posts, accepted>>
  BY <1>8 DEF Crash
<1>9. ASSUME NEW s \in Sinks, ToggleSink(s) PROVE UNCHANGED <<outbox, posts, accepted>>
  BY <1>9 DEF ToggleSink, store
<1>10. UNCHANGED vars => UNCHANGED <<outbox, posts, accepted>>
  BY DEF vars, store
<1> QED
  BY <1>1, <1>2, <1>3, <1>4, <1>5, <1>6, <1>7, <1>8, <1>9, <1>10, SoleSteps

\* With one dispatcher, any number of events, sinks, failing statements and
\* crashes: the outbox implements EventDelivery.
THEOREM OutboxImplementsDelivery ==
  ASSUME SoleDispatcher
  PROVE  Spec => ImplementsDelivery
<1>1. Init => SoleInv
  BY SoleBegins
<1>2. Inv /\ SoleInv /\ [Next]_vars => SoleInv'
  BY SoleNext
<1>3. Inv /\ Inv' /\ SoleInv /\ [Next]_vars => [Delivery!Next]_(Delivery!vars)
  BY DeliveryNext
<1> QED
  BY <1>1, <1>2, <1>3, InvAlways, DeliveryInit, PTL DEF Spec, ImplementsDelivery, Delivery!Spec

-----------------------------------------------------------------------------
(***************************************************************************)
(* Two batches: how often a row is posted.                                 *)
(*                                                                         *)
(* Attempt counts go up and down, so nothing about them alone is inductive.*)
(* What decreases is what each batch can still do to the row: the attempts *)
(* it believes are left (of the candidate it holds, or of the row if it    *)
(* can still read it), whether its request is still to be sent, and whether*)
(* its failure record is the catch block's, the last it will write.        *)
(***************************************************************************)
Larger(m, n)  == IF m >= n THEN m ELSE n
Smaller(m, n) == IF m >= n THEN n ELSE m

Reaches == [left : Nat, unsent : {0, 1}, last : BOOLEAN]
Anew(n) == [left |-> n, unsent |-> 1, last |-> FALSE]
Final(n) == [left |-> n, unsent |-> 0, last |-> TRUE]

\* Twice the requests that two batches can still make. Of the deeper one, the
\* weights w (whatever it may still write) and v (its last record) give what its
\* records can reopen; the other adds what it has left.
Weight(w, v, x)     == IF x.last THEN v[x.left] ELSE w[x.left]
Ahead(w, v, x, y) ==
  Larger(Weight(w, v, x), Weight(w, v, y))
    + 2 * (Larger(1, Smaller(x.left, y.left)) - 1) + 2 * (x.unsent + y.unsent)

\* Weights that pay for what a record reopens, and for its repetition.
Steep(w, v) ==
  /\ w \in [Nat -> Nat] /\ v \in [Nat -> Nat]
  /\ \A m, n \in Nat : m <= n => w[m] <= w[n] /\ v[m] <= v[n]
  /\ \A n \in Nat : v[n] <= w[n]
  /\ \A n \in Nat : n >= 1 => w[n] + 2 * (n + 1) <= v[n + 1]
Repeats(w, v) == \A n \in Nat : n >= 1 => v[n] + 2 * (n - 1) <= w[n]

\* Without a failing statement no record is repeated.
Once       == [n \in Nat |-> IF n = 0 THEN 0 ELSE n * n + n - 2]
\* With one: a record that may be repeated, and the last one.
Repeatable == [n \in Nat |-> IF n = 0 THEN 0 ELSE 2 * (n * n) - 2]
Last       == [n \in Nat |-> 2 * (n * n) - 2 * n]

LEMMA Squares ==
  ASSUME NEW m \in Nat, NEW n \in Nat, m <= n
  PROVE  /\ m * m \in Nat /\ n * n \in Nat /\ m * m <= n * n /\ n <= n * n
         /\ n * n - n - (m * m - m) >= 0
         /\ (n + 1) * (n + 1) = n * n + 2 * n + 1
<1>1. PICK k \in Nat : n = m + k
  <2>1. n - m \in Nat /\ n = m + (n - m)
    OBVIOUS
  <2> QED
    BY <2>1
<1>2. m * m \in Nat /\ k * k \in Nat /\ m * k \in Nat
  OBVIOUS
<1>3. n * n = m * m + 2 * (m * k) + k * k
  BY <1>1
<1>4. \A i \in Nat : i <= i * i
  OBVIOUS
<1>5. (n + 1) * (n + 1) = n * n + 2 * n + 1
  OBVIOUS
<1> QED
  BY <1>1, <1>2, <1>3, <1>4, <1>5

LEMMA OnceSteep == Steep(Once, Once)
<1>1. Once \in [Nat -> Nat]
  BY Squares DEF Once
<1>2. \A m, n \in Nat : m <= n => Once[m] <= Once[n]
  BY Squares DEF Once
<1>3. ASSUME NEW n \in Nat, n >= 1 PROVE Once[n] + 2 * (n + 1) <= Once[n + 1]
  BY <1>3, Squares DEF Once
<1> QED
  BY <1>1, <1>2, <1>3 DEF Steep

LEMMA RepeatableSteep == Steep(Repeatable, Last) /\ Repeats(Repeatable, Last)
<1>1. Repeatable \in [Nat -> Nat] /\ Last \in [Nat -> Nat]
  BY Squares DEF Repeatable, Last
<1>2. \A m, n \in Nat : m <= n => Repeatable[m] <= Repeatable[n] /\ Last[m] <= Last[n]
  BY Squares DEF Repeatable, Last
<1>3. ASSUME NEW n \in Nat
      PROVE  /\ Last[n] <= Repeatable[n]
             /\ n >= 1 => Repeatable[n] + 2 * (n + 1) <= Last[n + 1]
             /\ n >= 1 => Last[n] + 2 * (n - 1) <= Repeatable[n]
  BY Squares DEF Repeatable, Last
<1> QED
  BY <1>1, <1>2, <1>3 DEF Steep, Repeats

LEMMA Weights ==
  ASSUME NEW w, NEW v, Steep(w, v), NEW k \in Nat, NEW n \in Nat
  PROVE  /\ w[n] \in Nat /\ v[n] \in Nat /\ v[n] <= w[n]
         /\ k <= n => w[k] <= w[n] /\ v[k] <= v[n]
         /\ k >= 1 /\ k + 1 <= n => w[k] + 2 * (k + 1) <= v[n]
<1>1. w[n] \in Nat /\ v[n] \in Nat /\ v[n] <= w[n] /\ w[k] \in Nat
  BY DEF Steep
<1>2. k <= n => w[k] <= w[n] /\ v[k] <= v[n]
  BY DEF Steep
<1>3. CASE k >= 1 /\ k + 1 <= n
  <2>1. k + 1 \in Nat
    OBVIOUS
  <2>2. w[k] + 2 * (k + 1) <= v[k + 1]
    BY <1>3 DEF Steep
  <2>3. v[k + 1] <= v[n] /\ v[k + 1] \in Nat
    BY <1>3, <2>1 DEF Steep
  <2> QED
    BY <1>1, <1>2, <2>2, <2>3
<1> QED
  BY <1>1, <1>2, <1>3

LEMMA AheadType ==
  ASSUME NEW w, NEW v, Steep(w, v), NEW x \in Reaches, NEW y \in Reaches
  PROVE  Ahead(w, v, x, y) \in Nat /\ Ahead(w, v, x, y) = Ahead(w, v, y, x)
<1>1. Weight(w, v, x) \in Nat /\ Weight(w, v, y) \in Nat
  BY DEF Weight, Steep, Reaches
<1>2. /\ x.left \in Nat /\ y.left \in Nat /\ x.unsent \in {0, 1} /\ y.unsent \in {0, 1}
  BY DEF Reaches
<1> QED
  BY <1>1, <1>2 DEF Ahead, Larger, Smaller

LEMMA AheadShrinks ==
  ASSUME NEW w, NEW v, Steep(w, v), NEW x \in Reaches, NEW y \in Reaches, NEW z \in Reaches,
         z.left <= x.left, z.unsent <= x.unsent, x.last => z.last
  PROVE  Ahead(w, v, z, y) + 2 * (x.unsent - z.unsent) <= Ahead(w, v, x, y)
<1>1. Weight(w, v, z) \in Nat /\ Weight(w, v, x) \in Nat /\ Weight(w, v, y) \in Nat
  BY DEF Weight, Steep, Reaches
<1>2. Weight(w, v, z) <= Weight(w, v, x)
  BY DEF Weight, Steep, Reaches
<1>3. /\ x.left \in Nat /\ y.left \in Nat /\ z.left \in Nat
      /\ x.unsent \in {0, 1} /\ y.unsent \in {0, 1} /\ z.unsent \in {0, 1}
  BY DEF Reaches
<1> QED
  BY <1>1, <1>2, <1>3 DEF Ahead, Larger, Smaller

\* The other batch, when a record leaves n attempts to the row: in hand, it keeps
\* what it has; otherwise it can read the row.
Onlooker(y, z, n) ==
  \/ z = y /\ y.left >= 1
  \/ z = Anew(Larger(y.left, n)) /\ (y.left = 0 \/ (y.unsent = 1 /\ ~y.last))

LEMMA RecordReopens ==
  ASSUME NEW w, NEW v, Steep(w, v), NEW x \in Reaches, NEW y \in Reaches, NEW z \in Reaches,
         NEW n \in Nat \ {0}, n + 1 <= x.left, Onlooker(y, z, n)
  PROVE  Ahead(w, v, Anew(n), z) <= Ahead(w, v, x, y)
<1> DEFINE wx == Weight(w, v, x)
           wy == Weight(w, v, y)
<1>1. /\ wx \in Nat /\ wy \in Nat /\ w[n] \in Nat
      /\ x.left \in Nat /\ y.left \in Nat /\ x.unsent \in {0, 1} /\ y.unsent \in {0, 1}
  BY DEF Weight, Steep, Reaches
<1>2. w[n] + 2 * (n + 1) <= wx
  <2>1. w[n] + 2 * (n + 1) <= v[x.left] /\ v[x.left] <= w[x.left]
        /\ v[x.left] \in Nat /\ w[x.left] \in Nat
    BY <1>1, Weights
  <2> QED
    BY <1>1, <2>1 DEF Weight
<1>3. y.left <= n => wy <= w[n]
  <2>1. v[y.left] <= w[y.left] /\ v[y.left] \in Nat /\ w[y.left] \in Nat
    BY <1>1, Weights
  <2>2. y.left <= n => w[y.left] <= w[n]
    BY <1>1, Weights
  <2> QED
    BY <1>1, <2>1, <2>2 DEF Weight
<1>4. y.left >= n + 1 => w[n] <= wy
  <2>1. v[y.left] \in Nat /\ w[y.left] \in Nat /\ v[y.left] <= w[y.left]
    BY <1>1, Weights
  <2>2. y.left >= n + 1 => w[n] + 2 * (n + 1) <= v[y.left]
    BY <1>1, Weights
  <2> QED
    BY <1>1, <2>1, <2>2 DEF Weight
<1>5. Weight(w, v, Anew(n)) = w[n] /\ Anew(n).left = n /\ Anew(n).unsent = 1
  BY DEF Weight, Anew
<1>6. CASE z = y /\ y.left >= 1
  <2>1. Ahead(w, v, Anew(n), z)
          = Larger(w[n], wy) + 2 * (Larger(1, Smaller(n, y.left)) - 1) + 2 * (1 + y.unsent)
    BY <1>5, <1>6 DEF Ahead
  <2>2. Ahead(w, v, x, y)
          = Larger(wx, wy) + 2 * (Larger(1, Smaller(x.left, y.left)) - 1) + 2 * (x.unsent + y.unsent)
    BY DEF Ahead
  <2> HIDE DEF wx, wy
  <2> QED
    BY <1>1, <1>2, <1>3, <1>4, <1>6, <2>1, <2>2 DEF Larger, Smaller
<1>7. CASE z = Anew(Larger(y.left, n)) /\ (y.left = 0 \/ (y.unsent = 1 /\ ~y.last))
  <2> DEFINE m == Larger(y.left, n)
  <2>1. /\ Weight(w, v, z) = w[m] /\ z.left = m /\ z.unsent = 1 /\ m \in Nat /\ w[m] \in Nat
    BY <1>1, <1>7 DEF Weight, Anew, Larger, Steep
  <2>2. Ahead(w, v, Anew(n), z)
          = Larger(w[n], w[m]) + 2 * (Larger(1, Smaller(n, m)) - 1) + 4
    BY <1>5, <2>1 DEF Ahead
  <2>3. Ahead(w, v, x, y)
          = Larger(wx, wy) + 2 * (Larger(1, Smaller(x.left, y.left)) - 1) + 2 * (x.unsent + y.unsent)
    BY DEF Ahead
  <2>4. CASE y.left <= n
    <3>1. m = n
      BY <1>1, <2>4 DEF Larger
    <3> HIDE DEF m, wx, wy
    <3> QED
      BY <1>1, <1>2, <2>2, <2>3, <3>1 DEF Larger, Smaller
  <2>5. CASE y.left >= n + 1
    <3>1. m = y.left /\ wy = w[m]
      BY <1>1, <1>7, <2>5 DEF Larger, Weight
    <3> HIDE DEF m, wx, wy
    <3> QED
      BY <1>1, <1>2, <1>4, <1>7, <2>1, <2>2, <2>3, <2>5, <3>1 DEF Larger, Smaller
  <2> QED
    BY <1>1, <2>4, <2>5
<1> QED
  BY <1>6, <1>7 DEF Onlooker

\* A record that may have been applied, and will be written again.
LEMMA RecordMayRepeat ==
  ASSUME NEW w, NEW v, Steep(w, v), Repeats(w, v), NEW x \in Reaches, ~x.last,
         NEW y \in Reaches, NEW z \in Reaches,
         NEW n \in Nat \ {0}, n + 1 <= x.left, Onlooker(y, z, n)
  PROVE  Ahead(w, v, Final(x.left), z) <= Ahead(w, v, x, y)
<1> DEFINE t == Final(x.left)
<1>1. t \in Reaches /\ t.left = x.left /\ t.unsent = 0 /\ t.last
  BY DEF Reaches, Final
<1>2. x.left \in Nat /\ y.left \in Nat /\ x.unsent \in {0, 1} /\ y.unsent \in {0, 1}
  BY DEF Reaches
<1>3. CASE z = y \/ y.left > n
  <2>1. z = y
    <3>1. CASE z = Anew(Larger(y.left, n)) /\ y.unsent = 1 /\ ~y.last /\ y.left > n
      <4>1. Larger(y.left, n) = y.left
        BY <1>2, <3>1 DEF Larger
      <4>2. y = [left |-> y.left, unsent |-> y.unsent, last |-> y.last] /\ y.last = FALSE
        BY <3>1 DEF Reaches
      <4> QED
        BY <3>1, <4>1, <4>2 DEF Anew
    <3> QED
      BY <1>2, <1>3, <3>1 DEF Onlooker
  <2>2. Ahead(w, v, t, y) \in Nat /\ Ahead(w, v, x, y) \in Nat
    BY <1>1, AheadType
  <2>3. t.left <= x.left /\ t.unsent <= x.unsent /\ (x.last => t.last)
    BY <1>1, <1>2
  <2>4. Ahead(w, v, t, y) + 2 * (x.unsent - t.unsent) <= Ahead(w, v, x, y)
    BY <1>1, <2>3, AheadShrinks
  <2> QED
    BY <1>1, <1>2, <2>1, <2>2, <2>4
<1>4. CASE y.left <= n /\ z # y
  <2>1. z = Anew(n)
    BY <1>2, <1>4 DEF Onlooker, Larger
  <2>2. /\ w[n] \in Nat /\ v[x.left] \in Nat /\ w[x.left] \in Nat
        /\ w[n] <= v[x.left]
    <3>1. w[n] + 2 * (n + 1) <= v[x.left]
          /\ w[n] \in Nat /\ v[x.left] \in Nat /\ w[x.left] \in Nat
      BY <1>2, Weights
    <3> QED
      BY <3>1
  <2>3. v[x.left] + 2 * (x.left - 1) <= w[x.left]
    BY <1>2 DEF Repeats
  <2>4. Ahead(w, v, t, z) = Larger(v[x.left], w[n]) + 2 * (Larger(1, Smaller(x.left, n)) - 1) + 2
    BY <1>1, <2>1 DEF Ahead, Weight, Anew
  <2>5. Ahead(w, v, x, y) >= w[x.left]
    <3>1. Weight(w, v, y) \in Nat /\ Weight(w, v, x) = w[x.left]
      BY <1>2 DEF Weight, Steep
    <3>2. Larger(w[x.left], Weight(w, v, y)) >= w[x.left]
      BY <2>2, <3>1 DEF Larger
    <3>3. Larger(1, Smaller(x.left, y.left)) - 1 >= 0
      BY <1>2 DEF Larger, Smaller
    <3>4. /\ Larger(w[x.left], Weight(w, v, y)) \in Nat
          /\ Larger(1, Smaller(x.left, y.left)) \in Nat
      BY <1>2, <2>2, <3>1 DEF Larger, Smaller
    <3> QED
      BY <1>2, <2>2, <3>1, <3>2, <3>3, <3>4 DEF Ahead
  <2>6. Ahead(w, v, x, y) \in Nat
    BY AheadType
  <2>7. Larger(1, Smaller(x.left, n)) - 1 = n - 1 /\ Larger(v[x.left], w[n]) = v[x.left]
    BY <1>2, <2>2 DEF Larger, Smaller
  <2>8. Ahead(w, v, t, z) = v[x.left] + 2 * n
    BY <2>2, <2>4, <2>7
  <2>9. v[x.left] + 2 * n <= w[x.left]
    BY <1>2, <2>2, <2>3
  <2> QED
    BY <2>2, <2>5, <2>6, <2>8, <2>9
<1> QED
  BY <1>2, <1>3, <1>4

\* What x says of a batch and a row: it leaves the batch no more than it has. A
\* batch that does not hold the row can do no more than read it again.
Covers(b, r, x) ==
  /\ InHand(b, r) => /\ MaxAttempts - item[b].attempts <= x.left
                     /\ pc[b] = "post" => x.unsent = 1
                     /\ pc[b] # "thrown" => ~x.last
  /\ ~InHand(b, r) => x.left = 0 \/ (x.unsent = 1 /\ ~x.last)
  /\ ~InHand(b, r) /\ Open(r) => MaxAttempts - outbox[r].attempts <= x.left
  /\ \A i \in todo[b] : i.row = r => MaxAttempts - i.attempts <= x.left

\* The requests made and twice those ahead stay below what a new row can get. `any`
\* says that failing statements count too.
Spent(any) ==
  budget["requeue"] = Budget["requeue"] /\ (any \/ budget["fault"] = Budget["fault"])
Bounded(a, b, w, v, any, r) ==
  r \notin abandoned /\ Spent(any) =>
    \E x, y \in Reaches :
      /\ Covers(a, r, x) /\ Covers(b, r, y)
      /\ 2 * posts[r] + Ahead(w, v, x, y) <= w[MaxAttempts] + 2 * MaxAttempts + 2

\* What the table and the batches never lose: nothing is read, kept or left open
\* with its attempts used up, and a batch visits a row once.
ReadRow(r) ==
  /\ r[1] > published => outbox[r].status = "absent"
  /\ Open(r) => outbox[r].attempts < MaxAttempts
  /\ outbox[r].status = "absent" =>
       posts[r] = 0 /\ \A b \in Batches : ~InHand(b, r) /\ \A i \in todo[b] : i.row # r
ReadBatch(b) ==
  /\ \A i \in todo[b] : i.attempts < MaxAttempts
  /\ \A i, j \in todo[b] : i.row = j.row => i = j
  /\ pc[b] \in Working => /\ item[b].attempts < MaxAttempts
                          /\ \A i \in todo[b] : i.row # item[b].row
ReadInv ==
  /\ \A r \in Rows : ReadRow(r)
  /\ \A b \in Batches : ReadBatch(b)
  /\ \A h \in Hazards : budget[h] <= Budget[h]

LEMMA ReadBegins == Init => ReadInv
<1> SUFFICES ASSUME Init PROVE ReadInv
  OBVIOUS
<1>1. \A r \in Rows : ReadRow(r)
  BY DEF Init, ReadRow, Open, InHand
<1>2. \A b \in Batches : ReadBatch(b)
  BY DEF Init, ReadBatch, Working
<1>3. \A h \in Hazards : budget[h] <= Budget[h]
  BY OutboxAssumption DEF Init
<1> QED
  BY <1>1, <1>2, <1>3 DEF ReadInv

\* No hazard is given back.
LEMMA BudgetKept ==
  ASSUME Inv, ReadInv, budget' = budget \/ \E h \in Hazards : Spend(h)
  PROVE  \A h \in Hazards : /\ budget'[h] <= Budget[h] /\ budget'[h] <= budget[h]
                            /\ budget'[h] \in Nat
<1>1. budget \in [Hazards -> Nat] /\ Budget \in [Hazards -> Nat]
  BY OutboxAssumption DEF Inv, TypeOK
<1>2. \A h \in Hazards : budget[h] <= Budget[h]
  BY DEF ReadInv
<1>3. \A h \in Hazards : budget'[h] <= budget[h] /\ budget'[h] \in Nat
  BY <1>1 DEF Spend
<1> QED
  BY <1>1, <1>2, <1>3

\* Rows that were published stay published, and a batch only works its candidates off.
LEMMA ReadKept ==
  ASSUME Inv, ReadInv, published' = published, \A h \in Hazards : budget'[h] <= Budget[h],
         \A r \in Rows :
           \/ outbox'[r].status = outbox[r].status /\ outbox'[r].attempts = outbox[r].attempts
              /\ posts'[r] = posts[r]
           \/ /\ outbox[r].status # "absent" /\ outbox'[r].status # "absent"
              /\ Open(r)' => outbox'[r].attempts < MaxAttempts,
         \A b \in Batches : todo'[b] \subseteq todo[b],
         \A b \in Batches :
           \/ item'[b] = item[b] /\ (pc'[b] \in Working => pc[b] \in Working)
           \/ item'[b] = NoItem /\ pc'[b] \notin Working
           \/ item'[b] \in todo[b] /\ item'[b] \notin todo'[b]
  PROVE  ReadInv'
<1>1. ASSUME NEW r \in Rows PROVE ReadRow(r)'
  <2>1. ReadRow(r)
    BY DEF ReadInv
  <2>2. outbox'[r].status = "absent" =>
          /\ outbox[r].status = "absent" /\ posts'[r] = posts[r]
          /\ \A b \in Batches : ~InHand(b, r)' /\ \A i \in todo'[b] : i.row # r
    BY <2>1 DEF ReadRow, InHand
  <2> QED
    BY <2>1, <2>2 DEF ReadRow, Open
<1>2. ASSUME NEW b \in Batches PROVE ReadBatch(b)'
  <2>1. ReadBatch(b) /\ todo'[b] \subseteq todo[b]
    BY DEF ReadInv
  <2> QED
    BY <2>1 DEF ReadBatch
<1> QED
  BY <1>1, <1>2 DEF ReadInv

LEMMA PublishReads ==
  ASSUME Inv, ReadInv, NEW S \in SUBSET Sinks, Publish(S)
  PROVE  /\ ReadInv'
         /\ \A r \in Rows : \/ outbox'[r] = outbox[r]
                            \/ outbox[r].status = "absent" /\ outbox'[r] = Fresh
<1>1. /\ UNCHANGED <<running, pc, cron, todo, item, budget, posts, abandoned>>
      /\ published \in Nat /\ published' = published + 1
      /\ \A r \in Rows : outbox'[r] = IF r[1] = published + 1 /\ r[2] \in S THEN Fresh ELSE outbox[r]
  BY DEF Publish, loop, Inv, TypeOK
<1>2. \A r \in Rows : r[1] = published + 1 => outbox[r].status = "absent"
  BY <1>1 DEF ReadInv, ReadRow
<1>3. ASSUME NEW r \in Rows PROVE ReadRow(r)'
  <2>1. ReadRow(r)
    BY DEF ReadInv
  <2>2. CASE r[1] = published + 1 /\ r[2] \in S
    BY <1>1, <2>2, OutboxAssumption DEF ReadRow, Open, Fresh
  <2>3. CASE ~(r[1] = published + 1 /\ r[2] \in S)
    BY <1>1, <2>1, <2>3 DEF ReadRow, Open, InHand
  <2> QED
    BY <2>2, <2>3
<1>4. \A b \in Batches : ReadBatch(b)'
  BY <1>1 DEF ReadInv, ReadBatch
<1> QED
  BY <1>1, <1>2, <1>3, <1>4 DEF ReadInv

\* A batch reads its candidates, each once, with the attempts the row has.
LEMMA BeginReads ==
  ASSUME Inv, ReadInv, NEW b \in Batches, StartCycle(b) \/ DispatchNow(b)
  PROVE  /\ ReadInv'
         /\ UNCHANGED <<outbox, item, posts, abandoned>>
         /\ \A c \in Batches : /\ c # b => todo'[c] = todo[c]
                               /\ item[c] # NoItem => pc'[c] = pc[c]
         /\ \A i \in todo'[b] : Open(i.row) /\ i.attempts = outbox[i.row].attempts
<1>1. /\ UNCHANGED <<published, outbox, item, posts, abandoned>> /\ pc[b] = "idle"
      /\ pc' = [pc EXCEPT ![b] = "loop"]
      /\ \A h \in Hazards : budget'[h] <= Budget[h]
  BY OutboxAssumption DEF StartCycle, DispatchNow, Begin, store, Spend, Inv, TypeOK, ReadInv
<1>2. PICK T \in Candidates : todo' = [todo EXCEPT ![b] = Snapshot(T)]
  BY DEF StartCycle, DispatchNow, Begin
<1>3. item[b] = NoItem
  BY <1>1 DEF Inv, LoopInv
<1>4. /\ todo'[b] = Snapshot(T) /\ pc'[b] = "loop"
      /\ \A c \in Batches : c # b => todo'[c] = todo[c] /\ pc'[c] = pc[c]
  BY <1>1, <1>2 DEF Inv, TypeOK
<1>5. T \subseteq Rows /\ \A r \in T : Open(r)
  BY DEF Candidates, Due, Open
<1>6. /\ \A i \in todo'[b] : i.row \in T /\ i.attempts = outbox[i.row].attempts
      /\ \A i, j \in todo'[b] : i.row = j.row => i = j
  BY <1>4 DEF Snapshot
<1>7. ASSUME NEW r \in Rows PROVE ReadRow(r)'
  <2>1. ReadRow(r)
    BY DEF ReadInv
  <2>2. outbox[r].status = "absent" => r \notin T
    BY <1>5 DEF Open
  <2>3. outbox[r].status = "absent" => \A c \in Batches : ~InHand(c, r)' /\ \A i \in todo'[c] : i.row # r
    BY <1>1, <1>4, <1>6, <2>1, <2>2 DEF ReadRow, InHand
  <2> QED
    BY <1>1, <2>1, <2>3 DEF ReadRow, Open
<1>8. ASSUME NEW c \in Batches PROVE ReadBatch(c)'
  <2>1. CASE c = b
    <3>1. \A r \in T : outbox[r].attempts < MaxAttempts
      BY <1>5 DEF ReadInv, ReadRow
    <3> QED
      BY <1>4, <1>6, <2>1, <3>1 DEF ReadBatch, Working
  <2>2. CASE c # b
    BY <1>1, <1>4, <2>2 DEF ReadInv, ReadBatch
  <2> QED
    BY <2>1, <2>2
<1>9. \A h \in Hazards : budget'[h] <= Budget[h]
  BY <1>1
<1> QED
  BY <1>1, <1>3, <1>4, <1>5, <1>6, <1>7, <1>8, <1>9 DEF ReadInv

\* The steps of a batch in its loop, and what each writes. One row at most is
\* written: its own record, or the mark.
LEMMA LoopReads ==
  ASSUME Inv, ReadInv, NEW b \in Batches, NEW i \in todo[b],
         SkipInactive(b, i) \/ MarkProcessing(b, i) \/ MarkFails(b, i)
  PROVE  ReadInv'
<1>1. /\ i \in Item /\ i.row \in Rows /\ outbox[i.row] \in Row
      /\ pc[b] = "loop" /\ item[b] = NoItem
      /\ UNCHANGED <<published, posts>>
  BY DEF SkipInactive, MarkProcessing, MarkFails, Inv, TypeOK, LoopInv
<1>2. outbox[i.row].status # "absent"
  BY <1>1 DEF ReadInv, ReadRow
<1>3. \A h \in Hazards : budget'[h] <= Budget[h]
  BY OutboxAssumption DEF SkipInactive, MarkProcessing, MarkFails, Spend, Inv, TypeOK, ReadInv
<1>4. \/ outbox' = [outbox EXCEPT ![i.row] = Processing(i.row)]
      \/ outbox' = [outbox EXCEPT ![i.row] = DeadLettered(i.row)]
      \/ outbox' = outbox
  BY DEF SkipInactive, MarkProcessing, MarkFails, Attempt, Write
<1>5. Processing(i.row).status = "PROCESSING" /\ DeadLettered(i.row).status = "DEAD_LETTER"
  BY <1>1, RowUpdates DEF Inv
<1>6. \A r \in Rows :
        \/ outbox'[r].status = outbox[r].status /\ outbox'[r].attempts = outbox[r].attempts
           /\ posts'[r] = posts[r]
        \/ /\ outbox[r].status # "absent" /\ outbox'[r].status # "absent"
           /\ Open(r)' => outbox'[r].attempts < MaxAttempts
  BY <1>1, <1>2, <1>4, <1>5 DEF Inv, TypeOK, Open
<1>7. \A c \in Batches : todo'[c] \subseteq todo[c]
  BY DEF SkipInactive, MarkProcessing, MarkFails, Return, Inv, TypeOK
<1>8. \A c \in Batches :
        \/ item'[c] = item[c] /\ (pc'[c] \in Working => pc[c] \in Working)
        \/ item'[c] = NoItem /\ pc'[c] \notin Working
        \/ item'[c] \in todo[c] /\ item'[c] \notin todo'[c]
  <2>1. CASE SkipInactive(b, i)
    BY <2>1 DEF SkipInactive
  <2>2. CASE MarkProcessing(b, i)
    BY <2>2 DEF MarkProcessing, Inv, TypeOK
  <2>3. CASE MarkFails(b, i)
    BY <2>3 DEF MarkFails, Return, Inv, TypeOK, Working
  <2> QED
    BY <2>1, <2>2, <2>3
<1> QED
  BY <1>1, <1>3, <1>6, <1>7, <1>8, ReadKept

LEMMA HandReads ==
  ASSUME Inv, ReadInv, NEW b \in Batches,
         \/ Post(b) \/ RecordSent(b) \/ RecordFailure(b) \/ RecordThrows(b) \/ CatchThrows(b)
  PROVE  ReadInv'
<1>1. pc[b] \in Working
  BY DEF Post, RecordSent, RecordFailure, RecordThrows, CatchThrows, Working
<1>2. PICK r \in Rows : r = item[b].row
  BY <1>1 DEF Inv, LoopInv
<1>3. /\ item[b] \in Item /\ item[b] # NoItem /\ published' = published
      /\ item[b].attempts \in Nat /\ MaxAttempts \in Nat
  BY <1>1, OutboxAssumption
     DEF Post, RecordSent, RecordFailure, RecordThrows, CatchThrows, Proceed, Inv, LoopInv
<1>4. outbox[r].status # "absent"
  BY <1>2, <1>3 DEF ReadInv, ReadRow, InHand
<1>5. budget' = budget \/ \E h \in Hazards : Spend(h)
  BY DEF Post, RecordSent, RecordFailure, RecordThrows, CatchThrows, Proceed, Hazards
<1>6. \/ outbox' = [outbox EXCEPT ![r] = Sent(r)]
      \/ outbox' = [outbox EXCEPT ![r] = Failed(item[b])]
      \/ outbox' = outbox
  BY <1>2 DEF Post, RecordSent, RecordFailure, RecordThrows, CatchThrows, Attempt, Write
<1>7. \A x \in Rows : x # r => posts'[x] = posts[x]
  BY <1>2 DEF Post, RecordSent, RecordFailure, RecordThrows, CatchThrows, Proceed, Inv, TypeOK
<1>8. /\ Sent(r).status = "SENT"
      /\ Failed(item[b]).status \in {"FAILED", "DEAD_LETTER"}
      /\ Failed(item[b]).status = "FAILED" => Failed(item[b]).attempts < MaxAttempts
  <2>1. Sent(r).status = "SENT"
    BY RowUpdates DEF Inv
  <2> QED
    BY <1>3, <2>1 DEF Failed
<1>9. \A x \in Rows :
        \/ outbox'[x].status = outbox[x].status /\ outbox'[x].attempts = outbox[x].attempts
           /\ posts'[x] = posts[x]
        \/ /\ outbox[x].status # "absent" /\ outbox'[x].status # "absent"
           /\ Open(x)' => outbox'[x].attempts < MaxAttempts
  <2>1. \A x \in Rows : x # r => outbox'[x] = outbox[x]
    BY <1>6 DEF Inv, TypeOK
  <2>2. outbox'[r] = outbox[r] \/ outbox'[r] = Sent(r) \/ outbox'[r] = Failed(item[b])
    BY <1>6 DEF Inv, TypeOK
  <2>3. Open(r) => outbox[r].attempts < MaxAttempts
    BY DEF ReadInv, ReadRow
  <2> QED
    BY <1>4, <1>7, <1>8, <2>1, <2>2, <2>3 DEF Open
<1>10. \A c \in Batches : todo'[c] \subseteq todo[c]
  BY DEF Post, RecordSent, RecordFailure, RecordThrows, CatchThrows, Proceed, Return, Inv, TypeOK
<1>11. \A c \in Batches :
         \/ item'[c] = item[c] /\ (pc'[c] \in Working => pc[c] \in Working)
         \/ item'[c] = NoItem /\ pc'[c] \notin Working
         \/ item'[c] \in todo[c] /\ item'[c] \notin todo'[c]
  <2>1. CASE Post(b) \/ RecordThrows(b)
    <3>1. item' = item /\ \A c \in Batches : c # b => pc'[c] = pc[c]
      BY <2>1 DEF Post, RecordThrows, Inv, TypeOK
    <3> QED
      BY <1>1, <3>1
  <2>2. CASE RecordSent(b) \/ RecordFailure(b) \/ CatchThrows(b)
    BY <2>2 DEF RecordSent, RecordFailure, CatchThrows, Proceed, Return, Inv, TypeOK, Working
  <2> QED
    BY <2>1, <2>2
<1> QED
  BY <1>3, <1>5, <1>9, <1>10, <1>11, BudgetKept, ReadKept

LEMMA OthersRead ==
  ASSUME Inv, ReadInv,
         \/ \E s \in Sinks : ToggleSink(s)
         \/ \E r \in Rows : Requeue(r) \/ Elapse(r)
         \/ \E b \in Batches : Finish(b)
         \/ \E n \in Nodes : Crash(n)
         \/ UNCHANGED vars
  PROVE  ReadInv'
<1>1. budget' = budget \/ \E h \in Hazards : Spend(h)
  BY DEF ToggleSink, Requeue, Elapse, Finish, Crash, vars, Hazards
<1>2. /\ published' = published
      /\ \A b \in Batches : todo'[b] \subseteq todo[b]
  BY DEF ToggleSink, Requeue, Elapse, Finish, Return, Crash, vars, loop, Inv, TypeOK
<1>3. \A r \in Rows :
        \/ outbox'[r].status = outbox[r].status /\ outbox'[r].attempts = outbox[r].attempts
           /\ posts'[r] = posts[r]
        \/ /\ outbox[r].status # "absent" /\ outbox'[r].status # "absent"
           /\ Open(r)' => outbox'[r].attempts < MaxAttempts
  <2>1. ASSUME NEW x \in Rows, Requeue(x)
        PROVE  \A r \in Rows :
                 \/ outbox'[r] = outbox[r] /\ posts'[r] = posts[r]
                 \/ outbox[r].status # "absent" /\ outbox'[r] = Fresh
    BY <2>1 DEF Requeue, Inv, TypeOK
  <2>2. Fresh.status = "PENDING" /\ Fresh.attempts < MaxAttempts
    BY OutboxAssumption DEF Fresh
  <2>3. ASSUME NEW x \in Rows, Elapse(x)
        PROVE  /\ posts' = posts
               /\ \A r \in Rows : /\ outbox'[r].status = outbox[r].status
                                  /\ outbox'[r].attempts = outbox[r].attempts
    BY <2>3 DEF Elapse, Inv, TypeOK
  <2>4. (\E s \in Sinks : ToggleSink(s)) \/ (\E b \in Batches : Finish(b))
           \/ (\E n \in Nodes : Crash(n)) \/ UNCHANGED vars
         => outbox' = outbox /\ posts' = posts
    BY DEF ToggleSink, Finish, Crash, vars, store
  <2> QED
    BY <2>1, <2>2, <2>3, <2>4
<1>4. \A b \in Batches :
        \/ item'[b] = item[b] /\ (pc'[b] \in Working => pc[b] \in Working)
        \/ item'[b] = NoItem /\ pc'[b] \notin Working
        \/ item'[b] \in todo[b] /\ item'[b] \notin todo'[b]
  <2>1. ASSUME NEW n \in Nodes, Crash(n)
        PROVE  \A b \in Batches : \/ item'[b] = item[b] /\ pc'[b] = pc[b]
                                  \/ item'[b] = NoItem /\ pc'[b] = "idle"
    BY <2>1 DEF Crash
  <2>2. ASSUME NEW c \in Batches, Finish(c)
        PROVE  \A b \in Batches : \/ item'[b] = item[b] /\ pc'[b] = pc[b]
                                  \/ item'[b] = NoItem /\ pc'[b] = "idle"
    BY <2>2 DEF Finish, Return, Inv, TypeOK
  <2>3. (\E s \in Sinks : ToggleSink(s)) \/ (\E r \in Rows : Requeue(r) \/ Elapse(r)) \/ UNCHANGED vars
         => item' = item /\ pc' = pc
    BY DEF ToggleSink, Requeue, Elapse, vars, loop
  <2> QED
    BY <2>1, <2>2, <2>3 DEF Working
<1> QED
  BY <1>1, <1>2, <1>3, <1>4, BudgetKept, ReadKept

LEMMA ReadNext == Inv /\ ReadInv /\ [Next]_vars => ReadInv'
<1> SUFFICES ASSUME Inv, ReadInv, [Next]_vars PROVE ReadInv'
  OBVIOUS
<1>1. EnqueueDecisionEvaluated \/ (\E s \in Sinks : CreateTestEvent(s)) => ReadInv'
  BY PublishReads DEF EnqueueDecisionEvaluated, CreateTestEvent
<1>2. ASSUME NEW b \in Batches, StartCycle(b) \/ DispatchNow(b) PROVE ReadInv'
  BY <1>2, BeginReads
<1> QED
  BY <1>1, <1>2, LoopReads, HandReads, OthersRead DEF Next, Deliver, Interrupt

-----------------------------------------------------------------------------
\* A batch and a row that a step leaves alone, or whose candidates it reads.
Left(b, r) ==
  /\ InHand(b, r)' <=> InHand(b, r)
  /\ InHand(b, r) => item'[b] = item[b] /\ pc'[b] = pc[b]
  /\ \A i \in todo'[b] :
       i.row = r => \/ i \in todo[b]
                    \/ ~InHand(b, r) /\ Open(r) /\ i.attempts = outbox[r].attempts
Closes(r) == Open(r)' => Open(r) /\ outbox'[r].attempts = outbox[r].attempts

LEMMA CoversStay ==
  ASSUME NEW b \in Batches, NEW r \in Rows, NEW x \in Reaches,
         Covers(b, r, x), Left(b, r), Closes(r)
  PROVE  Covers(b, r, x)'
<1>1. /\ InHand(b, r)' <=> InHand(b, r)
      /\ InHand(b, r) => item'[b] = item[b] /\ pc'[b] = pc[b]
  BY DEF Left
<1>2. InHand(b, r) => /\ MaxAttempts - item[b].attempts <= x.left
                      /\ pc[b] = "post" => x.unsent = 1
                      /\ pc[b] # "thrown" => ~x.last
  BY DEF Covers
<1>3. ~InHand(b, r) => x.left = 0 \/ (x.unsent = 1 /\ ~x.last)
  BY DEF Covers
<1>4. ~InHand(b, r) /\ Open(r)' => MaxAttempts - outbox'[r].attempts <= x.left
  BY DEF Covers, Closes
<1>5. \A i \in todo'[b] : i.row = r => MaxAttempts - i.attempts <= x.left
  BY DEF Covers, Left
<1> QED
  BY <1>1, <1>2, <1>3, <1>4, <1>5 DEF Covers

\* What the budget and the abandoned rows exclude stays excluded.
Excludes(any, r) ==
  r \notin abandoned' /\ Spent(any)' => r \notin abandoned /\ Spent(any)

LEMMA StayBounded ==
  ASSUME NEW a \in Batches, NEW b \in Batches, NEW w, NEW v, NEW any \in BOOLEAN, NEW r \in Rows,
         Bounded(a, b, w, v, any, r), posts'[r] = posts[r], Closes(r),
         r \notin abandoned' /\ Spent(any)' =>
           Excludes(any, r) /\ Left(a, r) /\ Left(b, r)
  PROVE  Bounded(a, b, w, v, any, r)'
<1> SUFFICES ASSUME r \notin abandoned', Spent(any)'
             PROVE  \E x, y \in Reaches :
                      /\ Covers(a, r, x)' /\ Covers(b, r, y)'
                      /\ 2 * posts'[r] + Ahead(w, v, x, y) <= w[MaxAttempts] + 2 * MaxAttempts + 2
  BY DEF Bounded
<1>1. PICK x \in Reaches, y \in Reaches :
        /\ Covers(a, r, x) /\ Covers(b, r, y)
        /\ 2 * posts[r] + Ahead(w, v, x, y) <= w[MaxAttempts] + 2 * MaxAttempts + 2
  BY DEF Bounded, Excludes
<1>2. Covers(a, r, x)' /\ Covers(b, r, y)'
  BY <1>1, CoversStay
<1> QED
  BY <1>1, <1>2

\* The acting batch leaves the row behind, or holds it on, and the other looks on:
\* they have k requests less ahead.
Pays(a, b, w, v, r, k) ==
  \A x, y \in Reaches : Covers(a, r, x) /\ Covers(b, r, y) =>
    \E p, q \in Reaches : /\ Covers(a, r, p)' /\ Covers(b, r, q)'
                          /\ Ahead(w, v, p, q) + 2 * k <= Ahead(w, v, x, y)

LEMMA StepBounded ==
  ASSUME NEW a \in Batches, NEW b \in Batches, NEW w, NEW v, NEW any \in BOOLEAN, NEW r \in Rows,
         Steep(w, v), posts \in [Rows -> Nat], MaxAttempts \in Nat,
         Bounded(a, b, w, v, any, r), Excludes(any, r),
         NEW k \in Nat, posts'[r] = posts[r] + k,
         Spent(any)' => Pays(a, b, w, v, r, k)
  PROVE  Bounded(a, b, w, v, any, r)'
<1> SUFFICES ASSUME r \notin abandoned', Spent(any)'
             PROVE  \E p, q \in Reaches :
                      /\ Covers(a, r, p)' /\ Covers(b, r, q)'
                      /\ 2 * posts'[r] + Ahead(w, v, p, q) <= w[MaxAttempts] + 2 * MaxAttempts + 2
  BY DEF Bounded
<1>1. PICK x \in Reaches, y \in Reaches :
        /\ Covers(a, r, x) /\ Covers(b, r, y)
        /\ 2 * posts[r] + Ahead(w, v, x, y) <= w[MaxAttempts] + 2 * MaxAttempts + 2
  BY DEF Bounded, Excludes
<1>2. PICK p \in Reaches, q \in Reaches :
        /\ Covers(a, r, p)' /\ Covers(b, r, q)'
        /\ Ahead(w, v, p, q) + 2 * k <= Ahead(w, v, x, y)
  BY <1>1 DEF Pays
<1>3. /\ Ahead(w, v, p, q) \in Nat /\ Ahead(w, v, x, y) \in Nat
      /\ w[MaxAttempts] \in Nat /\ posts[r] \in Nat
  BY AheadType DEF Steep
<1>4. 2 * posts'[r] + Ahead(w, v, p, q) <= w[MaxAttempts] + 2 * MaxAttempts + 2
  BY <1>1, <1>2, <1>3
<1> QED
  BY <1>2, <1>4

LEMMA ExcludesKept ==
  ASSUME Inv, ReadInv, NEW any \in BOOLEAN, NEW r \in Rows,
         budget' = budget \/ \E h \in Hazards : Spend(h),
         r \in abandoned => r \in abandoned'
  PROVE  Excludes(any, r)
<1>1. /\ budget["requeue"] \in Nat /\ Budget["requeue"] \in Nat
      /\ budget["fault"] \in Nat /\ Budget["fault"] \in Nat
  BY OutboxAssumption DEF Inv, TypeOK
<1>2. /\ budget'["requeue"] \in Nat /\ budget'["fault"] \in Nat
      /\ budget'["requeue"] <= budget["requeue"] /\ budget["requeue"] <= Budget["requeue"]
      /\ budget'["fault"] <= budget["fault"] /\ budget["fault"] <= Budget["fault"]
  BY BudgetKept DEF ReadInv
<1> QED
  BY <1>1, <1>2 DEF Excludes, Spent

\* The batch that does not act keeps the row in hand, or may read it anew.
LEMMA LooksOn ==
  ASSUME Inv, Inv', ReadInv, NEW b \in Batches, NEW r \in Rows, NEW y \in Reaches, Covers(b, r, y),
         item'[b] = item[b], pc'[b] = pc[b], todo'[b] = todo[b],
         NEW n \in Nat \ {0}, Open(r)' => MaxAttempts - outbox'[r].attempts <= n
  PROVE  \E z \in Reaches : Onlooker(y, z, n) /\ Covers(b, r, z)'
<1>1. y.left \in Nat /\ (InHand(b, r)' <=> InHand(b, r)) /\ MaxAttempts \in Nat
  BY OutboxAssumption DEF Reaches, InHand
<1>2. CASE InHand(b, r)
  <2>1. item[b].attempts < MaxAttempts /\ item[b].attempts \in Nat
    BY <1>2 DEF ReadInv, ReadBatch, InHand, Inv, TypeOK, LoopInv, Working
  <2>2. y.left >= 1
    BY <1>1, <1>2, <2>1 DEF Covers
  <2>3. Covers(b, r, y)'
    BY <1>1, <1>2 DEF Covers
  <2> QED
    BY <2>2, <2>3 DEF Onlooker
<1>3. CASE ~InHand(b, r)
  <2> DEFINE m == Larger(y.left, n)
  <2>1. m \in Nat /\ y.left <= m /\ n <= m
    BY <1>1 DEF Larger
  <2>2. Anew(m) \in Reaches /\ Anew(m).left = m /\ Anew(m).unsent = 1 /\ ~Anew(m).last
    BY <2>1 DEF Anew, Reaches
  <2>3. Onlooker(y, Anew(m), n)
    BY <1>3 DEF Onlooker, Covers
  <2>4. \A i \in todo'[b] : i.row = r => MaxAttempts - i.attempts <= m
    <3>1. \A i \in todo[b] : i.attempts \in Nat
      BY DEF Inv, TypeOK
    <3>2. \A i \in todo[b] : i.row = r => MaxAttempts - i.attempts <= y.left
      BY DEF Covers
    <3> QED
      BY <1>1, <2>1, <3>1, <3>2
  <2>5. Open(r)' => MaxAttempts - outbox'[r].attempts <= m
    <3>1. outbox'[r].attempts \in Nat
      BY DEF Inv, TypeOK
    <3> QED
      BY <1>1, <2>1, <3>1
  <2> HIDE DEF m
  <2>6. Covers(b, r, Anew(m))'
    BY <1>1, <1>3, <2>2, <2>4, <2>5 DEF Covers
  <2> QED
    BY <2>2, <2>3, <2>6
<1> QED
  BY <1>2, <1>3

\* A step of one batch leaves the others where they are.
Aside(b) == item'[b] = item[b] /\ pc'[b] = pc[b] /\ todo'[b] = todo[b]

LEMMA ActsAlone ==
  ASSUME Inv, ReadInv, NEW a \in Batches, NEW any \in BOOLEAN,
         \/ StartCycle(a) \/ DispatchNow(a) \/ Deliver(a) \/ Interrupt(a)
  PROVE  /\ \A b \in Batches : b # a => Aside(b)
         /\ \A r \in Rows : Excludes(any, r)
<1>1. CASE StartCycle(a) \/ DispatchNow(a)
  <2>1. \A b \in Batches : b # a => Aside(b)
    BY <1>1 DEF StartCycle, DispatchNow, Begin, Inv, TypeOK, Aside
  <2>2. abandoned' = abandoned /\ (budget' = budget \/ \E h \in Hazards : Spend(h))
    BY <1>1 DEF StartCycle, DispatchNow, Begin, store, Hazards
  <2> QED
    BY <2>1, <2>2, ExcludesKept
<1>2. CASE Finish(a) \/ Post(a) \/ RecordSent(a) \/ RecordFailure(a) \/ RecordThrows(a)
  <2>1. \A b \in Batches : b # a => Aside(b)
    BY <1>2 DEF Finish, Post, RecordSent, RecordFailure, RecordThrows, Return, Proceed, Inv, TypeOK, Aside
  <2>2. abandoned' = abandoned /\ (budget' = budget \/ \E h \in Hazards : Spend(h))
    BY <1>2 DEF Finish, Post, RecordSent, RecordFailure, RecordThrows, Proceed, store, Hazards
  <2> QED
    BY <2>1, <2>2, ExcludesKept
<1>3. ASSUME NEW i \in todo[a], SkipInactive(a, i) \/ MarkProcessing(a, i)
      PROVE  /\ \A b \in Batches : b # a => Aside(b)
             /\ \A r \in Rows : Excludes(any, r)
  <2>1. \A b \in Batches : b # a => Aside(b)
    BY <1>3 DEF SkipInactive, MarkProcessing, Inv, TypeOK, Aside
  <2>2. abandoned' = abandoned /\ budget' = budget
    BY <1>3 DEF SkipInactive, MarkProcessing
  <2> QED
    BY <2>1, <2>2, ExcludesKept
<1>4. ASSUME CatchThrows(a) \/ \E i \in todo[a] : MarkFails(a, i)
      PROVE  /\ \A b \in Batches : b # a => Aside(b)
             /\ \A r \in Rows : Excludes(any, r)
  <2>1. \A b \in Batches : b # a => Aside(b)
    BY <1>4 DEF CatchThrows, MarkFails, Return, Inv, TypeOK, Aside
  <2>2. abandoned \subseteq abandoned' /\ \E h \in Hazards : Spend(h)
    BY <1>4 DEF CatchThrows, MarkFails, Hazards
  <2> QED
    BY <2>1, <2>2, ExcludesKept
<1> QED
  BY <1>1, <1>2, <1>3, <1>4 DEF Deliver, Interrupt

LEMMA AsideLeft ==
  ASSUME NEW b \in Batches, NEW r \in Rows, Aside(b) PROVE Left(b, r)
BY DEF Aside, Left, InHand

\* Reading candidates, skipping one, and ending with or without an exception.
LEMMA LoopBounded ==
  ASSUME Inv, ReadInv, NEW a \in Batches, NEW b \in Batches, a # b, NEW w, NEW v,
         NEW any \in BOOLEAN, NEW r \in Rows, Bounded(a, b, w, v, any, r),
         \/ StartCycle(a) \/ DispatchNow(a) \/ Finish(a) \/ CatchThrows(a)
         \/ \E i \in todo[a] : SkipInactive(a, i) \/ MarkFails(a, i)
  PROVE  Bounded(a, b, w, v, any, r)'
<1>1. Excludes(any, r) /\ Left(b, r)
  BY ActsAlone, AsideLeft DEF Deliver, Interrupt
<1>2. CASE StartCycle(a) \/ DispatchNow(a)
  <2>1. /\ UNCHANGED <<outbox, item, posts>>
        /\ item[a] # NoItem => pc'[a] = pc[a]
        /\ \A i \in todo'[a] : Open(i.row) /\ i.attempts = outbox[i.row].attempts
    BY <1>2, BeginReads
  <2>2. item[a] = NoItem
    BY <1>2 DEF StartCycle, DispatchNow, Begin, Inv, LoopInv
  <2>3. Left(a, r) /\ Closes(r)
    BY <2>1, <2>2 DEF Left, Closes, InHand, Open
  <2> QED
    BY <1>1, <2>1, <2>3, StayBounded
<1>3. CASE Finish(a)
  <2>1. /\ item[a] = NoItem /\ item'[a] = NoItem /\ todo'[a] = {}
        /\ outbox' = outbox /\ posts' = posts
    BY <1>3 DEF Finish, Return, store, Inv, TypeOK, LoopInv
  <2>2. Left(a, r) /\ Closes(r)
    BY <2>1 DEF Left, Closes, InHand, Open
  <2> QED
    BY <1>1, <2>1, <2>2, StayBounded
<1>4. CASE CatchThrows(a)
  <2>1. /\ item[a] # NoItem /\ item'[a] = NoItem /\ todo'[a] = {} /\ posts' = posts
        /\ item[a].row \in abandoned'
        /\ r # item[a].row => outbox'[r] = outbox[r]
    BY <1>4 DEF CatchThrows, Return, Attempt, Write, Inv, TypeOK, LoopInv, Working
  <2>2. CASE r \in abandoned'
    BY <2>2 DEF Bounded
  <2>3. CASE r \notin abandoned'
    <3>1. Left(a, r) /\ Closes(r)
      BY <2>1, <2>3 DEF Left, Closes, InHand, Open
    <3> QED
      BY <1>1, <2>1, <3>1, StayBounded
  <2> QED
    BY <2>2, <2>3
<1>5. ASSUME NEW i \in todo[a], MarkFails(a, i) PROVE Bounded(a, b, w, v, any, r)'
  <2>1. /\ item[a] = NoItem /\ item'[a] = NoItem /\ todo'[a] = {} /\ posts' = posts
        /\ i.row \in abandoned'
        /\ r # i.row => outbox'[r] = outbox[r]
    BY <1>5 DEF MarkFails, Return, Attempt, Write, Inv, TypeOK, LoopInv
  <2>2. CASE r \in abandoned'
    BY <2>2 DEF Bounded
  <2>3. CASE r \notin abandoned'
    <3>1. Left(a, r) /\ Closes(r)
      BY <2>1, <2>3 DEF Left, Closes, InHand, Open
    <3> QED
      BY <1>1, <2>1, <3>1, StayBounded
  <2> QED
    BY <2>2, <2>3
<1>6. ASSUME NEW i \in todo[a], SkipInactive(a, i) PROVE Bounded(a, b, w, v, any, r)'
  <2>1. i.row \in Rows /\ DeadLettered(i.row).status = "DEAD_LETTER"
    BY RowUpdates DEF Inv, TypeOK
  <2>2. /\ item' = item /\ pc' = pc /\ todo'[a] \subseteq todo[a] /\ posts' = posts
        /\ r # i.row => outbox'[r] = outbox[r]
        /\ r = i.row => outbox'[r].status = "DEAD_LETTER"
    BY <1>6, <2>1 DEF SkipInactive, Write, Inv, TypeOK
  <2>3. Left(a, r) /\ Closes(r)
    BY <2>2 DEF Left, Closes, InHand, Open
  <2> QED
    BY <1>1, <2>2, <2>3, StayBounded
<1> QED
  BY <1>2, <1>3, <1>4, <1>5, <1>6

\* The mark takes the row in hand: the attempts read with it were among those left.
LEMMA MarkBounded ==
  ASSUME Inv, Inv', ReadInv, NEW a \in Batches, NEW b \in Batches, a # b, NEW w, NEW v, Steep(w, v),
         NEW any \in BOOLEAN, NEW r \in Rows, Bounded(a, b, w, v, any, r),
         NEW i \in todo[a], MarkProcessing(a, i)
  PROVE  Bounded(a, b, w, v, any, r)'
<1>1. Excludes(any, r) /\ Left(b, r)
  BY ActsAlone, AsideLeft DEF Deliver
<1>2. /\ i \in Item /\ i.row \in Rows /\ i.attempts < MaxAttempts /\ i.attempts \in Nat
      /\ MaxAttempts \in Nat /\ Processing(i.row).status = "PROCESSING"
      /\ pc[a] = "loop" /\ item[a] = NoItem
  BY OutboxAssumption, RowUpdates DEF Inv, TypeOK, LoopInv, ReadInv, ReadBatch, MarkProcessing
<1>3. /\ item'[a] = i /\ pc'[a] = "post" /\ todo'[a] \subseteq todo[a] /\ posts' = posts
      /\ r # i.row => outbox'[r] = outbox[r]
      /\ r = i.row => outbox'[r].status = "PROCESSING"
  BY <1>2 DEF MarkProcessing, Write, Inv, TypeOK
<1>4. Closes(r) /\ ~InHand(a, r) /\ (InHand(a, r)' <=> r = i.row)
  <2>1. i # NoItem
    BY <1>2
  <2> QED
    BY <1>2, <1>3, <2>1 DEF Closes, InHand, Open
<1>5. CASE r # i.row
  <2>1. Left(a, r)
    BY <1>3, <1>4, <1>5 DEF Left
  <2> QED
    BY <1>1, <1>3, <1>4, <2>1, StayBounded
<1>6. CASE r = i.row
  <2>1. ASSUME NEW x \in Reaches, NEW y \in Reaches, Covers(a, r, x), Covers(b, r, y)
        PROVE  Covers(a, r, x)' /\ Covers(b, r, y)'
    <3>1. x.left \in Nat /\ MaxAttempts - i.attempts <= x.left
      BY <1>6, <2>1 DEF Covers, Reaches
    <3>2. x.unsent = 1 /\ ~x.last
      BY <1>2, <1>4, <2>1, <3>1 DEF Covers
    <3>3. \A j \in todo'[a] : j.row = r => MaxAttempts - j.attempts <= x.left
      BY <1>3, <2>1 DEF Covers
    <3>4. Covers(a, r, x)'
      BY <1>3, <1>4, <1>6, <3>1, <3>2, <3>3 DEF Covers
    <3> QED
      BY <1>1, <1>4, <2>1, <3>4, CoversStay
  <2>2. posts[r] \in Nat /\ posts \in [Rows -> Nat]
    BY DEF Inv, TypeOK
  <2>3. \A x, y \in Reaches : Ahead(w, v, x, y) \in Nat
    BY AheadType
  <2>4. posts'[r] = posts[r] + 0
    BY <1>3, <2>2
  <2>5. Pays(a, b, w, v, r, 0)
    BY <2>1, <2>3 DEF Pays
  <2>6. Excludes(any, r) /\ MaxAttempts \in Nat /\ 0 \in Nat
    BY <1>1, <1>2
  <2> QED
    BY <2>2, <2>4, <2>5, <2>6, StepBounded
<1> QED
  BY <1>5, <1>6

\* The request that leaves is one of those that were ahead.
LEMMA PostBounded ==
  ASSUME Inv, ReadInv, NEW a \in Batches, NEW b \in Batches, a # b, NEW w, NEW v, Steep(w, v),
         NEW any \in BOOLEAN, NEW r \in Rows, Bounded(a, b, w, v, any, r), Post(a)
  PROVE  Bounded(a, b, w, v, any, r)'
<1>1. Excludes(any, r) /\ Left(b, r)
  BY ActsAlone, AsideLeft DEF Deliver
<1>2. /\ item[a] # NoItem /\ pc[a] = "post" /\ pc'[a] \in {"accepted", "rejected", "thrown"}
      /\ item' = item /\ todo' = todo /\ outbox' = outbox
      /\ r # item[a].row => posts'[r] = posts[r]
      /\ r = item[a].row => posts'[r] = posts[r] + 1
      /\ posts \in [Rows -> Nat] /\ MaxAttempts \in Nat
  BY OutboxAssumption DEF Post, Inv, TypeOK, LoopInv, Working
<1>3. Closes(r) /\ (InHand(a, r)' <=> InHand(a, r)) /\ (InHand(a, r) <=> r = item[a].row)
  BY <1>2 DEF Closes, InHand, Open
<1>4. CASE r # item[a].row
  <2>1. Left(a, r)
    BY <1>2, <1>3, <1>4 DEF Left
  <2> QED
    BY <1>1, <1>2, <1>3, <1>4, <2>1, StayBounded
<1>5. CASE r = item[a].row
  <2>1. ASSUME NEW x \in Reaches, NEW y \in Reaches, Covers(a, r, x), Covers(b, r, y)
        PROVE  \E p, q \in Reaches : /\ Covers(a, r, p)' /\ Covers(b, r, q)'
                                     /\ Ahead(w, v, p, q) + 2 * 1 <= Ahead(w, v, x, y)
    <3> DEFINE z == [x EXCEPT !.unsent = 0]
    <3>1. x.unsent = 1 /\ ~x.last
      BY <1>2, <1>3, <1>5, <2>1 DEF Covers
    <3>2. z \in Reaches /\ z.left = x.left /\ z.unsent = 0 /\ z.last = x.last /\ x.left \in Nat
      BY DEF Reaches
    <3> HIDE DEF z
    <3>3. Covers(a, r, z)'
      BY <1>2, <1>3, <1>5, <2>1, <3>1, <3>2 DEF Covers
    <3>4. Covers(b, r, y)'
      BY <1>1, <1>3, <2>1, CoversStay
    <3>5. z.left <= x.left /\ z.unsent <= x.unsent /\ (x.last => z.last)
          /\ x.unsent - z.unsent = 1
      BY <3>1, <3>2
    <3>6. Ahead(w, v, z, y) + 2 * (x.unsent - z.unsent) <= Ahead(w, v, x, y)
      BY <3>2, <3>5, AheadShrinks
    <3>7. Ahead(w, v, z, y) + 2 * 1 <= Ahead(w, v, x, y)
      BY <3>5, <3>6
    <3> QED
      BY <3>2, <3>3, <3>4, <3>7
  <2>2. Pays(a, b, w, v, r, 1)
    BY <2>1 DEF Pays
  <2>3. Excludes(any, r) /\ MaxAttempts \in Nat /\ posts'[r] = posts[r] + 1
        /\ posts \in [Rows -> Nat] /\ 1 \in Nat
    BY <1>1, <1>2, <1>5
  <2> QED
    BY <2>2, <2>3, StepBounded
<1> QED
  BY <1>4, <1>5

\* A batch writes the record of the row it holds and lets go of it: nothing is
\* ahead of it then, or what its record leaves.
LEMMA RecordBounded ==
  ASSUME Inv, Inv', ReadInv, NEW a \in Batches, NEW b \in Batches, a # b, NEW w, NEW v, Steep(w, v),
         NEW any \in BOOLEAN, NEW r \in Rows, Bounded(a, b, w, v, any, r),
         RecordSent(a) \/ RecordFailure(a)
  PROVE  Bounded(a, b, w, v, any, r)'
<1>1. Excludes(any, r) /\ Aside(b) /\ Left(b, r)
  BY ActsAlone, AsideLeft DEF Deliver
<1>2. /\ item[a] \in Item /\ item[a] # NoItem /\ item[a].row \in Rows /\ item[a].attempts \in Nat
      /\ pc[a] \in Working /\ item'[a] = NoItem /\ todo' = todo /\ posts' = posts
      /\ posts \in [Rows -> Nat] /\ MaxAttempts \in Nat
  BY OutboxAssumption DEF RecordSent, RecordFailure, Proceed, Inv, TypeOK, LoopInv, Working
<1>3. /\ item[a].attempts < MaxAttempts
      /\ \A i \in todo[a] : i.row # item[a].row
  BY <1>2 DEF ReadInv, ReadBatch
<1>4. r # item[a].row => outbox'[r] = outbox[r]
  BY <1>2 DEF RecordSent, RecordFailure, Write, Inv, TypeOK
<1>5. r = item[a].row =>
        \/ outbox'[r].status \in {"SENT", "DEAD_LETTER"}
        \/ outbox'[r].attempts = item[a].attempts + 1 /\ item[a].attempts + 1 < MaxAttempts
  <2>1. CASE RecordSent(a)
    BY <1>2, <2>1, RowUpdates DEF RecordSent, Write, Inv, TypeOK
  <2>2. CASE RecordFailure(a)
    BY <1>2, <2>2 DEF RecordFailure, Write, Failed, Inv, TypeOK
  <2> QED
    BY <2>1, <2>2
<1>6. ~InHand(a, r)' /\ (InHand(a, r) <=> r = item[a].row)
  BY <1>2 DEF InHand
<1>7. CASE r # item[a].row
  <2>1. Left(a, r) /\ Closes(r)
    BY <1>2, <1>4, <1>6, <1>7 DEF Left, Closes, Open
  <2> QED
    BY <1>1, <1>2, <2>1, StayBounded
<1>8. CASE r = item[a].row
  <2>1. ASSUME NEW x \in Reaches, NEW y \in Reaches, Covers(a, r, x), Covers(b, r, y)
        PROVE  \E p, q \in Reaches : /\ Covers(a, r, p)' /\ Covers(b, r, q)'
                                     /\ Ahead(w, v, p, q) + 2 * 0 <= Ahead(w, v, x, y)
    <3>1. \A p, q \in Reaches : Ahead(w, v, p, q) \in Nat
      BY AheadType
    <3>2. CASE outbox'[r].status \in {"SENT", "DEAD_LETTER"}
      <4>1. Final(0) \in Reaches /\ Final(0).left = 0 /\ Final(0).unsent = 0 /\ Final(0).last
        BY DEF Final, Reaches
      <4>2. Closes(r) /\ ~Open(r)'
        BY <3>2 DEF Closes, Open
      <4>3. Covers(a, r, Final(0))'
        BY <1>2, <1>3, <1>6, <1>8, <4>1, <4>2 DEF Covers
      <4>4. Covers(b, r, y)'
        BY <1>1, <2>1, <4>2, CoversStay
      <4>5. Final(0).left <= x.left /\ Final(0).unsent <= x.unsent /\ x.unsent - Final(0).unsent >= 0
            /\ x.unsent \in {0, 1}
        BY <4>1 DEF Reaches
      <4>6. Ahead(w, v, Final(0), y) + 2 * (x.unsent - Final(0).unsent) <= Ahead(w, v, x, y)
        BY <4>1, <4>5, AheadShrinks
      <4>7. Ahead(w, v, Final(0), y) + 2 * 0 <= Ahead(w, v, x, y)
        BY <3>1, <4>1, <4>5, <4>6
      <4> QED
        BY <4>1, <4>3, <4>4, <4>7
    <3>3. CASE /\ outbox'[r].attempts = item[a].attempts + 1
               /\ item[a].attempts + 1 < MaxAttempts
      <4>1. PICK n \in Nat \ {0} : /\ n = MaxAttempts - (item[a].attempts + 1)
                                   /\ n = MaxAttempts - outbox'[r].attempts
        BY <1>2, <3>3
      <4>2. n + 1 <= x.left
        <5>1. MaxAttempts - item[a].attempts <= x.left
          BY <1>6, <1>8, <2>1 DEF Covers
        <5> QED
          BY <1>2, <4>1, <5>1 DEF Reaches
      <4>3. PICK z \in Reaches : Onlooker(y, z, n) /\ Covers(b, r, z)'
        <5>1. Open(r)' => MaxAttempts - outbox'[r].attempts <= n
          BY <4>1
        <5> QED
          BY <1>1, <2>1, <4>1, <5>1, LooksOn DEF Aside
      <4>4. Anew(n) \in Reaches /\ Anew(n).left = n /\ Anew(n).unsent = 1 /\ ~Anew(n).last
        BY <4>1 DEF Anew, Reaches
      <4>5. Covers(a, r, Anew(n))'
        <5>1. \A i \in todo'[a] : i.row # r
          BY <1>2, <1>3, <1>8
        <5>2. MaxAttempts - outbox'[r].attempts <= Anew(n).left
          BY <4>1, <4>4
        <5> QED
          BY <1>6, <4>4, <5>1, <5>2 DEF Covers
      <4>6. Ahead(w, v, Anew(n), z) <= Ahead(w, v, x, y)
        BY <4>1, <4>2, <4>3, RecordReopens
      <4>7. Ahead(w, v, Anew(n), z) + 2 * 0 <= Ahead(w, v, x, y)
        BY <3>1, <4>3, <4>4, <4>6
      <4> QED
        BY <4>3, <4>4, <4>5, <4>7
    <3> QED
      BY <1>5, <1>8, <3>2, <3>3
  <2>2. Pays(a, b, w, v, r, 0)
    BY <2>1 DEF Pays
  <2>3. Excludes(any, r) /\ MaxAttempts \in Nat /\ posts'[r] = posts[r] + 0
        /\ posts \in [Rows -> Nat] /\ 0 \in Nat
    BY <1>1, <1>2
  <2> QED
    BY <2>2, <2>3, StepBounded
<1> QED
  BY <1>7, <1>8

\* A failing statement whose write landed is the one record that will be written
\* again, from the catch block: only where failing statements count.
LEMMA ThrowBounded ==
  ASSUME Inv, Inv', ReadInv, NEW a \in Batches, NEW b \in Batches, a # b, NEW w, NEW v, Steep(w, v),
         NEW any \in BOOLEAN, any => Repeats(w, v), NEW r \in Rows, Bounded(a, b, w, v, any, r),
         RecordThrows(a)
  PROVE  Bounded(a, b, w, v, any, r)'
<1>1. Excludes(any, r) /\ Aside(b) /\ Left(b, r)
  BY ActsAlone, AsideLeft DEF Interrupt
<1>2. /\ item[a] \in Item /\ item[a] # NoItem /\ item[a].row \in Rows /\ item[a].attempts \in Nat
      /\ pc[a] \in {"accepted", "rejected"} /\ pc'[a] = "thrown"
      /\ item' = item /\ todo' = todo /\ posts' = posts
      /\ posts \in [Rows -> Nat] /\ MaxAttempts \in Nat
  BY OutboxAssumption DEF RecordThrows, Inv, TypeOK, LoopInv, Working
<1>3. item[a].attempts < MaxAttempts
  BY <1>2 DEF ReadInv, ReadBatch, Working
<1>4. r # item[a].row => outbox'[r] = outbox[r]
  BY <1>2 DEF RecordThrows, Attempt, Write, Inv, TypeOK
<1>5. r = item[a].row =>
        \/ outbox'[r] = outbox[r]
        \/ outbox'[r].status \in {"SENT", "DEAD_LETTER"}
        \/ /\ outbox'[r].attempts = item[a].attempts + 1 /\ item[a].attempts + 1 < MaxAttempts
           /\ pc[a] = "rejected"
  <2>1. CASE pc[a] = "accepted"
    BY <1>2, <2>1, RowUpdates DEF RecordThrows, Attempt, Write, Inv, TypeOK
  <2>2. CASE pc[a] = "rejected"
    BY <1>2, <2>2 DEF RecordThrows, Attempt, Write, Failed, Inv, TypeOK
  <2> QED
    BY <1>2, <2>1, <2>2
<1>6. (InHand(a, r)' <=> InHand(a, r)) /\ (InHand(a, r) <=> r = item[a].row)
  BY <1>2 DEF InHand
<1>7. CASE r # item[a].row
  <2>1. Left(a, r) /\ Closes(r)
    BY <1>2, <1>4, <1>6, <1>7 DEF Left, Closes, Open
  <2> QED
    BY <1>1, <1>2, <2>1, StayBounded
<1>8. CASE r = item[a].row
  <2>1. ASSUME Spent(any)' PROVE Repeats(w, v)
    <3>1. Spend("fault") /\ budget \in [Hazards -> Nat] /\ Budget["fault"] \in Nat
          /\ budget["fault"] <= Budget["fault"]
      BY OutboxAssumption DEF RecordThrows, Inv, TypeOK, ReadInv
    <3>2. budget'["fault"] # Budget["fault"]
      BY <3>1 DEF Spend
    <3> QED
      BY <2>1, <3>2 DEF Spent
  <2>2. ASSUME Spent(any)', NEW x \in Reaches, NEW y \in Reaches, Covers(a, r, x), Covers(b, r, y)
        PROVE  \E p, q \in Reaches : /\ Covers(a, r, p)' /\ Covers(b, r, q)'
                                     /\ Ahead(w, v, p, q) + 2 * 0 <= Ahead(w, v, x, y)
    <3>1. \A p, q \in Reaches : Ahead(w, v, p, q) \in Nat
      BY AheadType
    <3>2. ASSUME NEW p \in Reaches, p.left = x.left PROVE Covers(a, r, p)'
      BY <1>2, <1>6, <1>8, <2>2, <3>2 DEF Covers
    <3>3. CASE outbox'[r] = outbox[r] \/ outbox'[r].status \in {"SENT", "DEAD_LETTER"}
      <4>1. Closes(r)
        BY <3>3 DEF Closes, Open
      <4>2. Covers(b, r, y)'
        BY <1>1, <2>2, <4>1, CoversStay
      <4>3. Ahead(w, v, x, y) + 2 * 0 <= Ahead(w, v, x, y)
        BY <3>1
      <4> QED
        BY <3>2, <4>2, <4>3
    <3>4. CASE /\ outbox'[r].attempts = item[a].attempts + 1
               /\ item[a].attempts + 1 < MaxAttempts /\ pc[a] = "rejected"
      <4>1. PICK n \in Nat \ {0} : /\ n = MaxAttempts - (item[a].attempts + 1)
                                   /\ n = MaxAttempts - outbox'[r].attempts
        BY <1>2, <3>4
      <4>2. n + 1 <= x.left /\ x.left \in Nat
        <5>1. MaxAttempts - item[a].attempts <= x.left
          BY <1>6, <1>8, <2>2 DEF Covers
        <5> QED
          BY <1>2, <4>1, <5>1 DEF Reaches
      <4>3. PICK z \in Reaches : Onlooker(y, z, n) /\ Covers(b, r, z)'
        <5>1. Open(r)' => MaxAttempts - outbox'[r].attempts <= n
          BY <4>1
        <5> QED
          BY <1>1, <2>2, <4>1, <5>1, LooksOn DEF Aside
      <4>4. Final(x.left) \in Reaches /\ Final(x.left).left = x.left
        BY <4>2 DEF Final, Reaches
      <4>5. ~x.last
        BY <1>6, <1>8, <2>2, <3>4 DEF Covers
      <4>6. Ahead(w, v, Final(x.left), z) <= Ahead(w, v, x, y)
        BY <2>1, <2>2, <4>1, <4>2, <4>3, <4>5, RecordMayRepeat
      <4>7. Ahead(w, v, Final(x.left), z) + 2 * 0 <= Ahead(w, v, x, y)
        BY <3>1, <4>3, <4>4, <4>6
      <4> QED
        BY <3>2, <4>3, <4>4, <4>7
    <3> QED
      BY <1>5, <1>8, <3>3, <3>4
  <2>3. Spent(any)' => Pays(a, b, w, v, r, 0)
    BY <2>2 DEF Pays
  <2>4. Excludes(any, r) /\ MaxAttempts \in Nat /\ posts'[r] = posts[r] + 0
        /\ posts \in [Rows -> Nat] /\ 0 \in Nat
    BY <1>1, <1>2
  <2> QED
    BY <2>3, <2>4, StepBounded
<1> QED
  BY <1>7, <1>8

\* A row that appears is all ahead of both batches.
LEMMA PublishBounded ==
  ASSUME Inv, Inv', ReadInv, NEW a \in Batches, NEW b \in Batches, NEW w, NEW v, Steep(w, v),
         NEW any \in BOOLEAN, NEW r \in Rows, Bounded(a, b, w, v, any, r),
         NEW S \in SUBSET Sinks, Publish(S)
  PROVE  Bounded(a, b, w, v, any, r)'
<1>1. /\ UNCHANGED <<pc, todo, item, budget, posts, abandoned>>
      /\ MaxAttempts \in Nat \ {0}
  BY OutboxAssumption DEF Publish, loop
<1>2. CASE outbox'[r] = outbox[r]
  <2>1. Left(a, r) /\ Left(b, r) /\ Closes(r) /\ Excludes(any, r)
    BY <1>1, <1>2 DEF Left, Closes, Excludes, Spent, InHand, Open
  <2> QED
    BY <1>1, <2>1, StayBounded
<1>3. CASE outbox[r].status = "absent" /\ outbox'[r] = Fresh
  <2>1. posts'[r] = 0 /\ \A c \in Batches : ~InHand(c, r)' /\ \A i \in todo'[c] : i.row # r
    BY <1>1, <1>3 DEF ReadInv, ReadRow, InHand
  <2> DEFINE x == Anew(MaxAttempts)
  <2>2. x \in Reaches /\ x.left = MaxAttempts /\ x.unsent = 1 /\ ~x.last
    BY <1>1 DEF Anew, Reaches
  <2>3. Ahead(w, v, x, x) = w[MaxAttempts] + 2 * MaxAttempts + 2
    <3>1. w[MaxAttempts] \in Nat
      BY <1>1 DEF Steep
    <3>2. Weight(w, v, x) = w[MaxAttempts]
      BY <2>2 DEF Weight
    <3> HIDE DEF x
    <3> QED
      BY <1>1, <2>2, <3>1, <3>2 DEF Ahead, Larger, Smaller
  <2>4. MaxAttempts - outbox'[r].attempts <= MaxAttempts
    BY <1>1, <1>3 DEF Fresh
  <2> HIDE DEF x
  <2>5. \A c \in Batches : Covers(c, r, x)'
    BY <1>1, <2>1, <2>2, <2>4 DEF Covers, x, Anew
  <2>6. 2 * posts'[r] + Ahead(w, v, x, x) <= w[MaxAttempts] + 2 * MaxAttempts + 2
    <3>1. w[MaxAttempts] \in Nat
      BY <1>1 DEF Steep
    <3> QED
      BY <1>1, <2>1, <2>3, <3>1
  <2> QED
    BY <2>2, <2>5, <2>6 DEF Bounded, x
<1> QED
  BY <1>2, <1>3, PublishReads

\* Everything that is no batch's step. A requeue ends the claim for every row.
LEMMA OthersBounded ==
  ASSUME Inv, ReadInv, NEW a \in Batches, NEW b \in Batches, NEW w, NEW v,
         NEW any \in BOOLEAN, NEW r \in Rows, Bounded(a, b, w, v, any, r),
         \/ \E s \in Sinks : ToggleSink(s)
         \/ \E x \in Rows : Requeue(x) \/ Elapse(x)
         \/ \E n \in Nodes : Crash(n)
         \/ UNCHANGED vars
  PROVE  Bounded(a, b, w, v, any, r)'
<1>1. ASSUME NEW x \in Rows, Requeue(x) PROVE Bounded(a, b, w, v, any, r)'
  <2>1. /\ Spend("requeue") /\ budget \in [Hazards -> Nat]
        /\ Budget["requeue"] \in Nat /\ budget["requeue"] <= Budget["requeue"]
    BY <1>1, OutboxAssumption DEF Requeue, Inv, TypeOK, ReadInv
  <2>2. budget'["requeue"] # Budget["requeue"]
    BY <2>1 DEF Spend
  <2> QED
    BY <2>2 DEF Bounded, Spent
<1>2. ASSUME NEW n \in Nodes, Crash(n) PROVE Bounded(a, b, w, v, any, r)'
  <2>1. /\ outbox' = outbox /\ posts' = posts /\ abandoned \subseteq abandoned' /\ Spend("crash")
        /\ \A c \in Batches : /\ item'[c] = item[c] /\ pc'[c] = pc[c] /\ todo'[c] = todo[c]
                              \/ /\ item'[c] = NoItem /\ todo'[c] = {}
                                 /\ item[c] # NoItem => item[c].row \in abandoned'
    BY <1>2 DEF Crash
  <2>2. Excludes(any, r) /\ Closes(r)
    BY <2>1, ExcludesKept DEF Closes, Open
  <2>3. r \notin abandoned' => \A c \in Batches : Left(c, r)
    BY <2>1 DEF Left, InHand
  <2> QED
    BY <2>1, <2>2, <2>3, StayBounded
<1>3. CASE (\E s \in Sinks : ToggleSink(s)) \/ (\E x \in Rows : Elapse(x)) \/ UNCHANGED vars
  <2>1. /\ UNCHANGED <<pc, todo, item, posts, abandoned>>
        /\ budget' = budget \/ \E h \in Hazards : Spend(h)
    BY <1>3 DEF ToggleSink, Elapse, vars, store, loop, Hazards
  <2>2. outbox'[r].status = outbox[r].status /\ outbox'[r].attempts = outbox[r].attempts
    BY <1>3 DEF ToggleSink, Elapse, vars, store, Inv, TypeOK
  <2>3. Excludes(any, r) /\ Closes(r) /\ Left(a, r) /\ Left(b, r)
    BY <2>1, <2>2, ExcludesKept DEF Closes, Open, Left, InHand
  <2> QED
    BY <2>1, <2>3, StayBounded
<1> QED
  BY <1>1, <1>2, <1>3

\* Two batches: of any three, two are the same.
LEMMA TwoBatches ==
  ASSUME Cardinality(Batches) = 2
  PROVE  /\ \E a, b \in Batches : a # b
         /\ \A a, b, c \in Batches : a # b => c = a \/ c = b
<1>1. PICK a : a \in Batches
  BY FS_EmptySet
<1>2. IsFiniteSet(Batches \ {a}) /\ Cardinality(Batches \ {a}) = 1
  BY <1>1, BatchesFinite, FS_RemoveElement
<1>3. PICK b : Batches \ {a} = {b}
  BY <1>2, FS_Singleton
<1> QED
  BY <1>1, <1>3

PairBounded(w, v, any) ==
  \A a, b \in Batches : a # b => \A r \in Rows : Bounded(a, b, w, v, any, r)

LEMMA PairBegins ==
  ASSUME Init, NEW w, NEW v, Steep(w, v), NEW any \in BOOLEAN
  PROVE  PairBounded(w, v, any)
<1> DEFINE x == Final(0)
<1>1. x \in Reaches /\ x.left = 0 /\ x.unsent = 0 /\ x.last
  BY DEF Final, Reaches
<1>2. MaxAttempts \in Nat
  BY OutboxAssumption
<1>3. /\ w[MaxAttempts] \in Nat /\ v[0] \in Nat /\ v[0] <= w[0] /\ w[0] <= w[MaxAttempts] /\ w[0] \in Nat
  BY <1>2 DEF Steep
<1>4. Ahead(w, v, x, x) = v[0]
  <2>1. Weight(w, v, x) = v[0]
    BY <1>1 DEF Weight
  <2> HIDE DEF x
  <2> QED
    BY <1>1, <1>3, <2>1 DEF Ahead, Larger, Smaller
<1>5. ASSUME NEW b \in Batches, NEW r \in Rows PROVE Covers(b, r, x)
  <2>1. ~InHand(b, r) /\ ~Open(r) /\ todo[b] = {}
    BY DEF Init, InHand, Open
  <2> QED
    BY <1>1, <2>1 DEF Covers
<1>6. \A r \in Rows : 2 * posts[r] + Ahead(w, v, x, x) <= w[MaxAttempts] + 2 * MaxAttempts + 2
  BY <1>2, <1>3, <1>4 DEF Init
<1> QED
  BY <1>1, <1>5, <1>6 DEF PairBounded, Bounded

LEMMA PairKept ==
  ASSUME Cardinality(Batches) = 2, Inv, Inv', ReadInv, [Next]_vars,
         NEW w, NEW v, Steep(w, v), NEW any \in BOOLEAN, any => Repeats(w, v),
         PairBounded(w, v, any)
  PROVE  PairBounded(w, v, any)'
<1> SUFFICES ASSUME NEW a \in Batches, NEW b \in Batches, a # b, NEW r \in Rows
             PROVE  Bounded(a, b, w, v, any, r)'
  BY DEF PairBounded
<1>1. Bounded(a, b, w, v, any, r) /\ Bounded(b, a, w, v, any, r)
  BY DEF PairBounded
<1>2. ASSUME NEW c \in Batches, NEW d \in Batches, c # d, Bounded(c, d, w, v, any, r),
             StartCycle(c) \/ DispatchNow(c) \/ Deliver(c) \/ Interrupt(c)
      PROVE  Bounded(c, d, w, v, any, r)'
  <2>1. CASE \/ StartCycle(c) \/ DispatchNow(c) \/ Finish(c) \/ CatchThrows(c)
             \/ \E i \in todo[c] : SkipInactive(c, i) \/ MarkFails(c, i)
    BY <1>2, <2>1, LoopBounded
  <2>2. CASE \E i \in todo[c] : MarkProcessing(c, i)
    BY <1>2, <2>2, MarkBounded
  <2>3. CASE Post(c)
    BY <1>2, <2>3, PostBounded
  <2>4. CASE RecordSent(c) \/ RecordFailure(c)
    BY <1>2, <2>4, RecordBounded
  <2>5. CASE RecordThrows(c)
    BY <1>2, <2>5, ThrowBounded
  <2> QED
    BY <1>2, <2>1, <2>2, <2>3, <2>4, <2>5 DEF Deliver, Interrupt
<1>3. ASSUME NEW c \in Batches, StartCycle(c) \/ DispatchNow(c) \/ Deliver(c) \/ Interrupt(c)
      PROVE  Bounded(a, b, w, v, any, r)'
  <2>1. CASE c = a
    BY <1>1, <1>2, <1>3, <2>1
  <2>2. CASE c = b
    <3>1. Bounded(b, a, w, v, any, r)'
      BY <1>1, <1>2, <1>3, <2>2
    <3>2. Bounded(b, a, w, v, any, r)' <=> Bounded(a, b, w, v, any, r)'
      <4>1. \A x, y \in Reaches : Ahead(w, v, x, y) = Ahead(w, v, y, x)
        BY AheadType
      <4> QED
        BY <4>1 DEF Bounded
    <3> QED
      BY <3>1, <3>2
  <2> QED
    BY <2>1, <2>2, TwoBatches
<1>4. ASSUME NEW S \in SUBSET Sinks, Publish(S) PROVE Bounded(a, b, w, v, any, r)'
  BY <1>1, <1>4, PublishBounded
<1>5. EnqueueDecisionEvaluated \/ (\E s \in Sinks : CreateTestEvent(s)) => Bounded(a, b, w, v, any, r)'
  BY <1>4 DEF EnqueueDecisionEvaluated, CreateTestEvent
<1> QED
  BY <1>1, <1>3, <1>5, OthersBounded DEF Next

\* What is ahead never falls below zero, so the requests made stay below the bound.
LEMMA BoundHolds ==
  ASSUME Cardinality(Batches) = 2, Inv,
         PairBounded(Once, Once, FALSE), PairBounded(Repeatable, Last, TRUE)
  PROVE  TwoBatchPostBound
<1> SUFFICES ASSUME NEW r \in Rows, r \notin abandoned, budget["requeue"] = Budget["requeue"]
             PROVE  /\ posts[r] <= MaxAttempts * (MaxAttempts + 1)
                    /\ budget["fault"] = Budget["fault"] =>
                         posts[r] <= (MaxAttempts * (MaxAttempts + 3)) \div 2
  BY DEF TwoBatchPostBound
<1>1. PICK a \in Batches, b \in Batches : a # b
  BY TwoBatches
<1>2. /\ posts[r] \in Nat /\ MaxAttempts \in Nat \ {0}
      /\ MaxAttempts * MaxAttempts \in Nat
  BY OutboxAssumption DEF Inv, TypeOK
<1>3. ASSUME NEW w, NEW v, Steep(w, v), NEW any \in BOOLEAN, Spent(any), PairBounded(w, v, any)
      PROVE  2 * posts[r] <= w[MaxAttempts] + 2 * MaxAttempts + 2
  <2>1. PICK x \in Reaches, y \in Reaches :
          2 * posts[r] + Ahead(w, v, x, y) <= w[MaxAttempts] + 2 * MaxAttempts + 2
    BY <1>1, <1>3 DEF PairBounded, Bounded
  <2>2. Ahead(w, v, x, y) \in Nat /\ w[MaxAttempts] \in Nat
    BY <1>2, <1>3, AheadType DEF Steep
  <2> QED
    BY <1>2, <2>1, <2>2
<1>4. posts[r] <= MaxAttempts * (MaxAttempts + 1)
  <2>1. 2 * posts[r] <= Repeatable[MaxAttempts] + 2 * MaxAttempts + 2
    BY <1>3, RepeatableSteep DEF Spent
  <2>2. Repeatable[MaxAttempts] = 2 * (MaxAttempts * MaxAttempts) - 2
    BY <1>2 DEF Repeatable
  <2>3. MaxAttempts * (MaxAttempts + 1) = MaxAttempts * MaxAttempts + MaxAttempts
    BY <1>2
  <2> QED
    BY <1>2, <2>1, <2>2, <2>3
<1>5. ASSUME budget["fault"] = Budget["fault"]
      PROVE  posts[r] <= (MaxAttempts * (MaxAttempts + 3)) \div 2
  <2>1. 2 * posts[r] <= Once[MaxAttempts] + 2 * MaxAttempts + 2
    BY <1>3, <1>5, OnceSteep DEF Spent
  <2>2. Once[MaxAttempts] = MaxAttempts * MaxAttempts + MaxAttempts - 2
    BY <1>2 DEF Once
  <2>3. MaxAttempts * (MaxAttempts + 3) = MaxAttempts * MaxAttempts + 3 * MaxAttempts
    BY <1>2
  <2>4. 2 * posts[r] <= MaxAttempts * (MaxAttempts + 3)
    BY <1>2, <2>1, <2>2, <2>3
  <2>5. \A n \in Nat : 2 * posts[r] <= n => posts[r] <= n \div 2
    BY <1>2
  <2>6. MaxAttempts * (MaxAttempts + 3) \in Nat
    BY <1>2, <2>3
  <2> QED
    BY <2>4, <2>5, <2>6
<1> QED
  BY <1>4, <1>5

\* Two overlapping batches, any number of attempts, events, sinks, nodes and failures:
\* a row neither requeued nor abandoned is posted no more often than the bound.
THEOREM TwoBatchPostsKept == Spec => []TwoBatchPostBound
<1>1. CASE Cardinality(Batches) = 2
  <2>1. Init => ReadInv /\ PairBounded(Once, Once, FALSE) /\ PairBounded(Repeatable, Last, TRUE)
    BY ReadBegins, PairBegins, OnceSteep, RepeatableSteep
  <2>2. Inv /\ Inv' /\ ReadInv /\ PairBounded(Once, Once, FALSE) /\ [Next]_vars
          => PairBounded(Once, Once, FALSE)'
    BY <1>1, PairKept, OnceSteep
  <2>3. Inv /\ Inv' /\ ReadInv /\ PairBounded(Repeatable, Last, TRUE) /\ [Next]_vars
          => PairBounded(Repeatable, Last, TRUE)'
    BY <1>1, PairKept, RepeatableSteep
  <2>4. Inv /\ PairBounded(Once, Once, FALSE) /\ PairBounded(Repeatable, Last, TRUE)
          => TwoBatchPostBound
    BY <1>1, BoundHolds
  <2> QED
    BY <2>1, <2>2, <2>3, <2>4, ReadNext, InvAlways, PTL DEF Spec
<1>2. CASE Cardinality(Batches) # 2
  <2>1. TwoBatchPostBound
    BY <1>2 DEF TwoBatchPostBound
  <2> QED
    BY <2>1, PTL
<1> QED
  BY <1>1, <1>2
=============================================================================
