--------------------------- MODULE DecisionOutbox ---------------------------
(***************************************************************************)
(* The decision-event outbox: rows written in the decision's transaction,  *)
(* one per ACTIVE webhook sink (lib/ci/decision-events.ts), and the        *)
(* batches that deliver them, started by the dispatcher's cron cycle       *)
(* (workers/decision-event-dispatcher.ts) or by POST /events/dispatch      *)
(* (routes/integrations.ts).                                               *)
(*                                                                         *)
(* A batch reads its candidates once and never locks or re-reads them.     *)
(* Every await of the loop is a step of its own, so batches of one node,   *)
(* of several nodes and the operator's routes interleave at the awaits.    *)
(* Abstracted: payload, signature, headers, HTTP codes (accepted or not)   *)
(* and the clock (`due` stands for nextAttemptAt <= now).                  *)
(***************************************************************************)
EXTENDS Integers, FiniteSets

CONSTANTS
  MaxEvents,    \* bound: decision and test events published
  Sinks,        \* webhook sinks
  Nodes,        \* server processes
  Batches,      \* calls of processDecisionEventOutboxBatch that may overlap
  Host,         \* batch -> the node it runs on
  MaxAttempts,  \* DECISION_EVENT_MAX_ATTEMPTS
  BatchSize,    \* DECISION_EVENT_DISPATCH_BATCH_SIZE
  Budget        \* bound: how often each operator action or failure happens

Hazards == {"manual", "requeue", "toggle", "crash", "fault"}

ASSUME OutboxAssumption ==
  /\ MaxEvents \in Nat
  /\ Host \in [Batches -> Nodes]
  /\ MaxAttempts \in Nat \ {0}
  /\ BatchSize \in Nat \ {0}
  /\ Budget \in [Hazards -> Nat]

ASSUME BatchesFinite == IsFiniteSet(Batches)

Events   == 1..MaxEvents               \* numbered in creation order
Rows     == Events \X Sinks            \* eventKey: one row per event and sink
Statuses == {"absent", "PENDING", "PROCESSING", "FAILED", "SENT", "DEAD_LETTER"}
Row      == [status : Statuses, attempts : Nat, due : BOOLEAN]
Item     == [row : Rows, attempts : Nat, active : BOOLEAN]
NoItem   == [row |-> <<0, 0>>]         \* the loop holds no row

VARIABLES
  sinkActive,   \* sink -> its status is ACTIVE
  published,    \* number of events published
  outbox,       \* the DecisionEventOutbox table
  running,      \* node -> the dispatcher's `running` flag
  pc,           \* batch -> where its loop stands
  cron,         \* batch -> it was started by a dispatch cycle
  todo,         \* batch -> candidates still to visit, as they were read
  item,         \* batch -> the candidate in hand
  budget,       \* what is left of Budget
  accepted,     \* history: rows whose sink accepted a delivery
  posts,        \* history: row -> requests made since it was (re)queued
  abandoned     \* history: rows a dead or aborted batch had in hand

store == <<outbox, accepted, posts, abandoned>>
loop  == <<pc, cron, todo, item>>
vars  == <<sinkActive, published, store, running, loop, budget>>

Spend(h) == budget[h] > 0 /\ budget' = [budget EXCEPT ![h] = @ - 1]

-----------------------------------------------------------------------------
Init ==
  /\ sinkActive \in [Sinks -> BOOLEAN]
  /\ published = 0
  /\ outbox = [r \in Rows |-> [status |-> "absent", attempts |-> 0, due |-> FALSE]]
  /\ running = [n \in Nodes |-> FALSE]
  /\ pc = [b \in Batches |-> "idle"]
  /\ cron = [b \in Batches |-> FALSE]
  /\ todo = [b \in Batches |-> {}]
  /\ item = [b \in Batches |-> NoItem]
  /\ budget = Budget
  /\ accepted = {}
  /\ posts = [r \in Rows |-> 0]
  /\ abandoned = {}

Fresh == [status |-> "PENDING", attempts |-> 0, due |-> TRUE]

\* The rows of a new event: createMany inside the decision's transaction.
Publish(S) ==
  /\ published < MaxEvents
  /\ published' = published + 1
  /\ outbox' = [r \in Rows |->
       IF r[1] = published + 1 /\ r[2] \in S THEN Fresh ELSE outbox[r]]
  /\ UNCHANGED <<sinkActive, running, loop, budget, accepted, posts, abandoned>>

\* A decision is published to the sinks that are ACTIVE now.
EnqueueDecisionEvaluated == Publish({s \in Sinks : sinkActive[s]})

\* A test event goes to one sink whatever its status.
CreateTestEvent(s) == Publish({s})

\* PATCH /webhooks/:id changes the sink's status.
ToggleSink(s) ==
  /\ Spend("toggle")
  /\ sinkActive' = [sinkActive EXCEPT ![s] = ~@]
  /\ UNCHANGED <<published, store, running, loop>>

\* POST /events/outbox/:id/requeue: whatever the row's status.
Requeue(r) ==
  /\ Spend("requeue")
  /\ outbox[r].status # "absent"
  /\ outbox' = [outbox EXCEPT ![r] = Fresh]
  /\ posts' = [posts EXCEPT ![r] = 0]
  /\ abandoned' = abandoned \ {r}
  /\ UNCHANGED <<sinkActive, published, running, loop, accepted>>

\* nextAttemptAt passes.
Elapse(r) ==
  /\ outbox[r].status = "FAILED"
  /\ ~outbox[r].due
  /\ outbox' = [outbox EXCEPT ![r].due = TRUE]
  /\ UNCHANGED <<sinkActive, published, running, loop, budget, accepted, posts, abandoned>>

-----------------------------------------------------------------------------
\* Mutant of Due: FAILED rows are never read again.
DueOnlyPending == {r \in Rows : outbox[r].status = "PENDING" /\ outbox[r].due}

\* The candidates: due rows, the oldest BatchSize of them, with the sink and
\* the attempt count as they are at this read.
Due == {r \in Rows : outbox[r].status \in {"PENDING", "FAILED"} /\ outbox[r].due}

Snapshot(T) ==
  {[row |-> r, attempts |-> outbox[r].attempts, active |-> sinkActive[r[2]]] : r \in T}

Candidates ==
  {T \in SUBSET Due :
     /\ Cardinality(T) <= BatchSize
     /\ T # Due => Cardinality(T) = BatchSize
     /\ \A r \in T, x \in Due \ T : r[1] <= x[1]}

Begin(b, isCron) ==
  /\ pc[b] = "idle"
  /\ \E T \in Candidates : todo' = [todo EXCEPT ![b] = Snapshot(T)]
  /\ pc' = [pc EXCEPT ![b] = "loop"]
  /\ cron' = [cron EXCEPT ![b] = isCron]
  /\ UNCHANGED <<sinkActive, published, store, item>>

\* runDecisionEventDispatchCycle: one cycle of a node at a time.
StartCycle(b) ==
  /\ ~running[Host[b]]
  /\ running' = [running EXCEPT ![Host[b]] = TRUE]
  /\ Begin(b, TRUE)
  /\ UNCHANGED budget

\* POST /events/dispatch calls the batch directly, past the flag.
DispatchNow(b) ==
  /\ Spend("manual")
  /\ Begin(b, FALSE)
  /\ UNCHANGED running

\* The end of a batch, normal or by an exception: the cycle's finally.
Return(b) ==
  /\ pc' = [pc EXCEPT ![b] = "idle"]
  /\ cron' = [cron EXCEPT ![b] = FALSE]
  /\ todo' = [todo EXCEPT ![b] = {}]
  /\ item' = [item EXCEPT ![b] = NoItem]
  /\ running' = IF cron[b] THEN [running EXCEPT ![Host[b]] = FALSE] ELSE running

Finish(b) ==
  /\ pc[b] = "loop" /\ todo[b] = {}
  /\ Return(b)
  /\ UNCHANGED <<sinkActive, published, store, budget>>

-----------------------------------------------------------------------------
\* The loop takes the candidates oldest first.
Oldest(b) == {i \in todo[b] : \A j \in todo[b] : i.row[1] <= j.row[1]}

\* A write to one outbox row. It commits and returns; or the statement fails
\* ("fault"), having been applied or not, and the caller sees an exception.
Write(r, row)    == outbox' = [outbox EXCEPT ![r] = row]
Attempt(r, row)  == Write(r, row) \/ UNCHANGED outbox

DeadLettered(r) == [outbox[r] EXCEPT !.status = "DEAD_LETTER"]
Processing(r)   == [outbox[r] EXCEPT !.status = "PROCESSING"]
Sent(r)         == [outbox[r] EXCEPT !.status = "SENT"]

\* Mutants of Failed: the limit is off by one, the row keeps the status
\* PROCESSING, the terminal status is misspelt.
FailedOneMore(i) ==
  LET n == i.attempts + 1
  IN IF n > MaxAttempts
     THEN [status |-> "DEAD_LETTER", attempts |-> n, due |-> TRUE]
     ELSE [status |-> "FAILED", attempts |-> n, due |-> FALSE]
FailedStaysProcessing(i) ==
  LET n == i.attempts + 1
  IN IF n >= MaxAttempts
     THEN [status |-> "DEAD_LETTER", attempts |-> n, due |-> TRUE]
     ELSE [status |-> "PROCESSING", attempts |-> n, due |-> FALSE]

\* The failure record, computed from the attempt count read with the snapshot.
Failed(i) ==
  LET n == i.attempts + 1
  IN IF n >= MaxAttempts
     THEN [status |-> "DEAD_LETTER", attempts |-> n, due |-> TRUE]
     ELSE [status |-> "FAILED", attempts |-> n, due |-> FALSE]

\* The candidate's sink was not ACTIVE when it was read.
SkipInactive(b, i) ==
  /\ pc[b] = "loop" /\ i \in Oldest(b) /\ ~i.active
  /\ Write(i.row, DeadLettered(i.row))
  /\ todo' = [todo EXCEPT ![b] = @ \ {i}]
  /\ UNCHANGED <<sinkActive, published, running, pc, cron, item, budget,
                 accepted, posts, abandoned>>

\* The row is marked PROCESSING and the request leaves.
MarkProcessing(b, i) ==
  /\ pc[b] = "loop" /\ i \in Oldest(b) /\ i.active
  /\ Write(i.row, Processing(i.row))
  /\ todo' = [todo EXCEPT ![b] = @ \ {i}]
  /\ item' = [item EXCEPT ![b] = i]
  /\ pc' = [pc EXCEPT ![b] = "post"]
  /\ UNCHANGED <<sinkActive, published, running, cron, budget,
                 accepted, posts, abandoned>>

\* Either of those updates throws: nothing catches it and the batch ends.
MarkFails(b, i) ==
  /\ pc[b] = "loop" /\ i \in Oldest(b)
  /\ Spend("fault")
  /\ Attempt(i.row, IF i.active THEN Processing(i.row) ELSE DeadLettered(i.row))
  /\ abandoned' = abandoned \cup {i.row}
  /\ Return(b)
  /\ UNCHANGED <<sinkActive, published, accepted, posts>>

\* The fetch: the sink accepts or not, and the answer arrives or not.
Post(b) ==
  LET r == item[b].row IN
  /\ pc[b] = "post"
  /\ posts' = [posts EXCEPT ![r] = @ + 1]
  /\ \/ accepted' = accepted \cup {r} /\ pc' = [pc EXCEPT ![b] = "accepted"]
     \/ accepted' = accepted          /\ pc' = [pc EXCEPT ![b] = "rejected"]
     \/ accepted' \in {accepted, accepted \cup {r}} /\ pc' = [pc EXCEPT ![b] = "thrown"]
  /\ UNCHANGED <<sinkActive, published, outbox, running, cron, todo, item,
                 budget, abandoned>>

\* The item is done: back to the head of the loop.
Proceed(b) ==
  /\ pc' = [pc EXCEPT ![b] = "loop"]
  /\ item' = [item EXCEPT ![b] = NoItem]
  /\ UNCHANGED <<sinkActive, published, running, cron, todo, budget,
                 accepted, posts, abandoned>>

RecordSent(b) ==
  /\ pc[b] = "accepted"
  /\ Write(item[b].row, Sent(item[b].row))
  /\ Proceed(b)

\* A refusal, and the catch block, write the same failure record.
RecordFailure(b) ==
  /\ pc[b] \in {"rejected", "thrown"}
  /\ Write(item[b].row, Failed(item[b]))
  /\ Proceed(b)

\* The transaction inside the try block throws: control goes to the catch.
RecordThrows(b) ==
  LET r == item[b].row IN
  /\ Spend("fault")
  /\ \/ pc[b] = "accepted" /\ Attempt(r, Sent(r))
     \/ pc[b] = "rejected" /\ Attempt(r, Failed(item[b]))
  /\ pc' = [pc EXCEPT ![b] = "thrown"]
  /\ UNCHANGED <<sinkActive, published, running, cron, todo, item,
                 accepted, posts, abandoned>>

\* The transaction in the catch block throws: the batch ends.
CatchThrows(b) ==
  /\ pc[b] = "thrown"
  /\ Spend("fault")
  /\ Attempt(item[b].row, Failed(item[b]))
  /\ abandoned' = abandoned \cup {item[b].row}
  /\ Return(b)
  /\ UNCHANGED <<sinkActive, published, accepted, posts>>

\* A process dies with its batches and starts again with its flag clear.
Crash(n) ==
  LET dead == {b \in Batches : Host[b] = n} IN
  /\ Spend("crash")
  /\ abandoned' = abandoned \cup {item[b].row : b \in {d \in dead : item[d] # NoItem}}
  /\ running' = [running EXCEPT ![n] = FALSE]
  /\ pc'   = [b \in Batches |-> IF b \in dead THEN "idle" ELSE pc[b]]
  /\ cron' = [b \in Batches |-> IF b \in dead THEN FALSE ELSE cron[b]]
  /\ todo' = [b \in Batches |-> IF b \in dead THEN {} ELSE todo[b]]
  /\ item' = [b \in Batches |-> IF b \in dead THEN NoItem ELSE item[b]]
  /\ UNCHANGED <<sinkActive, published, outbox, accepted, posts>>

-----------------------------------------------------------------------------
Deliver(b) ==
  \/ Finish(b)
  \/ \E i \in todo[b] : SkipInactive(b, i) \/ MarkProcessing(b, i)
  \/ Post(b)
  \/ RecordSent(b)
  \/ RecordFailure(b)

Interrupt(b) ==
  \/ \E i \in todo[b] : MarkFails(b, i)
  \/ RecordThrows(b)
  \/ CatchThrows(b)

Next ==
  \/ EnqueueDecisionEvaluated
  \/ \E s \in Sinks : CreateTestEvent(s) \/ ToggleSink(s)
  \/ \E r \in Rows : Requeue(r) \/ Elapse(r)
  \/ \E b \in Batches : StartCycle(b) \/ DispatchNow(b) \/ Deliver(b) \/ Interrupt(b)
  \/ \E n \in Nodes : Crash(n)

\* The batch's awaits return (the fetch has a timeout), cron keeps starting
\* cycles on every node and the clock advances. Nothing else is promised.
Fairness ==
  /\ \A b \in Batches : WF_vars(Deliver(b))
  /\ \A n \in Nodes : WF_vars(\E b \in Batches : Host[b] = n /\ StartCycle(b))
  /\ \A r \in Rows : WF_vars(Elapse(r))

Spec     == Init /\ [][Next]_vars
FairSpec == Spec /\ Fairness

-----------------------------------------------------------------------------
Settled(r) == outbox[r].status \in {"SENT", "DEAD_LETTER"}
InHand(b, r) == item[b] # NoItem /\ item[b].row = r

\* Types of the table, the batches and the histories.
TypeOK ==
  /\ sinkActive \in [Sinks -> BOOLEAN]
  /\ published \in 0..MaxEvents
  /\ outbox \in [Rows -> Row]
  /\ running \in [Nodes -> BOOLEAN]
  /\ pc \in [Batches -> {"idle", "loop", "post", "accepted", "rejected", "thrown"}]
  /\ cron \in [Batches -> BOOLEAN]
  /\ todo \in [Batches -> SUBSET Item]
  /\ item \in [Batches -> Item \cup {NoItem}]
  /\ budget \in [Hazards -> Nat]
  /\ accepted \subseteq Rows
  /\ posts \in [Rows -> Nat]
  /\ abandoned \subseteq Rows

\* A row shown as SENT was accepted by its sink at least once, whatever batches
\* overlapped on it and whatever was requeued (decision-events.ts, response.ok).
SentWasAccepted == \A r \in Rows : outbox[r].status = "SENT" => r \in accepted

\* A PROCESSING row is in the hands of a live batch that will record its result,
\* unless a crash or an exception took the batch that had it: no interleaving of
\* batches and requeues alone strands a row where no candidate query sees it.
ProcessingHasOwner ==
  \A r \in Rows : outbox[r].status = "PROCESSING" =>
    r \in abandoned \/ \E b \in Batches : InHand(b, r)

\* Two overlapping batches overwrite one another's attempt counts, and a stale
\* write reopens a level another batch had passed. A row neither requeued nor
\* abandoned is still posted at most MaxAttempts(MaxAttempts + 3)/2 times: d + 1
\* requests with d attempts left, not the MaxAttempts a reader of the code expects.
\* A failure record that was applied although its statement failed is written a
\* second time by the catch block, which may reopen the level again: then 2d.
TwoBatchPostBound ==
  Cardinality(Batches) = 2 =>
    \A r \in Rows :
      r \notin abandoned /\ budget["requeue"] = Budget["requeue"] =>
        /\ posts[r] <= MaxAttempts * (MaxAttempts + 1)
        /\ budget["fault"] = Budget["fault"] =>
             posts[r] <= (MaxAttempts * (MaxAttempts + 3)) \div 2

\* Every published row is settled, or was in the hands of a batch that died:
\* retries, refusals, lost answers and sinks switched off all end somewhere.
EventuallySettled ==
  \A r \in Rows :
    (outbox[r].status # "absent") ~> (Settled(r) \/ r \in abandoned)

\* With one dispatcher the table implements EventDelivery.
Delivery == INSTANCE EventDelivery WITH
  state <- [r \in Rows |->
              CASE outbox[r].status = "absent"      -> "none"
                [] outbox[r].status = "SENT"        -> "confirmed"
                [] outbox[r].status = "DEAD_LETTER" -> "dead"
                [] OTHER                            -> "waiting"],
  tries <- posts,
  got   <- accepted

\* With one dispatcher a sink sees an event at most MaxAttempts times, and an
\* event is confirmed only once the sink has it: the steps of the batch, its
\* exceptions and crashes included, are steps of EventDelivery.
ImplementsDelivery == Delivery!Spec
=============================================================================
