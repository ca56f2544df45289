------------------------ MODULE ResilientCallProofs ------------------------
(***************************************************************************)
(* The bulkhead and the breaker for any number of calls, slots and drains. *)
(* The bulkhead counts its holders because a queued call is queued once;   *)
(* the breaker waits because whatever would half open it is reset with     *)
(* every opening.                                                          *)
(***************************************************************************)
EXTENDS ResilientCall, FiniteSetTheorems, SequenceTheorems, TLAPS

Holders(ph) == {c \in Calls : ph[c] \in Holding}

\* The calls in a queue are waiting, each once.
QueueOk(q, ph) ==
  /\ \A i \in 1..Len(q) : ph[q[i]] = "queued"
  /\ \A i, j \in 1..Len(q) : q[i] = q[j] => i = j

\* Until the circuit has cooled down nothing is there that would half open it.
Waits(c) == c.state # "HALF_OPEN" /\ ~c.elapsed /\ c.timer # "due"

CoolInv == ~cooled => Waits(circuit)

\* A call that backs off has a request left.
BackoffInv == \A c \in Calls : phase[c] = "backoff" => retries[c] < MaxRetries

\* The requests a call may still send once the breaker turns new calls away.
Unsent(ph, rt) ==
  {t \in Calls \X (1..MaxRetries) : ph[t[1]] \in {"sent", "backoff"} /\ rt[t[1]] < t[2]}

\* While the circuit is open a request that is sent is one fewer to come.
SendsInv ==
  /\ OpenSendsBounded
  /\ circuit.state = "OPEN" =>
       openSends + Cardinality(Unsent(phase, retries)) <= (MaxConcurrent - 1) * MaxRetries

CallInv ==
  /\ TypeOK
  /\ BackoffInv
  /\ QueueOk(queue, phase)
  /\ active = Cardinality(Holders(phase))
  /\ WakeupPending
  /\ CoolInv

(***************************************************************************)
(* The breaker's functions keep its type and what CoolInv says.            *)
(***************************************************************************)
LEMMA SetField ==
  \A c \in Circuit :
    /\ \A s \in {"CLOSED", "OPEN", "HALF_OPEN"} : [c EXCEPT !.state = s] \in Circuit
    /\ \A n \in 0..FailureThreshold : [c EXCEPT !.failures = n] \in Circuit
    /\ \A n \in 0..HalfOpenMaxAttempts : [c EXCEPT !.probes = n] \in Circuit
    /\ \A m \in {"off", "armed", "due"} : [c EXCEPT !.timer = m] \in Circuit
    /\ \A b \in BOOLEAN : [c EXCEPT !.elapsed = b] \in Circuit
<1> SUFFICES ASSUME NEW c \in Circuit
             PROVE  /\ \A s \in {"CLOSED", "OPEN", "HALF_OPEN"} : [c EXCEPT !.state = s] \in Circuit
                    /\ \A n \in 0..FailureThreshold : [c EXCEPT !.failures = n] \in Circuit
                    /\ \A n \in 0..HalfOpenMaxAttempts : [c EXCEPT !.probes = n] \in Circuit
                    /\ \A m \in {"off", "armed", "due"} : [c EXCEPT !.timer = m] \in Circuit
                    /\ \A b \in BOOLEAN : [c EXCEPT !.elapsed = b] \in Circuit
  OBVIOUS
<1>1. \A s \in {"CLOSED", "OPEN", "HALF_OPEN"} : [c EXCEPT !.state = s] \in Circuit
  BY DEF Circuit
<1>2. \A n \in 0..FailureThreshold : [c EXCEPT !.failures = n] \in Circuit
  BY DEF Circuit
<1>3. \A n \in 0..HalfOpenMaxAttempts : [c EXCEPT !.probes = n] \in Circuit
  BY DEF Circuit
<1>4. \A m \in {"off", "armed", "due"} : [c EXCEPT !.timer = m] \in Circuit
  BY DEF Circuit
<1>5. \A b \in BOOLEAN : [c EXCEPT !.elapsed = b] \in Circuit
  BY DEF Circuit
<1> QED
  BY <1>1, <1>2, <1>3, <1>4, <1>5

\* The zeros and the numbers next to a counter are in its range.
LEMMA Ranges ==
  ASSUME NEW c \in Circuit
  PROVE  /\ 0 \in 0..FailureThreshold /\ 0 \in 0..HalfOpenMaxAttempts
         /\ c.failures < FailureThreshold => c.failures + 1 \in 0..FailureThreshold
         /\ ~(c.probes + 1 >= HalfOpenMaxAttempts) => c.probes + 1 \in 0..HalfOpenMaxAttempts
BY ResilienceAssumption DEF Circuit

\* What each function sets, and that it keeps the type.
LEMMA CircuitTransitions ==
  ASSUME NEW c \in Circuit
  PROVE  /\ Opened(c) \in Circuit /\ Opened(c).state = "OPEN" /\ Opened(c).timer = "armed"
         /\ Opened(c).elapsed = c.elapsed
         /\ HalfOpened(c) \in Circuit /\ Closed(c) \in Circuit
         /\ CountFailure(c) \in Circuit /\ CountFailure(c).state = c.state
         /\ CountFailure(c).timer = c.timer /\ CountFailure(c).elapsed = FALSE
<1>1. /\ Opened(c).state = "OPEN" /\ Opened(c).timer = "armed"
      /\ Opened(c).elapsed = c.elapsed
  BY DEF Opened, Circuit
<1>2. /\ CountFailure(c).state = c.state
      /\ CountFailure(c).timer = c.timer /\ CountFailure(c).elapsed = FALSE
  BY DEF CountFailure, Circuit
<1>3. Opened(c) \in Circuit
  <2>1. [[[c EXCEPT !.state = "OPEN"] EXCEPT !.probes = 0] EXCEPT !.timer = "armed"] \in Circuit
    BY SetField, Ranges
  <2> QED
    BY <2>1 DEF Opened
<1>4. HalfOpened(c) \in Circuit
  <2>1. [[c EXCEPT !.state = "HALF_OPEN"] EXCEPT !.probes = 0] \in Circuit
    BY SetField, Ranges
  <2> QED
    BY <2>1 DEF HalfOpened
<1>5. Closed(c) \in Circuit
  <2>1. [[[[c EXCEPT !.state = "CLOSED"] EXCEPT !.probes = 0] EXCEPT !.failures = 0]
           EXCEPT !.timer = "off"] \in Circuit
    BY SetField, Ranges
  <2> QED
    BY <2>1 DEF Closed
<1>6. CountFailure(c) \in Circuit
  <2> DEFINE n == IF c.failures < FailureThreshold THEN c.failures + 1 ELSE c.failures
  <2>1. n \in 0..FailureThreshold
    BY Ranges DEF Circuit
  <2>2. [[c EXCEPT !.failures = n] EXCEPT !.elapsed = FALSE] \in Circuit
    BY <2>1, SetField
  <2> QED
    BY <2>2 DEF CountFailure
<1> QED
  BY <1>1, <1>2, <1>3, <1>4, <1>5, <1>6

LEMMA CircuitTypes ==
  ASSUME NEW c \in Circuit
  PROVE  /\ CanExecute(c) \in Circuit /\ RecordSuccess(c) \in Circuit
         /\ RecordFailure(c) \in Circuit /\ NewCircuit \in Circuit
<1>1. NewCircuit \in Circuit
  BY ResilienceAssumption DEF NewCircuit, Circuit
<1>2. CanExecute(c) \in Circuit
  BY CircuitTransitions DEF CanExecute
<1>3. c.state \in {"CLOSED", "OPEN", "HALF_OPEN"}
  BY DEF Circuit
<1>4. RecordSuccess(c) \in Circuit
  <2>1. CASE c.state = "OPEN"
    BY <2>1 DEF RecordSuccess
  <2>2. CASE c.state = "CLOSED"
    <3>1. [c EXCEPT !.failures = 0] \in Circuit
      BY SetField, Ranges
    <3> QED
      BY <2>2, <3>1 DEF RecordSuccess
  <2>3. CASE c.state = "HALF_OPEN" /\ c.probes + 1 >= HalfOpenMaxAttempts
    BY <2>3, CircuitTransitions DEF RecordSuccess
  <2>4. CASE c.state = "HALF_OPEN" /\ ~(c.probes + 1 >= HalfOpenMaxAttempts)
    <3>1. [c EXCEPT !.probes = c.probes + 1] \in Circuit
      BY <2>4, SetField, Ranges
    <3> QED
      BY <2>4, <3>1 DEF RecordSuccess
  <2> QED
    BY <1>3, <2>1, <2>2, <2>3, <2>4
<1>5. RecordFailure(c) \in Circuit
  BY CircuitTransitions DEF RecordFailure
<1> QED
  BY <1>1, <1>2, <1>4, <1>5

\* A circuit that waits is not disturbed by what comes in.
LEMMA CircuitWaits ==
  ASSUME NEW c \in Circuit, Waits(c)
  PROVE  CanExecute(c) = c /\ Waits(RecordSuccess(c)) /\ Waits(RecordFailure(c))
<1>1. CanExecute(c) = c
  BY DEF CanExecute, Waits
<1>2. Waits(RecordSuccess(c))
  <2>1. CASE c.state = "OPEN"
    BY <2>1 DEF RecordSuccess
  <2>2. CASE c.state = "CLOSED"
    BY <2>2 DEF RecordSuccess, Waits, Circuit
  <2> QED
    BY <2>1, <2>2 DEF Waits, Circuit
<1>3. Waits(CountFailure(c)) /\ CountFailure(c) \in Circuit
  BY CircuitTransitions DEF Waits
<1>4. Waits(RecordFailure(c))
  <2>1. Waits(Opened(CountFailure(c)))
    BY <1>3, CircuitTransitions DEF Waits
  <2> QED
    BY <1>3, <2>1 DEF RecordFailure
<1> QED
  BY <1>1, <1>2, <1>4

\* A failure that trips the circuit restarts the wait.
LEMMA CircuitTrips ==
  ASSUME NEW c \in Circuit, Trips(c)
  PROVE  Waits(RecordFailure(c))
<1>1. CountFailure(c) \in Circuit /\ CountFailure(c).elapsed = FALSE
  BY CircuitTransitions
<1>2. Waits(Opened(CountFailure(c)))
  BY <1>1, CircuitTransitions DEF Waits
<1> QED
  BY <1>2 DEF RecordFailure

(***************************************************************************)
(* The holders of the slots.                                               *)
(***************************************************************************)
LEMMA HoldersChange ==
  ASSUME NEW ph \in [Calls -> Phases], NEW c \in Calls, NEW p \in Phases
  PROVE  LET ph2 == [ph EXCEPT ![c] = p]
         IN  /\ Cardinality(Holders(ph)) \in Nat
             /\ (ph[c] \in Holding <=> p \in Holding) =>
                  Cardinality(Holders(ph2)) = Cardinality(Holders(ph))
             /\ ph[c] \notin Holding /\ p \in Holding =>
                  Cardinality(Holders(ph2)) = Cardinality(Holders(ph)) + 1
             /\ ph[c] \in Holding /\ p \notin Holding =>
                  Cardinality(Holders(ph2)) = Cardinality(Holders(ph)) - 1
<1> DEFINE ph2 == [ph EXCEPT ![c] = p]
<1>1. IsFiniteSet(Holders(ph)) /\ Cardinality(Holders(ph)) \in Nat
  <2>1. Holders(ph) \in SUBSET Calls
    BY DEF Holders
  <2> QED
    BY <2>1, ResilienceAssumption, FS_Subset, FS_CardinalityType
<1>2. CASE ph[c] \in Holding <=> p \in Holding
  <2>1. Holders(ph2) = Holders(ph)
    BY <1>2 DEF Holders
  <2> QED
    BY <1>1, <1>2, <2>1
<1>3. CASE ph[c] \notin Holding /\ p \in Holding
  <2>1. Holders(ph2) = Holders(ph) \cup {c} /\ c \notin Holders(ph)
    BY <1>3 DEF Holders
  <2> QED
    BY <1>1, <1>3, <2>1, FS_AddElement
<1>4. CASE ph[c] \in Holding /\ p \notin Holding
  <2>1. Holders(ph2) = Holders(ph) \ {c} /\ c \in Holders(ph)
    BY <1>4 DEF Holders
  <2> QED
    BY <1>1, <1>4, <2>1, FS_RemoveElement
<1> QED
  BY <1>1, <1>2, <1>3, <1>4

\* One look at a queue: nothing happens, or its head takes a slot.
LEMMA Look ==
  ASSUME NEW q \in Seq(Calls), NEW ph \in [Calls -> Phases],
         active \in 0..MaxConcurrent, circuit \in Circuit,
         QueueOk(q, ph), active = Cardinality(Holders(ph)), ProcessQueue(q, ph)
  PROVE  /\ queue' \in Seq(Calls) /\ phase' \in [Calls -> Phases]
         /\ active' \in 0..MaxConcurrent /\ circuit' \in Circuit
         /\ circuit' \in {circuit, CanExecute(circuit)}
         /\ QueueOk(queue', phase') /\ active' = Cardinality(Holders(phase'))
         /\ \/ active' = active /\ queue' = q /\ (active >= MaxConcurrent \/ Len(q) = 0)
            \/ active' = active + 1 /\ active < MaxConcurrent /\ Len(queue') = Len(q) - 1
<1>1. CASE active >= MaxConcurrent \/ q = <<>>
  BY <1>1 DEF ProcessQueue
<1>2. CASE ~(active >= MaxConcurrent \/ q = <<>>)
  <2> DEFINE p == IF Admits(circuit) THEN "sent" ELSE "leaving"
  <2>1. /\ queue' = Tail(q) /\ active' = active + 1 /\ circuit' = CanExecute(circuit)
        /\ phase' = [ph EXCEPT ![Head(q)] = p]
    BY <1>2 DEF ProcessQueue
  <2>2. /\ Head(q) \in Calls /\ Head(q) = q[1] /\ ph[Head(q)] = "queued"
        /\ Len(Tail(q)) = Len(q) - 1 /\ Tail(q) \in Seq(Calls) /\ 1 <= Len(q)
        /\ \A i \in 1..Len(Tail(q)) : Tail(q)[i] = q[i + 1] /\ i + 1 \in 1..Len(q)
    BY <1>2 DEF QueueOk
  <2>3. p \in Phases /\ p \in Holding /\ "queued" \notin Holding
    BY DEF Phases, Holding
  <2>4. phase' \in [Calls -> Phases]
    BY <2>1, <2>3
  <2>5. active' = Cardinality(Holders(phase'))
    <3> HIDE DEF p
    <3>1. Cardinality(Holders([ph EXCEPT ![Head(q)] = p])) = Cardinality(Holders(ph)) + 1
      BY <2>2, <2>3, HoldersChange
    <3> QED
      BY <2>1, <3>1
  <2>6. QueueOk(queue', phase')
    <3>1. \A i \in 1..Len(Tail(q)) : q[i + 1] # q[1]
      BY <2>2 DEF QueueOk
    <3>2. \A i \in 1..Len(Tail(q)) : phase'[Tail(q)[i]] = "queued"
      BY <2>1, <2>2, <3>1 DEF QueueOk
    <3>3. \A i, j \in 1..Len(Tail(q)) : Tail(q)[i] = Tail(q)[j] => i = j
      <4> SUFFICES ASSUME NEW i \in 1..Len(Tail(q)), NEW j \in 1..Len(Tail(q)),
                          Tail(q)[i] = Tail(q)[j]
                   PROVE  i = j
        OBVIOUS
      <4>1. i + 1 = j + 1
        BY <2>2 DEF QueueOk
      <4> QED
        BY <4>1
    <3> QED
      BY <2>1, <3>2, <3>3 DEF QueueOk
  <2>7. active' \in 0..MaxConcurrent /\ active < MaxConcurrent
    BY <1>2, <2>1, ResilienceAssumption
  <2>8. circuit' \in Circuit
    BY <2>1, CircuitTypes
  <2> QED
    BY <2>1, <2>2, <2>4, <2>5, <2>6, <2>7, <2>8
<1> QED
  BY <1>1, <1>2

\* A look sends or refuses its call: nobody backs off who did not before.
LEMMA LookBacksNobodyOff ==
  ASSUME NEW q \in Seq(Calls), NEW ph \in [Calls -> Phases], ProcessQueue(q, ph),
         NEW c \in Calls, phase'[c] = "backoff"
  PROVE  ph[c] = "backoff"
BY DEF ProcessQueue

(***************************************************************************)
(* Every step keeps the invariant.                                         *)
(***************************************************************************)
LEMMA CallInit == Init => CallInv
<1> SUFFICES ASSUME Init
             PROVE  CallInv
  OBVIOUS
<1>1. TypeOK
  BY ResilienceAssumption, CircuitTypes DEF Init, TypeOK, Phases, NewCircuit, Circuit
<1>2. QueueOk(queue, phase) /\ WakeupPending
  BY DEF Init, QueueOk, WakeupPending
<1>3. Holders(phase) = {}
  BY DEF Init, Holders, Holding
<1>4. active = Cardinality(Holders(phase))
  BY <1>3, FS_EmptySet DEF Init
<1>5. BackoffInv /\ CoolInv
  BY DEF Init, BackoffInv, CoolInv
<1> QED
  BY <1>1, <1>2, <1>4, <1>5 DEF CallInv

\* A step that moves one call which neither waits before it nor after.
LEMMA CallMoves ==
  ASSUME TypeOK, QueueOk(queue, phase), NEW c \in Calls, NEW p \in Phases,
         phase[c] # "queued", phase' = [phase EXCEPT ![c] = p], UNCHANGED queue
  PROVE  phase' \in [Calls -> Phases] /\ QueueOk(queue', phase')
<1>1. \A i \in 1..Len(queue) : queue[i] \in Calls
  BY DEF TypeOK
<1>2. \A i \in 1..Len(queue) : phase'[queue[i]] = phase[queue[i]]
  BY <1>1 DEF TypeOK, QueueOk
<1> QED
  BY <1>2 DEF TypeOK, QueueOk

\* What a look leaves of CoolInv.
LEMMA LookWaits ==
  ASSUME TypeOK, CoolInv, circuit' \in {circuit, CanExecute(circuit)}, UNCHANGED cooled
  PROVE  CoolInv'
BY CircuitWaits DEF TypeOK, CoolInv, Waits

LEMMA SubmitKeeps ==
  ASSUME CallInv, NEW c \in Calls, Submit(c)
  PROVE  CallInv'
<1> DEFINE q  == Append(queue, c)
           ph == [phase EXCEPT ![c] = "queued"]
<1>1. /\ q \in Seq(Calls) /\ Len(q) = Len(queue) + 1 /\ q[Len(queue) + 1] = c
      /\ \A i \in 1..Len(queue) : q[i] = queue[i] /\ queue[i] # c
  BY DEF CallInv, TypeOK, Submit, QueueOk
<1>2. ph \in [Calls -> Phases]
  BY DEF CallInv, TypeOK, Phases
<1>3. QueueOk(q, ph)
  <2>1. \A i \in 1..Len(q) : i \in 1..Len(queue) \/ i = Len(queue) + 1
    BY <1>1 DEF CallInv, TypeOK
  <2>2. \A i \in 1..Len(q) : ph[q[i]] = "queued"
    BY <1>1, <2>1 DEF CallInv, TypeOK, QueueOk
  <2>3. \A i, j \in 1..Len(q) : q[i] = q[j] => i = j
    BY <1>1, <2>1 DEF CallInv, QueueOk
  <2> QED
    BY <2>2, <2>3 DEF QueueOk
<1>4. active = Cardinality(Holders(ph))
  <2>1. phase[c] \notin Holding /\ "queued" \notin Holding /\ "queued" \in Phases
    BY DEF Submit, Holding, Phases
  <2> QED
    BY <2>1, HoldersChange DEF CallInv, TypeOK
<1>5. ProcessQueue(q, ph)
  BY DEF Submit
<1>6. /\ queue' \in Seq(Calls) /\ phase' \in [Calls -> Phases]
      /\ active' \in 0..MaxConcurrent /\ circuit' \in Circuit
      /\ circuit' \in {circuit, CanExecute(circuit)}
      /\ QueueOk(queue', phase') /\ active' = Cardinality(Holders(phase'))
      /\ \/ active' = active /\ queue' = q /\ (active >= MaxConcurrent \/ Len(q) = 0)
         \/ active' = active + 1 /\ active < MaxConcurrent /\ Len(queue') = Len(q) - 1
  <2> HIDE DEF q, ph
  <2> QED
    BY <1>1, <1>2, <1>3, <1>4, <1>5, Look DEF CallInv, TypeOK
<1>7. UNCHANGED <<retries, immediates, cooled, openSends, drains>>
  BY DEF Submit, clock
<1>8. Len(queue') <= MaxQueueSize
  BY <1>1, <1>6, ResilienceAssumption DEF CallInv, TypeOK, Submit
<1>9. TypeOK'
  BY <1>6, <1>7, <1>8 DEF CallInv, TypeOK
<1>10. WakeupPending'
  <2> SUFFICES ASSUME NEW k \in 1..Len(queue'), active' + k <= MaxConcurrent
               PROVE  k <= immediates
    BY <1>7 DEF WakeupPending
  <2>1. active \in Nat /\ MaxConcurrent \in Nat /\ Len(q) \in Nat
    BY <1>1, ResilienceAssumption DEF CallInv, TypeOK
  <2>2. active' = active + 1 /\ Len(queue') = Len(queue)
    <3> HIDE DEF q
    <3> QED
      BY <1>1, <1>6, <2>1
  <2>3. k \in 1..Len(queue) /\ active + k <= MaxConcurrent
    BY <2>1, <2>2
  <2> QED
    BY <2>3 DEF CallInv, WakeupPending
<1>11. BackoffInv'
  <2> SUFFICES ASSUME NEW d \in Calls, phase'[d] = "backoff"
               PROVE  retries'[d] < MaxRetries
    BY DEF BackoffInv
  <2>1. ph[d] = "backoff"
    <3> HIDE DEF q, ph
    <3> QED
      BY <1>1, <1>2, <1>5, LookBacksNobodyOff
  <2>2. phase[d] = "backoff"
    BY <2>1 DEF CallInv, TypeOK
  <2> QED
    BY <1>7, <2>2 DEF CallInv, BackoffInv
<1>12. CoolInv'
  BY <1>6, <1>7, LookWaits DEF CallInv
<1> QED
  BY <1>6, <1>9, <1>10, <1>11, <1>12 DEF CallInv

LEMMA RunImmediateKeeps ==
  ASSUME CallInv, RunImmediate
  PROVE  CallInv'
<1>1. ProcessQueue(queue, phase) /\ immediates > 0 /\ immediates' = immediates - 1
  BY DEF RunImmediate
<1>2. /\ queue' \in Seq(Calls) /\ phase' \in [Calls -> Phases]
      /\ active' \in 0..MaxConcurrent /\ circuit' \in Circuit
      /\ circuit' \in {circuit, CanExecute(circuit)}
      /\ QueueOk(queue', phase') /\ active' = Cardinality(Holders(phase'))
      /\ \/ active' = active /\ queue' = queue /\ (active >= MaxConcurrent \/ Len(queue) = 0)
         \/ active' = active + 1 /\ active < MaxConcurrent /\ Len(queue') = Len(queue) - 1
  BY <1>1, Look DEF CallInv, TypeOK
<1>3. UNCHANGED <<retries, cooled, openSends, drains>>
  BY DEF RunImmediate, clock
<1>4. TypeOK'
  BY <1>1, <1>2, <1>3, ResilienceAssumption DEF CallInv, TypeOK
<1>5. WakeupPending'
  <2> SUFFICES ASSUME NEW k \in 1..Len(queue'), active' + k <= MaxConcurrent
               PROVE  k <= immediates'
    BY DEF WakeupPending
  <2>1. active' = active + 1 /\ Len(queue') = Len(queue) - 1
    BY <1>2, ResilienceAssumption DEF CallInv, TypeOK
  <2>2. k + 1 \in 1..Len(queue) /\ active + (k + 1) <= MaxConcurrent
    BY <2>1, ResilienceAssumption DEF CallInv, TypeOK
  <2>3. k + 1 <= immediates
    BY <2>2 DEF CallInv, WakeupPending
  <2> QED
    BY <1>1, <2>3 DEF CallInv, TypeOK
<1>6. BackoffInv'
  BY <1>1, <1>3, LookBacksNobodyOff DEF CallInv, TypeOK, BackoffInv
<1>7. CoolInv'
  BY <1>2, <1>3, LookWaits DEF CallInv
<1> QED
  BY <1>2, <1>4, <1>5, <1>6, <1>7 DEF CallInv

\* The steps of one call between its admission and its end: it keeps its slot.
LEMMA HolderMoves ==
  ASSUME CallInv, NEW c \in Calls, NEW p \in Holding, phase[c] \in Holding,
         phase' = [phase EXCEPT ![c] = p], UNCHANGED <<queue, active, immediates>>
  PROVE  /\ phase' \in [Calls -> Phases] /\ QueueOk(queue', phase')
         /\ active' = Cardinality(Holders(phase')) /\ WakeupPending'
<1>1. p \in Phases /\ phase[c] # "queued"
  BY DEF Holding, Phases
<1>2. phase' \in [Calls -> Phases] /\ QueueOk(queue', phase')
  BY <1>1, CallMoves DEF CallInv
<1>3. active' = Cardinality(Holders(phase'))
  BY <1>1, HoldersChange DEF CallInv, TypeOK
<1> QED
  BY <1>2, <1>3 DEF CallInv, WakeupPending

LEMMA SucceedKeeps ==
  ASSUME CallInv, NEW c \in Calls, Succeed(c)
  PROVE  CallInv'
<1>1. /\ phase' \in [Calls -> Phases] /\ QueueOk(queue', phase')
      /\ active' = Cardinality(Holders(phase')) /\ WakeupPending'
  BY HolderMoves DEF Succeed, Holding, bulkhead
<1>2. circuit' = RecordSuccess(circuit) /\ UNCHANGED <<retries, queue, active, immediates, cooled, openSends, drains>>
  BY DEF Succeed, bulkhead, clock
<1>3. TypeOK'
  BY <1>1, <1>2, CircuitTypes DEF CallInv, TypeOK
<1>4. BackoffInv'
  BY <1>2 DEF CallInv, TypeOK, BackoffInv, Succeed
<1>5. CoolInv'
  BY <1>2, CircuitWaits DEF CallInv, TypeOK, CoolInv
<1> QED
  BY <1>1, <1>3, <1>4, <1>5 DEF CallInv

LEMMA GiveUpKeeps ==
  ASSUME CallInv, NEW c \in Calls, GiveUp(c)
  PROVE  CallInv'
<1>1. /\ phase' \in [Calls -> Phases] /\ QueueOk(queue', phase')
      /\ active' = Cardinality(Holders(phase')) /\ WakeupPending'
  BY HolderMoves DEF GiveUp, Holding, bulkhead
<1>2. /\ circuit' = RecordFailure(circuit) /\ UNCHANGED <<retries, queue, active, immediates, drains>>
      /\ \/ Trips(circuit) /\ cooled' = FALSE /\ openSends' = 0
         \/ UNCHANGED <<cooled, openSends>>
  BY DEF GiveUp, bulkhead, clock
<1>3. TypeOK'
  <2>1. circuit' \in Circuit
    BY <1>2, CircuitTypes DEF CallInv, TypeOK
  <2>2. cooled' \in BOOLEAN
    BY <1>2, Zenon DEF CallInv, TypeOK
  <2>3. openSends' \in Nat
    <3>1. CASE openSends' = 0
      BY <3>1
    <3>2. CASE openSends' = openSends
      BY <3>2 DEF CallInv, TypeOK
    <3> QED
      BY <1>2, <3>1, <3>2, Zenon
  <2> QED
    BY <1>1, <1>2, <2>1, <2>2, <2>3 DEF CallInv, TypeOK
<1>4. BackoffInv'
  BY <1>2 DEF CallInv, TypeOK, BackoffInv, GiveUp
<1>5. CoolInv'
  BY <1>2, CircuitWaits, CircuitTrips DEF CallInv, TypeOK, CoolInv
<1> QED
  BY <1>1, <1>3, <1>4, <1>5 DEF CallInv

LEMMA BackOffKeeps ==
  ASSUME CallInv, NEW c \in Calls, BackOff(c) \/ Retry(c)
  PROVE  CallInv'
<1>1. /\ phase' \in [Calls -> Phases] /\ QueueOk(queue', phase')
      /\ active' = Cardinality(Holders(phase')) /\ WakeupPending'
  BY HolderMoves DEF BackOff, Retry, Holding, bulkhead
<1>2. UNCHANGED <<queue, active, immediates, circuit, cooled, drains>> /\ openSends' \in Nat
  BY DEF CallInv, TypeOK, BackOff, Retry, bulkhead, clock
<1>3. BackoffInv' /\ retries' \in [Calls -> 0..MaxRetries]
  <2>1. CASE BackOff(c)
    BY <2>1 DEF CallInv, TypeOK, BackoffInv, BackOff
  <2>2. CASE Retry(c)
    <3>1. retries[c] + 1 \in 0..MaxRetries
      BY <2>2, ResilienceAssumption DEF CallInv, TypeOK, BackoffInv, Retry
    <3> QED
      BY <2>2, <3>1 DEF CallInv, TypeOK, BackoffInv, Retry
  <2> QED
    BY <2>1, <2>2
<1>4. TypeOK'
  BY <1>1, <1>2, <1>3 DEF CallInv, TypeOK
<1>5. CoolInv'
  BY <1>2 DEF CallInv, CoolInv
<1> QED
  BY <1>1, <1>3, <1>4, <1>5 DEF CallInv

LEMMA LeaveKeeps ==
  ASSUME CallInv, NEW c \in Calls, Leave(c)
  PROVE  CallInv'
<1>1. /\ phase[c] = "leaving" /\ phase' = [phase EXCEPT ![c] = "done"]
      /\ active' = active - 1 /\ immediates' = immediates + 1
      /\ UNCHANGED <<retries, queue, circuit, cooled, openSends, drains>>
  BY DEF Leave, clock
<1>2. "done" \in Phases /\ "done" \notin Holding /\ "leaving" \in Holding
  BY DEF Phases, Holding
<1>3. phase' \in [Calls -> Phases] /\ QueueOk(queue', phase')
  BY <1>1, <1>2, CallMoves DEF CallInv
<1>4. active' = Cardinality(Holders(phase')) /\ Cardinality(Holders(phase')) \in Nat
  <2>1. phase \in [Calls -> Phases] /\ phase[c] \in Holding
    BY <1>1, <1>2 DEF CallInv, TypeOK
  <2>2. Cardinality(Holders([phase EXCEPT ![c] = "done"])) = Cardinality(Holders(phase)) - 1
    BY <1>2, <2>1, HoldersChange
  <2>3. \A d \in Calls : Cardinality(Holders(phase')) \in Nat
    BY <1>2, <1>3, HoldersChange
  <2> QED
    BY <1>1, <2>2, <2>3 DEF CallInv
<1>5. TypeOK'
  BY <1>1, <1>3, <1>4, ResilienceAssumption DEF CallInv, TypeOK
<1>6. WakeupPending'
  <2> SUFFICES ASSUME NEW k \in 1..Len(queue), active - 1 + k <= MaxConcurrent
               PROVE  k <= immediates + 1
    BY <1>1 DEF WakeupPending
  <2>1. CASE k = 1
    BY <2>1 DEF CallInv, TypeOK
  <2>2. CASE k # 1
    <3>1. k - 1 \in 1..Len(queue) /\ active + (k - 1) <= MaxConcurrent
      BY <2>2, ResilienceAssumption DEF CallInv, TypeOK
    <3>2. k - 1 <= immediates
      BY <3>1 DEF CallInv, WakeupPending
    <3> QED
      BY <3>2 DEF CallInv, TypeOK
  <2> QED
    BY <2>1, <2>2
<1>7. BackoffInv' /\ CoolInv'
  BY <1>1 DEF CallInv, TypeOK, BackoffInv, CoolInv
<1> QED
  BY <1>3, <1>4, <1>5, <1>6, <1>7 DEF CallInv

LEMMA QueueFullKeeps ==
  ASSUME CallInv, NEW c \in Calls, QueueFull(c)
  PROVE  CallInv'
<1>1. /\ phase[c] = "idle" /\ phase' = [phase EXCEPT ![c] = "done"]
      /\ UNCHANGED <<retries, queue, active, immediates, circuit, cooled, openSends, drains>>
  BY DEF QueueFull, bulkhead, clock
<1>2. "done" \in Phases /\ "done" \notin Holding /\ "idle" \notin Holding
  BY DEF Phases, Holding
<1>3. phase' \in [Calls -> Phases] /\ QueueOk(queue', phase')
  BY <1>1, <1>2, CallMoves DEF CallInv
<1>4. active' = Cardinality(Holders(phase'))
  BY <1>1, <1>2, HoldersChange DEF CallInv, TypeOK
<1>5. TypeOK'
  BY <1>1, <1>3 DEF CallInv, TypeOK
<1>6. BackoffInv' /\ CoolInv' /\ WakeupPending'
  BY <1>1 DEF CallInv, TypeOK, BackoffInv, CoolInv, WakeupPending
<1> QED
  BY <1>3, <1>4, <1>5, <1>6 DEF CallInv

\* The clock and the breaker's timer touch nothing but the circuit.
LEMMA ClockKeeps ==
  ASSUME CallInv, CoolDown \/ FailureAges \/ ResetTimer
  PROVE  CallInv'
<1>1. UNCHANGED <<phase, retries, queue, active, immediates, openSends, drains>>
  BY DEF CoolDown, FailureAges, ResetTimer, bulkhead, clock
<1>2. circuit \in Circuit /\ cooled \in BOOLEAN
  BY DEF CallInv, TypeOK
<1>3. circuit' \in Circuit /\ cooled' \in BOOLEAN /\ CoolInv'
  <2>1. CASE CoolDown
    <3> DEFINE m == IF circuit.timer = "armed" THEN "due" ELSE circuit.timer
    <3>1. m \in {"off", "armed", "due"}
      BY <1>2 DEF Circuit
    <3>2. [circuit EXCEPT !.timer = m] \in Circuit
      BY <1>2, <3>1, SetField
    <3> QED
      BY <2>1, <3>2 DEF CoolDown, CoolInv
  <2>2. CASE FailureAges
    <3>1. [circuit EXCEPT !.elapsed = TRUE] \in Circuit
      BY <1>2, SetField
    <3> QED
      BY <1>2, <2>2, <3>1 DEF FailureAges, CoolInv, clock
  <2>3. CASE ResetTimer
    <3>1. [circuit EXCEPT !.timer = "off"] \in Circuit
      BY <1>2, SetField
    <3>2. HalfOpened([circuit EXCEPT !.timer = "off"]) \in Circuit
      BY <3>1, CircuitTransitions
    <3>3. cooled
      BY <2>3 DEF ResetTimer, CallInv, CoolInv, Waits
    <3> QED
      BY <1>2, <2>3, <3>1, <3>2, <3>3 DEF ResetTimer, CoolInv, clock
  <2> QED
    BY <2>1, <2>2, <2>3
<1>4. TypeOK'
  BY <1>1, <1>3 DEF CallInv, TypeOK
<1>5. /\ BackoffInv' /\ WakeupPending' /\ QueueOk(queue', phase')
      /\ active' = Cardinality(Holders(phase'))
  BY <1>1 DEF CallInv, BackoffInv, WakeupPending
<1> QED
  BY <1>3, <1>4, <1>5 DEF CallInv

LEMMA DrainKeeps ==
  ASSUME CallInv, Drain
  PROVE  CallInv'
<1>1. /\ drains < MaxDrains /\ drains' = drains + 1 /\ queue' = <<>>
      /\ phase' = [c \in Calls |-> IF phase[c] = "queued" THEN "done" ELSE phase[c]]
      /\ circuit' \in {circuit, NewCircuit}
      /\ UNCHANGED <<retries, active, immediates, cooled, openSends>>
  BY DEF Drain, clock
<1>2. circuit \in Circuit
  BY DEF CallInv, TypeOK
<1>3. circuit' \in Circuit
  BY <1>1, <1>2, CircuitTypes
<1>4. phase' \in [Calls -> Phases] /\ Holders(phase') = Holders(phase)
  BY <1>1 DEF CallInv, TypeOK, Phases, Holders, Holding
<1>5. TypeOK'
  BY <1>1, <1>3, <1>4, ResilienceAssumption DEF CallInv, TypeOK
<1>6. QueueOk(queue', phase') /\ WakeupPending'
  BY <1>1 DEF QueueOk, WakeupPending
<1>7. active' = Cardinality(Holders(phase'))
  BY <1>1, <1>4 DEF CallInv
<1>8. BackoffInv'
  BY <1>1 DEF CallInv, BackoffInv
<1>9. CoolInv'
  BY <1>1 DEF CallInv, CoolInv, Waits, NewCircuit
<1> QED
  BY <1>5, <1>6, <1>7, <1>8, <1>9 DEF CallInv

LEMMA CallStep == CallInv /\ [Next]_vars => CallInv'
<1> SUFFICES ASSUME CallInv, [Next]_vars
             PROVE  CallInv'
  OBVIOUS
<1>1. ASSUME NEW c \in Calls, QueueFull(c) PROVE CallInv'
  BY <1>1, QueueFullKeeps
<1>2. ASSUME NEW c \in Calls, Submit(c) PROVE CallInv'
  BY <1>2, SubmitKeeps
<1>3. ASSUME NEW c \in Calls, Succeed(c) PROVE CallInv'
  BY <1>3, SucceedKeeps
<1>4. ASSUME NEW c \in Calls, BackOff(c) \/ Retry(c) PROVE CallInv'
  BY <1>4, BackOffKeeps
<1>5. ASSUME NEW c \in Calls, GiveUp(c) PROVE CallInv'
  BY <1>5, GiveUpKeeps
<1>6. ASSUME NEW c \in Calls, Leave(c) PROVE CallInv'
  BY <1>6, LeaveKeeps
<1>7. CASE RunImmediate
  BY <1>7, RunImmediateKeeps
<1>8. CASE CoolDown \/ FailureAges \/ ResetTimer
  BY <1>8, ClockKeeps
<1>9. CASE Drain
  BY <1>9, DrainKeeps
<1>10. CASE UNCHANGED vars
  BY <1>10 DEF vars, bulkhead, clock, CallInv, TypeOK, BackoffInv, QueueOk, WakeupPending, CoolInv
<1> QED
  BY <1>1, <1>2, <1>3, <1>4, <1>5, <1>6, <1>7, <1>8, <1>9, <1>10 DEF Next

LEMMA CallInvariant == Spec => []CallInv
BY CallInit, CallStep, PTL DEF Spec

(***************************************************************************)
(* The requests still to come while the circuit is open.                   *)
(***************************************************************************)
LEMMA UnsentFinite ==
  ASSUME NEW ph, NEW rt
  PROVE  IsFiniteSet(Unsent(ph, rt)) /\ Cardinality(Unsent(ph, rt)) \in Nat
<1>1. IsFiniteSet(Calls \X (1..MaxRetries))
  <2>1. IsFiniteSet(Calls) /\ IsFiniteSet(1..MaxRetries)
    BY ResilienceAssumption, FS_Interval
  <2> QED
    BY <2>1, FS_Product
<1>2. Unsent(ph, rt) \in SUBSET (Calls \X (1..MaxRetries))
  BY DEF Unsent
<1> QED
  BY <1>1, <1>2, FS_Subset, FS_CardinalityType

\* Fewer calls with requests left, fewer requests left.
LEMMA UnsentShrinks ==
  ASSUME NEW ph, NEW ph2, NEW rt,
         \A d \in Calls : ph2[d] \in {"sent", "backoff"} => ph[d] \in {"sent", "backoff"}
  PROVE  Cardinality(Unsent(ph2, rt)) <= Cardinality(Unsent(ph, rt))
<1>1. Unsent(ph2, rt) \in SUBSET Unsent(ph, rt)
  BY DEF Unsent
<1> QED
  BY <1>1, UnsentFinite, FS_Subset

\* The calls of S have MaxRetries requests left each at most.
LEMMA UnsentOfFew ==
  ASSUME NEW ph, NEW rt, NEW S \in SUBSET Calls, NEW n \in Nat, Cardinality(S) <= n,
         \A d \in Calls : ph[d] \in {"sent", "backoff"} => d \in S
  PROVE  Cardinality(Unsent(ph, rt)) <= n * MaxRetries
<1>1. IsFiniteSet(S) /\ Cardinality(S) \in Nat
  BY ResilienceAssumption, FS_Subset, FS_CardinalityType
<1>2. IsFiniteSet(1..MaxRetries) /\ Cardinality(1..MaxRetries) = MaxRetries
  BY ResilienceAssumption, FS_Interval
<1>3. /\ IsFiniteSet(S \X (1..MaxRetries))
      /\ Cardinality(S \X (1..MaxRetries)) = Cardinality(S) * MaxRetries
  BY <1>1, <1>2, FS_Product
<1>4. Unsent(ph, rt) \in SUBSET (S \X (1..MaxRetries))
  BY DEF Unsent
<1>5. Cardinality(Unsent(ph, rt)) <= Cardinality(S) * MaxRetries
  BY <1>3, <1>4, FS_Subset
<1>6. Cardinality(S) * MaxRetries <= n * MaxRetries
  BY <1>1, ResilienceAssumption
<1> QED
  BY <1>1, <1>5, <1>6, UnsentFinite, ResilienceAssumption

\* An open circuit that admits a call is no longer open.
LEMMA AdmittedNotOpen ==
  ASSUME NEW c \in Circuit, CanExecute(c).state = "OPEN"
  PROVE  c.state = "OPEN" /\ ~Admits(c)
BY DEF CanExecute, Admits, HalfOpened, Circuit

\* A look at the queue while the circuit stays open sends nothing.
LEMMA LookSendsNothing ==
  ASSUME NEW q, NEW ph \in [Calls -> Phases], ProcessQueue(q, ph),
         circuit \in Circuit, circuit'.state = "OPEN"
  PROVE  /\ circuit.state = "OPEN"
         /\ \A d \in Calls : phase'[d] \in {"sent", "backoff"} => ph[d] \in {"sent", "backoff"}
<1>1. CASE active >= MaxConcurrent \/ q = <<>>
  BY <1>1 DEF ProcessQueue
<1>2. CASE ~(active >= MaxConcurrent \/ q = <<>>)
  <2>1. circuit.state = "OPEN" /\ ~Admits(circuit)
    BY <1>2, AdmittedNotOpen DEF ProcessQueue
  <2>2. phase' = [ph EXCEPT ![Head(q)] = "leaving"]
    BY <1>2, <2>1 DEF ProcessQueue
  <2> QED
    BY <2>1, <2>2
<1> QED
  BY <1>1, <1>2

\* A step after which nothing more was sent, and no call has more to send.
LEMMA SendsStay ==
  ASSUME TypeOK, SendsInv, UNCHANGED <<retries, openSends>>,
         circuit'.state = "OPEN" =>
           /\ circuit.state = "OPEN"
           /\ \A d \in Calls : phase'[d] \in {"sent", "backoff"} => phase[d] \in {"sent", "backoff"}
  PROVE  SendsInv'
<1>1. OpenSendsBounded'
  BY DEF SendsInv, OpenSendsBounded
<1>2. ASSUME circuit'.state = "OPEN"
      PROVE  openSends + Cardinality(Unsent(phase', retries)) <= (MaxConcurrent - 1) * MaxRetries
  <2>1. openSends + Cardinality(Unsent(phase, retries)) <= (MaxConcurrent - 1) * MaxRetries
    BY <1>2 DEF SendsInv
  <2>2. Cardinality(Unsent(phase', retries)) <= Cardinality(Unsent(phase, retries))
    BY <1>2, UnsentShrinks
  <2>3. openSends \in Nat /\ (MaxConcurrent - 1) * MaxRetries \in Int
    BY ResilienceAssumption DEF TypeOK
  <2> QED
    BY <2>1, <2>2, <2>3, UnsentFinite
<1> QED
  BY <1>1, <1>2 DEF SendsInv

\* Another request of a call: one fewer to come.
LEMMA RetrySends ==
  ASSUME CallInv, SendsInv, NEW c \in Calls, Retry(c)
  PROVE  SendsInv'
<1> DEFINE t == <<c, retries[c] + 1>>
<1>1. /\ phase[c] = "backoff" /\ phase' = [phase EXCEPT ![c] = "sent"]
      /\ retries' = [retries EXCEPT ![c] = retries[c] + 1] /\ circuit' = circuit
      /\ openSends' = IF circuit.state = "OPEN" THEN openSends + 1 ELSE openSends
  BY DEF Retry
<1>2. CASE circuit.state # "OPEN"
  BY <1>1, <1>2 DEF SendsInv, OpenSendsBounded
<1>3. CASE circuit.state = "OPEN"
  <2>1. retries[c] \in Nat /\ retries[c] + 1 \in 1..MaxRetries
    BY <1>1, ResilienceAssumption DEF CallInv, TypeOK, BackoffInv
  <2>2. t \in Unsent(phase, retries)
    BY <1>1, <2>1 DEF Unsent
  <2>3. Unsent(phase', retries') \subseteq Unsent(phase, retries) \ {t}
    <3> SUFFICES ASSUME NEW u \in Unsent(phase', retries')
                 PROVE  u \in Unsent(phase, retries) /\ u # t
      OBVIOUS
    <3>1. /\ u \in Calls \X (1..MaxRetries) /\ u[1] \in Calls /\ u[2] \in 1..MaxRetries
          /\ phase'[u[1]] \in {"sent", "backoff"} /\ retries'[u[1]] < u[2]
      BY DEF Unsent
    <3>2. CASE u[1] = c
      <4>1. retries[c] + 1 < u[2]
        BY <1>1, <3>1, <3>2 DEF CallInv, TypeOK
      <4> QED
        BY <1>1, <2>1, <3>1, <3>2, <4>1 DEF Unsent
    <3>3. CASE u[1] # c
      BY <1>1, <3>1, <3>3 DEF Unsent, CallInv, TypeOK
    <3> QED
      BY <3>2, <3>3
  <2>4. /\ IsFiniteSet(Unsent(phase, retries) \ {t})
        /\ Cardinality(Unsent(phase, retries) \ {t}) = Cardinality(Unsent(phase, retries)) - 1
    BY <2>2, UnsentFinite, FS_RemoveElement
  <2>5. Cardinality(Unsent(phase', retries')) <= Cardinality(Unsent(phase, retries)) - 1
    BY <2>3, <2>4, FS_Subset
  <2>6. openSends + Cardinality(Unsent(phase, retries)) <= (MaxConcurrent - 1) * MaxRetries
    BY <1>3 DEF SendsInv
  <2>7. /\ openSends \in Nat /\ (MaxConcurrent - 1) * MaxRetries \in Int
        /\ Cardinality(Unsent(phase, retries)) \in Nat
        /\ Cardinality(Unsent(phase', retries')) \in Nat
    BY UnsentFinite, ResilienceAssumption DEF CallInv, TypeOK
  <2>8. openSends' + Cardinality(Unsent(phase', retries')) <= (MaxConcurrent - 1) * MaxRetries
    BY <1>1, <1>3, <2>5, <2>6, <2>7
  <2>9. OpenSendsBounded'
    BY <1>1, <1>3, <2>7, <2>8 DEF OpenSendsBounded
  <2> QED
    BY <2>8, <2>9 DEF SendsInv
<1> QED
  BY <1>2, <1>3

\* The call that opens the circuit leaves: the others hold MaxConcurrent - 1 slots.
LEMMA GiveUpSends ==
  ASSUME CallInv, SendsInv, NEW c \in Calls, GiveUp(c)
  PROVE  SendsInv'
<1>1. /\ phase[c] = "sent" /\ phase' = [phase EXCEPT ![c] = "leaving"]
      /\ circuit' = RecordFailure(circuit) /\ retries' = retries
  BY DEF GiveUp
<1>2. CASE Trips(circuit)
  <2>1. openSends' = 0
    BY <1>2 DEF GiveUp
  <2>2. /\ Holders(phase) \ {c} \in SUBSET Calls
        /\ Cardinality(Holders(phase) \ {c}) = Cardinality(Holders(phase)) - 1
        /\ Cardinality(Holders(phase)) \in Nat
    <3>1. Holders(phase) \in SUBSET Calls /\ c \in Holders(phase)
      BY <1>1 DEF Holders, Holding
    <3>2. IsFiniteSet(Holders(phase)) /\ Cardinality(Holders(phase)) \in Nat
      BY <3>1, ResilienceAssumption, FS_Subset, FS_CardinalityType
    <3> QED
      BY <3>1, <3>2, FS_RemoveElement
  <2>3. MaxConcurrent - 1 \in Nat /\ Cardinality(Holders(phase) \ {c}) <= MaxConcurrent - 1
    BY <2>2, ResilienceAssumption DEF CallInv, TypeOK
  <2>4. \A d \in Calls : phase'[d] \in {"sent", "backoff"} => d \in Holders(phase) \ {c}
    BY <1>1 DEF CallInv, TypeOK, Holders, Holding
  <2>5. Cardinality(Unsent(phase', retries')) <= (MaxConcurrent - 1) * MaxRetries
    BY <2>2, <2>3, <2>4, UnsentOfFew
  <2>6. /\ Cardinality(Unsent(phase', retries')) \in Nat /\ (MaxConcurrent - 1) * MaxRetries \in Int
    BY UnsentFinite, ResilienceAssumption
  <2> QED
    BY <2>1, <2>5, <2>6 DEF SendsInv, OpenSendsBounded
<1>3. CASE ~Trips(circuit)
  <2>1. openSends' = openSends /\ circuit'.state = circuit.state
    BY <1>1, <1>3, CircuitTransitions DEF GiveUp, clock, RecordFailure, CallInv, TypeOK
  <2>2. \A d \in Calls : phase'[d] \in {"sent", "backoff"} => phase[d] \in {"sent", "backoff"}
    BY <1>1 DEF CallInv, TypeOK
  <2> QED
    BY <1>1, <2>1, <2>2, SendsStay DEF CallInv
<1> QED
  BY <1>2, <1>3

\* The other steps of a call send no request while the circuit stays open.
LEMMA CallSends ==
  ASSUME CallInv, SendsInv, NEW c \in Calls,
         QueueFull(c) \/ Submit(c) \/ Succeed(c) \/ BackOff(c) \/ Leave(c)
  PROVE  SendsInv'
<1>1. UNCHANGED <<retries, openSends>>
  BY DEF QueueFull, Submit, Succeed, BackOff, Leave, clock
<1>2. circuit \in Circuit /\ phase \in [Calls -> Phases]
  BY DEF CallInv, TypeOK
<1>3. ASSUME circuit'.state = "OPEN"
      PROVE  /\ circuit.state = "OPEN"
             /\ \A d \in Calls : phase'[d] \in {"sent", "backoff"} => phase[d] \in {"sent", "backoff"}
  <2>1. CASE QueueFull(c)
    BY <1>2, <1>3, <2>1 DEF QueueFull
  <2>2. CASE Submit(c)
    <3> DEFINE ph == [phase EXCEPT ![c] = "queued"]
    <3>1. ph \in [Calls -> Phases] /\ ProcessQueue(Append(queue, c), ph)
      BY <1>2, <2>2 DEF Phases, Submit
    <3>2. \A d \in Calls : ph[d] \in {"sent", "backoff"} => phase[d] \in {"sent", "backoff"}
      BY <1>2
    <3> HIDE DEF ph
    <3> QED
      BY <1>2, <1>3, <3>1, <3>2, LookSendsNothing
  <2>3. CASE Succeed(c)
    BY <1>2, <1>3, <2>3 DEF Succeed, RecordSuccess, Closed, Circuit
  <2>4. CASE BackOff(c) \/ Leave(c)
    BY <1>2, <1>3, <2>4 DEF BackOff, Leave
  <2> QED
    BY <2>1, <2>2, <2>3, <2>4
<1> QED
  BY <1>1, <1>3, SendsStay DEF CallInv

\* Nor do the callbacks, the clock and the drains.
LEMMA CallbackSends ==
  ASSUME CallInv, SendsInv,
         RunImmediate \/ CoolDown \/ FailureAges \/ ResetTimer \/ Drain \/ UNCHANGED vars
  PROVE  SendsInv'
<1>1. UNCHANGED <<retries, openSends>>
  BY DEF RunImmediate, CoolDown, FailureAges, ResetTimer, Drain, vars, clock
<1>2. circuit \in Circuit /\ phase \in [Calls -> Phases]
  BY DEF CallInv, TypeOK
<1>3. ASSUME circuit'.state = "OPEN"
      PROVE  /\ circuit.state = "OPEN"
             /\ \A d \in Calls : phase'[d] \in {"sent", "backoff"} => phase[d] \in {"sent", "backoff"}
  <2>1. CASE RunImmediate
    BY <1>2, <1>3, <2>1, LookSendsNothing DEF RunImmediate
  <2>2. CASE CoolDown \/ FailureAges
    BY <1>2, <1>3, <2>2 DEF CoolDown, FailureAges, Circuit
  <2>3. CASE ResetTimer
    BY <1>2, <1>3, <2>3 DEF ResetTimer, HalfOpened, Circuit
  <2>4. CASE Drain
    BY <1>2, <1>3, <2>4 DEF Drain, NewCircuit
  <2>5. CASE UNCHANGED vars
    BY <1>3, <2>5 DEF vars
  <2> QED
    BY <2>1, <2>2, <2>3, <2>4, <2>5
<1> QED
  BY <1>1, <1>3, SendsStay DEF CallInv

LEMMA SendsStep == CallInv /\ SendsInv /\ [Next]_vars => SendsInv'
<1> SUFFICES ASSUME CallInv, SendsInv, [Next]_vars
             PROVE  SendsInv'
  OBVIOUS
<1>1. ASSUME NEW c \in Calls, QueueFull(c) \/ Submit(c) \/ Succeed(c) \/ BackOff(c) \/ Leave(c)
      PROVE  SendsInv'
  BY <1>1, CallSends
<1>2. ASSUME NEW c \in Calls, Retry(c) PROVE SendsInv'
  BY <1>2, RetrySends
<1>3. ASSUME NEW c \in Calls, GiveUp(c) PROVE SendsInv'
  BY <1>3, GiveUpSends
<1>4. CASE RunImmediate \/ CoolDown \/ FailureAges \/ ResetTimer \/ Drain \/ UNCHANGED vars
  BY <1>4, CallbackSends
<1> QED
  BY <1>1, <1>2, <1>3, <1>4 DEF Next

LEMMA SendsInit == Init => SendsInv
<1>1. 0 <= (MaxConcurrent - 1) * MaxRetries
  BY ResilienceAssumption
<1> QED
  BY <1>1 DEF Init, NewCircuit, SendsInv, OpenSendsBounded

(***************************************************************************)
(* The theorems.                                                           *)
(***************************************************************************)
\* A slot is counted exactly while a call holds it, for any number of calls.
THEOREM SlotsKept == Spec => [](TypeOK /\ SlotsAccounted)
<1>1. CallInv => TypeOK /\ SlotsAccounted
  BY DEF CallInv, SlotsAccounted, Holders
<1> QED
  BY <1>1, CallInvariant, PTL

\* No wakeup is lost: enough looks are scheduled for the slots that are free.
THEOREM WakeupsKept == Spec => []WakeupPending
<1>1. CallInv => WakeupPending
  BY DEF CallInv
<1> QED
  BY <1>1, CallInvariant, PTL

\* Neither a timer nor a call half opens the circuit before its time.
THEOREM CoolingKept == Spec => []HalfOpenAfterCooling
<1>1. CallInv => HalfOpenAfterCooling
  BY DEF CallInv, CoolInv, Waits, HalfOpenAfterCooling
<1> QED
  BY <1>1, CallInvariant, PTL
\* What a provider still receives after the circuit has opened is bounded by the
\* slots and the retries, however many calls come and however often it opens.
THEOREM OpenSendsKept == Spec => []OpenSendsBounded
<1>1. SendsInv => OpenSendsBounded
  BY DEF SendsInv
<1> QED
  BY <1>1, CallInvariant, SendsInit, SendsStep, PTL DEF Spec
=============================================================================
