---------------------------- MODULE ResilientCall ----------------------------
(***************************************************************************)
(* One ApiResilienceWrapper (lib/resilience/circuit-breaker.ts): calls to  *)
(* a provider pass a bulkhead (a queue and MaxConcurrent slots), a circuit *)
(* breaker, then retries of a request bounded in time.                     *)
(*                                                                         *)
(* An action is one turn of the event loop, or the microtasks of one call. *)
(* A request that times out and one that is refused fail alike.  Time is   *)
(* kept to what the breaker compares: whether resetTimeoutMs have passed   *)
(* since the circuit opened and since its last failure.  failureCount is   *)
(* kept up to FailureThreshold; the other counters only feed the metrics.  *)
(***************************************************************************)
EXTENDS Integers, Sequences, FiniteSets

CONSTANTS
  Calls,               \* calls of execute()
  MaxConcurrent,       \* slots of the bulkhead
  MaxQueueSize,        \* capacity of its queue
  FailureThreshold,    \* failures that open the circuit
  HalfOpenMaxAttempts, \* successes that close it again
  MaxRetries,          \* requests of a call after its first
  MaxDrains            \* bound: reset() and drain() calls

ASSUME ResilienceAssumption ==
  /\ IsFiniteSet(Calls)
  /\ MaxConcurrent \in Nat \ {0}
  /\ FailureThreshold \in Nat \ {0}
  /\ HalfOpenMaxAttempts \in Nat \ {0}
  /\ MaxQueueSize \in Nat /\ MaxRetries \in Nat /\ MaxDrains \in Nat

VARIABLES
  phase,      \* call -> idle, queued, sent, backoff, leaving or done
  retries,    \* call -> requests sent after its first
  queue,      \* calls waiting for a slot
  active,     \* activeConcurrent
  immediates, \* setImmediate(processQueue) callbacks not yet run
  circuit,    \* state, failureCount, halfOpenAttempts, resetTimer, and whether
              \* resetTimeoutMs have passed since lastFailureTime
  cooled,     \* resetTimeoutMs have passed since the circuit last opened
  openSends,  \* history: requests sent since it opened while it was open
  drains      \* how many of MaxDrains have happened

bulkhead == <<queue, active, immediates>>
clock    == <<cooled, openSends>>
vars     == <<phase, retries, bulkhead, circuit, clock, drains>>

Phases  == {"idle", "queued", "sent", "backoff", "leaving", "done"}
Holding == {"sent", "backoff", "leaving"}
Circuit == [state : {"CLOSED", "OPEN", "HALF_OPEN"}, failures : 0..FailureThreshold,
            probes : 0..HalfOpenMaxAttempts, timer : {"off", "armed", "due"}, elapsed : BOOLEAN]

-----------------------------------------------------------------------------
\* The circuit breaker, as functions of its state.
NewCircuit ==
  [state |-> "CLOSED", failures |-> 0, probes |-> 0, timer |-> "off", elapsed |-> FALSE]

\* Mutant of Opened: an earlier timer that is about to run is not cancelled.
OpenedKeepsTimer(c) ==
  [c EXCEPT !.state = "OPEN", !.probes = 0, !.timer = IF @ = "due" THEN @ ELSE "armed"]

Opened(c)     == [c EXCEPT !.state = "OPEN", !.probes = 0, !.timer = "armed"]
HalfOpened(c) == [c EXCEPT !.state = "HALF_OPEN", !.probes = 0]
Closed(c)     == [c EXCEPT !.state = "CLOSED", !.probes = 0, !.failures = 0, !.timer = "off"]

RecordSuccess(c) ==
  CASE c.state = "OPEN" -> c
    [] c.state = "CLOSED" -> [c EXCEPT !.failures = 0]
    [] c.state = "HALF_OPEN" ->
         IF c.probes + 1 >= HalfOpenMaxAttempts THEN Closed(c) ELSE [c EXCEPT !.probes = @ + 1]

Trips(c) == \/ c.state = "HALF_OPEN"
            \/ c.state = "CLOSED" /\ c.failures + 1 >= FailureThreshold

CountFailure(c) ==
  [c EXCEPT !.failures = IF @ < FailureThreshold THEN @ + 1 ELSE @, !.elapsed = FALSE]

RecordFailure(c) == IF Trips(c) THEN Opened(CountFailure(c)) ELSE CountFailure(c)

\* canExecute: what it leaves the circuit in, and whether the call may go on.
CanExecute(c) == IF c.state = "OPEN" /\ c.elapsed THEN HalfOpened(c) ELSE c

\* Mutant of Admits: an open circuit turns nobody away.
AdmitsAlways(c) == TRUE
Admits(c)     == CanExecute(c).state # "OPEN"

-----------------------------------------------------------------------------
Init ==
  /\ phase = [c \in Calls |-> "idle"]
  /\ retries = [c \in Calls |-> 0]
  /\ queue = <<>>
  /\ active = 0
  /\ immediates = 0
  /\ circuit = NewCircuit
  /\ cooled = TRUE
  /\ openSends = 0
  /\ drains = 0

\* processQueue on queue q: the oldest task takes a free slot, and the breaker
\* sends its first request or turns it away.
ProcessQueue(q, ph) ==
  IF active >= MaxConcurrent \/ q = <<>>
  THEN /\ queue' = q
       /\ phase' = ph
       /\ UNCHANGED <<active, circuit>>
  ELSE /\ queue' = Tail(q)
       /\ active' = active + 1
       /\ circuit' = CanExecute(circuit)
       /\ phase' = [ph EXCEPT ![Head(q)] = IF Admits(circuit) THEN "sent" ELSE "leaving"]

QueueFull(c) ==
  /\ phase[c] = "idle"
  /\ Len(queue) >= MaxQueueSize
  /\ phase' = [phase EXCEPT ![c] = "done"]
  /\ UNCHANGED <<retries, bulkhead, circuit, clock, drains>>

Submit(c) ==
  /\ phase[c] = "idle"
  /\ Len(queue) < MaxQueueSize
  /\ ProcessQueue(Append(queue, c), [phase EXCEPT ![c] = "queued"])
  /\ UNCHANGED <<retries, immediates, clock, drains>>

RunImmediate ==
  /\ immediates > 0
  /\ immediates' = immediates - 1
  /\ ProcessQueue(queue, phase)
  /\ UNCHANGED <<retries, clock, drains>>

Succeed(c) ==
  /\ phase[c] = "sent"
  /\ phase' = [phase EXCEPT ![c] = "leaving"]
  /\ circuit' = RecordSuccess(circuit)
  /\ UNCHANGED <<retries, bulkhead, clock, drains>>

\* A request fails or times out with retries left: the breaker is not told.
BackOff(c) ==
  /\ phase[c] = "sent"
  /\ retries[c] < MaxRetries
  /\ phase' = [phase EXCEPT ![c] = "backoff"]
  /\ UNCHANGED <<retries, bulkhead, circuit, clock, drains>>

\* The next request of a call is sent whatever the circuit's state has become.
Retry(c) ==
  /\ phase[c] = "backoff"
  /\ phase' = [phase EXCEPT ![c] = "sent"]
  /\ retries' = [retries EXCEPT ![c] = @ + 1]
  /\ openSends' = IF circuit.state = "OPEN" THEN openSends + 1 ELSE openSends
  /\ UNCHANGED <<bulkhead, circuit, cooled, drains>>

GiveUp(c) ==
  /\ phase[c] = "sent"
  /\ retries[c] = MaxRetries
  /\ phase' = [phase EXCEPT ![c] = "leaving"]
  /\ circuit' = RecordFailure(circuit)
  /\ IF Trips(circuit) THEN cooled' = FALSE /\ openSends' = 0 ELSE UNCHANGED clock
  /\ UNCHANGED <<retries, bulkhead, drains>>

\* Mutant of Leave: the next look at the queue is left to the next call.
LeaveSilently(c) ==
  /\ phase[c] = "leaving"
  /\ phase' = [phase EXCEPT ![c] = "done"]
  /\ active' = active - 1
  /\ UNCHANGED <<retries, queue, immediates, circuit, clock, drains>>

\* The task settles, its slot is free and another look at the queue is scheduled.
Leave(c) ==
  /\ phase[c] = "leaving"
  /\ phase' = [phase EXCEPT ![c] = "done"]
  /\ active' = active - 1
  /\ immediates' = immediates + 1
  /\ UNCHANGED <<retries, queue, circuit, clock, drains>>

-----------------------------------------------------------------------------
\* resetTimeoutMs after the opening, and after the last failure.
CoolDown ==
  /\ ~cooled
  /\ cooled' = TRUE
  /\ circuit' = [circuit EXCEPT !.timer = IF @ = "armed" THEN "due" ELSE @]
  /\ UNCHANGED <<phase, retries, bulkhead, openSends, drains>>

FailureAges ==
  /\ circuit.state = "OPEN" /\ cooled /\ ~circuit.elapsed
  /\ circuit' = [circuit EXCEPT !.elapsed = TRUE]
  /\ UNCHANGED <<phase, retries, bulkhead, clock, drains>>

\* Mutant of ResetTimer: the timer only clears itself, the next call must look.
ResetTimerIdle ==
  /\ circuit.timer = "due"
  /\ circuit' = [circuit EXCEPT !.timer = "off"]
  /\ UNCHANGED <<phase, retries, bulkhead, clock, drains>>

ResetTimer ==
  /\ circuit.timer = "due"
  /\ LET fired == [circuit EXCEPT !.timer = "off"]
     IN  circuit' = IF circuit.state = "OPEN" THEN HalfOpened(fired) ELSE fired
  /\ UNCHANGED <<phase, retries, bulkhead, clock, drains>>

\* Mutants of Drain: the slots are freed under the calls that hold them; what is
\* queued is dropped without being rejected.
DrainFreesSlots ==
  /\ drains < MaxDrains
  /\ drains' = drains + 1
  /\ queue' = <<>>
  /\ active' = 0
  /\ phase' = [c \in Calls |-> IF phase[c] = "queued" THEN "done" ELSE phase[c]]
  /\ circuit' \in {circuit, NewCircuit}
  /\ UNCHANGED <<retries, immediates, clock>>
DrainForgets ==
  /\ drains < MaxDrains
  /\ drains' = drains + 1
  /\ queue' = <<>>
  /\ circuit' \in {circuit, NewCircuit}
  /\ UNCHANGED <<phase, retries, active, immediates, clock>>

\* drain() rejects what is queued; what holds a slot goes on.
Drain ==
  /\ drains < MaxDrains
  /\ drains' = drains + 1
  /\ queue' = <<>>
  /\ phase' = [c \in Calls |-> IF phase[c] = "queued" THEN "done" ELSE phase[c]]
  /\ circuit' \in {circuit, NewCircuit}  \* drain(), or reset() that also resets the breaker
  /\ UNCHANGED <<retries, active, immediates, clock>>

-----------------------------------------------------------------------------
Next ==
  \/ \E c \in Calls : \/ QueueFull(c) \/ Submit(c) \/ Succeed(c) \/ BackOff(c)
                      \/ Retry(c) \/ GiveUp(c) \/ Leave(c)
  \/ RunImmediate
  \/ CoolDown \/ FailureAges \/ ResetTimer
  \/ Drain

\* The event loop runs what is scheduled, and a request is answered or times out.
Fairness ==
  /\ \A c \in Calls : /\ WF_vars(Retry(c))
                      /\ WF_vars(Leave(c))
                      /\ WF_vars(Succeed(c) \/ BackOff(c) \/ GiveUp(c))
  /\ WF_vars(RunImmediate)
  /\ WF_vars(CoolDown)
  /\ WF_vars(ResetTimer)

Spec == Init /\ [][Next]_vars /\ Fairness
-----------------------------------------------------------------------------
TypeOK ==
  /\ phase \in [Calls -> Phases]
  /\ retries \in [Calls -> 0..MaxRetries]
  /\ queue \in Seq(Calls) /\ Len(queue) <= MaxQueueSize
  /\ active \in 0..MaxConcurrent
  /\ immediates \in Nat
  /\ circuit \in Circuit
  /\ cooled \in BOOLEAN
  /\ openSends \in Nat
  /\ drains \in 0..MaxDrains

\* The bulkhead's counter is the number of calls that hold a slot, however a
\* call leaves (refused by the breaker, exhausted, answered) and across drains.
SlotsAccounted == active = Cardinality({c \in Calls : phase[c] \in Holding})

\* No lost wakeup: for every task that could take a free slot now, a callback
\* that will look at the queue is scheduled.
WakeupPending ==
  \A k \in 1..Len(queue) : active + k <= MaxConcurrent => k <= immediates

\* The circuit is only half open once resetTimeoutMs have passed since it last
\* opened: no timer of an earlier opening shortens the wait.
HalfOpenAfterCooling == circuit.state = "HALF_OPEN" => cooled

\* What the provider still receives while the circuit is open are the retries of
\* calls admitted before: the call that opened it has none left, every other
\* slot has MaxRetries at most.
OpenSendsBounded == openSends <= (MaxConcurrent - 1) * MaxRetries

\* A call that was queued settles: it is answered, fails or is drained.
EventuallySettled == \A c \in Calls : phase[c] = "queued" ~> phase[c] = "done"

\* An open circuit does not stay open, even if nobody calls any more.
EventuallyProbes == circuit.state = "OPEN" ~> circuit.state # "OPEN"

=============================================================================
