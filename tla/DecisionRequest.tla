--------------------------- MODULE DecisionRequest ---------------------------
(***************************************************************************)
(* A decision request from its arrival to its answer: routeDecisionHandler *)
(* (routes/ci.ts, "authorize"), the CloudEvents ingress (routes/events.ts, *)
(* "ingest") and the queue and lambda adapters (routes/adapters.ts,        *)
(* "adapter"), with the idempotency cache they share (lib/ci/idempotency). *)
(* Requests of several processes interleave at their awaits.               *)
(*                                                                         *)
(* A request computes at most one decision, whose frame is the request     *)
(* itself. `decisions` stands for the rows one transaction commits: the    *)
(* CIDecision, its trace (module TraceLedger) and its outbox rows (module  *)
(* DecisionOutbox). run_now, reroute, delay and throttle are "proceed".    *)
(***************************************************************************)
EXTENDS Integers, FiniteSets

CONSTANTS
  Requests,
  Procs,       \* server processes
  Keys,        \* cache keys: namespace, caller and idempotency key
  NoKey,       \* the request has no idempotency key
  None,
  Entry,       \* request -> "authorize", "ingest" or "adapter"
  Mode,        \* request -> its decisionMode
  Key,         \* request -> its cache key
  Proc,        \* request -> the process that serves it
  MaxArrivals, \* bound: requests that arrive
  MaxFaults,   \* bound: calls to Postgres, Redis or a provider that fail
  MaxCrashes,  \* bound: processes that die
  MaxExpiries  \* bound: cache entries that expire

Modes == {"runtime_authorization", "scenario_planning"}

ASSUME RequestAssumption ==
  /\ NoKey \notin Keys /\ None \notin Requests
  /\ Entry \in [Requests -> {"authorize", "ingest", "adapter"}]
  /\ Mode \in [Requests -> Modes]
  /\ Key \in [Requests -> Keys \cup {NoKey}]
  /\ \A r \in Requests : Entry[r] = "ingest" => Key[r] # NoKey
  /\ \A r \in Requests : Entry[r] = "adapter" => Key[r] = NoKey
  /\ \A r, s \in Requests : Key[r] = Key[s] /\ Key[r] # NoKey => Entry[r] = Entry[s]
  /\ Proc \in [Requests -> Procs]
  /\ {MaxArrivals, MaxFaults, MaxCrashes, MaxExpiries} \subseteq Nat

Codes ==  \* what policyTrace.reasonCodes says of persistence and audit
  {"", "PGL_AUDIT_RETRY_SCHEDULED", "PGL_AUDIT_UNAVAILABLE_DECISION_PERSISTED",
   "DB_PERSIST_FAILED_LOCAL_RESPONSE_ONLY"}
Response == [frame : Requests, action : {"proceed", "deny"}, code : Codes]
Fallback == [frame |-> None, action |-> "deny", code |-> ""]  \* the outer catch
Refusal  == [frame |-> None, action |-> "none", code |-> ""]  \* a 4xx or 5xx answer
NoEntry  == [frame |-> None]

VARIABLES
  pc,          \* request -> where its handler stands
  response,    \* request -> the response it has in hand, then its answer
  replayed,    \* requests that answer from the cache
  decisions,   \* frames in the database
  lifecycles,  \* frames in the governance ledger
  retries,     \* frames with a row in pgl.audit_retries
  memory,      \* process -> key -> the entry of its memoryStore
  redis,       \* key -> the entry in Redis
  faults, crashes, expiries,
  overlap,     \* history: pairs of requests of one key that were open together
  disturbed    \* history: keys whose entry a fault, a crash or its TTL took away

handler == <<pc, response, replayed>>
durable == <<decisions, lifecycles, retries>>
cache   == <<memory, redis>>
bounds  == <<faults, crashes, expiries>>
history == <<overlap, disturbed>>
vars    == <<handler, durable, cache, bounds, history>>

Init ==
  /\ pc = [r \in Requests |-> "new"]
  /\ response = [r \in Requests |-> Refusal]
  /\ replayed = {}
  /\ decisions = {}
  /\ lifecycles = {}
  /\ retries = {}
  /\ memory = [p \in Procs |-> [k \in Keys |-> NoEntry]]
  /\ redis = [k \in Keys |-> NoEntry]
  /\ faults = 0 /\ crashes = 0 /\ expiries = 0
  /\ overlap = {}
  /\ disturbed = {}

Fault == faults < MaxFaults /\ faults' = faults + 1 /\ UNCHANGED <<crashes, expiries>>
Open  == {"computing", "persisting", "auditing", "scheduling", "caching", "storing"}

Goto(r, p)   == pc' = [pc EXCEPT ![r] = p]
Answer(r, a) == Goto(r, "answered") /\ response' = [response EXCEPT ![r] = a]
Hold(r, a)   == response' = [response EXCEPT ![r] = a]
Mark(r, c)   == Hold(r, [response[r] EXCEPT !.code = c])
Disturb(r)   == disturbed' = disturbed \cup ({Key[r]} \ {NoKey})

\* An exception leaves the handler: authorize denies through its fallback, the
\* other entries answer 500.
Thrown(r) == IF Entry[r] = "authorize" THEN Fallback ELSE Refusal

-----------------------------------------------------------------------------
Arrives(r) == pc[r] = "new" /\ Cardinality({s \in Requests : pc[s] # "new"}) < MaxArrivals

\* The request is malformed, unsigned, without doctrine or not governable.
Refuse(r) ==
  /\ Arrives(r)
  /\ Answer(r, Refusal) \/ Answer(r, Thrown(r))
  /\ UNCHANGED <<replayed, durable, cache, bounds, history>>

\* The requests of r's key that have looked it up and have not yet stored it.
Rivals(r) == {s \in Requests : s # r /\ Key[s] = Key[r] /\ pc[s] \in Open}

\* readIdempotentResponse: Redis first, then, on a miss or an error, this
\* process's memory. A hit is answered, a miss computes.
Found(r, redisFails) ==
  IF redis[Key[r]] # NoEntry /\ ~redisFails THEN redis[Key[r]] ELSE memory[Proc[r]][Key[r]]

Lookup(r, redisFails) ==
  /\ Arrives(r) /\ Key[r] # NoKey
  /\ IF redisFails THEN Fault /\ Disturb(r) ELSE UNCHANGED <<bounds, disturbed>>
  /\ IF Found(r, redisFails) # NoEntry
     THEN /\ Goto(r, "replying")
          /\ Hold(r, Found(r, redisFails))
          /\ replayed' = replayed \cup {r}
          /\ UNCHANGED overlap
     ELSE /\ Goto(r, "computing")
          /\ overlap' = overlap \cup {{r, s} : s \in Rivals(r)}
          /\ UNCHANGED <<response, replayed>>
  /\ UNCHANGED <<durable, cache>>

NoLookup(r) ==
  /\ Arrives(r) /\ Key[r] = NoKey
  /\ Goto(r, "computing")
  /\ UNCHANGED <<response, replayed, durable, cache, bounds, history>>

\* Mutant of Compute: a request waits while another one of its key is open.
ComputeAlone(r) ==
  /\ pc[r] = "computing" /\ Rivals(r) = {}
  /\ Goto(r, "persisting")
  /\ \E a \in {"proceed", "deny"} : Hold(r, [frame |-> r, action |-> a, code |-> ""])
  /\ UNCHANGED <<replayed, durable, cache, bounds, history>>

\* createDecision
Compute(r) ==
  /\ pc[r] = "computing"
  /\ Goto(r, "persisting")
  /\ \E a \in {"proceed", "deny"} : Hold(r, [frame |-> r, action |-> a, code |-> ""])
  /\ UNCHANGED <<replayed, durable, cache, bounds, history>>

ComputeFails(r) ==
  /\ pc[r] = "computing"
  /\ Fault
  /\ Answer(r, Thrown(r))
  /\ UNCHANGED <<replayed, durable, cache, history>>

-----------------------------------------------------------------------------
\* Where a response goes once it is final.
Finished(r) == IF Key[r] = NoKey THEN "replying" ELSE "caching"

\* persistCiDecisionResult's transaction. Only authorize passes pglValidation, so
\* the other entries leave no lifecycle.
Persist(r) ==
  /\ pc[r] = "persisting"
  /\ decisions' = decisions \cup {r}
  /\ Goto(r, IF Entry[r] = "authorize" THEN "auditing" ELSE Finished(r))
  /\ UNCHANGED <<response, replayed, lifecycles, retries, cache, bounds, history>>

\* Mutant of Tolerated: no failure to persist stops an answer.
ToleratedAlways(r) == TRUE

\* It throws, though its commit may have been applied. Scenario planning answers
\* all the same; a runtime authorization, and the other entries, do not.
Tolerated(r) == Entry[r] = "authorize" /\ Mode[r] = "scenario_planning"

PersistFails(r) ==
  /\ pc[r] = "persisting"
  /\ Fault
  /\ \/ UNCHANGED <<decisions, disturbed>>
     \/ decisions' = decisions \cup {r} /\ Disturb(r)
  /\ IF Tolerated(r)
     THEN Mark(r, "DB_PERSIST_FAILED_LOCAL_RESPONSE_ONLY") /\ Goto(r, Finished(r))
     ELSE Answer(r, Thrown(r))
  /\ UNCHANGED <<replayed, lifecycles, retries, cache, overlap>>

\* persistPglDecisionLifecycle in a second transaction (module PglLedger).
Audit(r) ==
  /\ pc[r] = "auditing"
  /\ lifecycles' = lifecycles \cup {r}
  /\ Goto(r, Finished(r))
  /\ UNCHANGED <<response, replayed, decisions, retries, cache, bounds, history>>

\* Mutant of Unaudited: the reason code is left out.
UnauditedSilent(r) == Goto(r, Finished(r)) /\ UNCHANGED response

\* PglAuditError: the decision stands and the answer says so.
Unaudited(r) ==
  Mark(r, "PGL_AUDIT_UNAVAILABLE_DECISION_PERSISTED") /\ Goto(r, Finished(r))

AuditFails(r) ==
  /\ pc[r] = "auditing"
  /\ Fault
  /\ lifecycles' \in {lifecycles, lifecycles \cup {r}}
  /\ IF Mode[r] = "scenario_planning"
     THEN Goto(r, "scheduling") /\ UNCHANGED response
     ELSE Unaudited(r)
  /\ UNCHANGED <<replayed, decisions, retries, cache, history>>

\* enqueuePglDecisionAuditRetry (module PglAudit takes it from here).
Schedule(r) ==
  /\ pc[r] = "scheduling"
  /\ retries' = retries \cup {r}
  /\ Mark(r, "PGL_AUDIT_RETRY_SCHEDULED")
  /\ Goto(r, Finished(r))
  /\ UNCHANGED <<replayed, decisions, lifecycles, cache, bounds, history>>

ScheduleFails(r) ==
  /\ pc[r] = "scheduling"
  /\ Fault
  /\ retries' \in {retries, retries \cup {r}}
  /\ Unaudited(r)
  /\ UNCHANGED <<replayed, decisions, lifecycles, cache, history>>

-----------------------------------------------------------------------------
\* writeIdempotentResponse: this process's memory at once, then Redis.
Cache(r) ==
  /\ pc[r] = "caching"
  /\ memory' = [memory EXCEPT ![Proc[r]][Key[r]] = response[r]]
  /\ Goto(r, "storing")
  /\ UNCHANGED <<response, replayed, durable, redis, bounds, history>>

\* Mutant of Store: the entry stays in this process.
StoreNowhere(r) ==
  /\ pc[r] = "storing"
  /\ Goto(r, "replying")
  /\ UNCHANGED <<response, replayed, durable, cache, bounds, history>>

Store(r) ==
  /\ pc[r] = "storing"
  /\ redis' = [redis EXCEPT ![Key[r]] = response[r]]
  /\ Goto(r, "replying")
  /\ UNCHANGED <<response, replayed, durable, memory, bounds, history>>

\* A failure to store is swallowed.
StoreFails(r) ==
  /\ pc[r] = "storing"
  /\ Fault
  /\ redis' \in {redis, [redis EXCEPT ![Key[r]] = response[r]]}
  /\ Disturb(r)
  /\ Goto(r, "replying")
  /\ UNCHANGED <<response, replayed, durable, memory, overlap>>

Reply(r) ==
  /\ pc[r] = "replying"
  /\ Goto(r, "answered")
  /\ UNCHANGED <<response, replayed, durable, cache, bounds, history>>

\* applyDecisionTraceHeaders reads the trace back inside authorize's try block.
HeadersFail(r) ==
  /\ pc[r] = "replying" /\ Entry[r] = "authorize"
  /\ Fault
  /\ Answer(r, Fallback)
  /\ UNCHANGED <<replayed, durable, cache, history>>

-----------------------------------------------------------------------------
Alive(r) == pc[r] \notin {"new", "answered", "gone"}

Crash(p) ==
  LET dead == {r \in Requests : Proc[r] = p /\ Alive(r)} IN
  /\ crashes < MaxCrashes /\ crashes' = crashes + 1
  /\ pc' = [r \in Requests |-> IF r \in dead THEN "gone" ELSE pc[r]]
  /\ memory' = [memory EXCEPT ![p] = [k \in Keys |-> NoEntry]]
  /\ disturbed' = disturbed \cup ({Key[r] : r \in dead} \ {NoKey})
  /\ UNCHANGED <<response, replayed, durable, redis, faults, expiries, overlap>>

\* The entry's TTL passes: in a process's memory, or in Redis.
Expire(k) ==
  /\ expiries < MaxExpiries /\ expiries' = expiries + 1
  /\ \/ redis[k] # NoEntry /\ redis' = [redis EXCEPT ![k] = NoEntry] /\ UNCHANGED memory
     \/ \E p \in Procs : /\ memory[p][k] # NoEntry
                         /\ memory' = [memory EXCEPT ![p][k] = NoEntry]
                         /\ UNCHANGED redis
  /\ disturbed' = disturbed \cup {k}
  /\ UNCHANGED <<handler, durable, faults, crashes, overlap>>

Serve(r) ==
  \/ Lookup(r, FALSE) \/ NoLookup(r) \/ Compute(r) \/ Persist(r) \/ Audit(r)
  \/ Schedule(r) \/ Cache(r) \/ Store(r) \/ Reply(r)

Fail(r) ==
  \/ Refuse(r) \/ Lookup(r, TRUE) \/ ComputeFails(r) \/ PersistFails(r) \/ AuditFails(r)
  \/ ScheduleFails(r) \/ StoreFails(r) \/ HeadersFail(r)

Next ==
  \/ \E r \in Requests : Serve(r) \/ Fail(r)
  \/ \E p \in Procs : Crash(p)
  \/ \E k \in Keys : Expire(k)

\* Every await of a handler returns or throws.
Fairness == \A r \in Requests : WF_vars(Serve(r))

Spec     == Init /\ [][Next]_vars
FairSpec == Spec /\ Fairness

-----------------------------------------------------------------------------
\* Types of the handlers, the tables and the caches.
TypeOK ==
  /\ pc \in [Requests -> Open \cup {"new", "replying", "answered", "gone"}]
  /\ response \in [Requests -> Response \cup {Refusal, Fallback}]
  /\ replayed \subseteq Requests
  /\ decisions \subseteq Requests
  /\ lifecycles \subseteq Requests
  /\ retries \subseteq Requests
  /\ memory \in [Procs -> [Keys -> Response \cup {NoEntry}]]
  /\ redis \in [Keys -> Response \cup {NoEntry}]
  /\ faults \in 0..MaxFaults /\ crashes \in 0..MaxCrashes /\ expiries \in 0..MaxExpiries
  /\ overlap \subseteq SUBSET Requests
  /\ disturbed \subseteq Keys

Answered(r) == pc[r] = "answered" /\ response[r].frame # None

\* Whose decision a request may be answered with: its own, or one of its key.
Shares(r, f) == f = r \/ (Key[r] # NoKey /\ Key[f] = Key[r])

\* An answer, computed or replayed, that lets work go ahead is for a decision the
\* database has, with its trace and its events, whatever failed on the way and
\* whichever process replays it. The one exception is what a scenario request got
\* although its persistence failed: it says so. A runtime authorization can be
\* given it too, but only under the scenario's idempotency key, in which the mode
\* has no part, never for its own decision.
AllowedIsDurable ==
  \A r \in Requests :
    Answered(r) /\ response[r].action = "proceed" =>
      LET f == response[r].frame
      IN \/ f \in decisions
         \/ /\ Mode[f] = "scenario_planning" /\ Shares(r, f)
            /\ response[r].code = "DB_PERSIST_FAILED_LOCAL_RESPONSE_ONLY"

\* The answer of authorize tells the truth about the audit, first hand or
\* replayed: no reason code means that the decision and its lifecycle are
\* recorded, and a scheduled retry means that the row is there.
AuditAccounted ==
  \A r \in Requests :
    Answered(r) /\ Entry[r] = "authorize" =>
      LET f == response[r].frame
          c == response[r].code
      IN /\ c = "" => f \in decisions /\ f \in lifecycles
         /\ c = "PGL_AUDIT_RETRY_SCHEDULED" => f \in decisions /\ f \in retries
         /\ c = "PGL_AUDIT_UNAVAILABLE_DECISION_PERSISTED" => f \in decisions

\* A key is decided twice only if two of its requests were open together (lookup
\* and store are far apart and nothing holds the key), or its cache entry was lost
\* to a failure, a crash or its TTL. Retries one after the other get one decision,
\* whichever processes serve them.
Effective(f) ==
  f \in decisions \/ \E r \in Requests : pc[r] = "answered" /\ response[r].frame = f

RepeatsExplained ==
  \A f, g \in Requests :
    f # g /\ Key[f] = Key[g] /\ Key[f] # NoKey /\ Effective(f) /\ Effective(g) =>
      {f, g} \in overlap \/ Key[f] \in disturbed

\* Every request that got past its lookup is answered, unless its process dies.
EventuallyAnswered ==
  \A r \in Requests : (pc[r] # "new") ~> (pc[r] \in {"answered", "gone"})
=============================================================================
