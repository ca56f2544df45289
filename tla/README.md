# CO2 Router: formal model

The CO2 Router (ECOBE engine) is an Express service over Postgres and Redis. A client asks where and
when a workload may run; the engine scores candidate regions, bends the result to water guardrails,
policies, the organization's doctrine and the operating mode, and answers `run_now`, `reroute`,
`delay`, `throttle` or `deny`. The decision, its trace and its outbox rows are written in one
transaction, its governance lineage is appended to an append-only ledger, and a dispatcher delivers
it to webhook sinks.

This directory holds TLA+ modules for the parts of that service where order, failure or concurrency
decide whether it is right, the TLC configurations that check them, and proofs for TLAPS. Paths below
are relative to `src/src/`; `docs/` and `prisma/` are directories of `src/`.

1. [The system](#1-the-system): components, state, interactions, what is hard
2. [The modules](#2-the-modules): which code each one models, and how
3. [The runs](#3-the-runs): what is checked, bounds, fairness
4. [Where code and documents disagree](#4-where-code-and-documents-disagree)
5. [The proofs](#5-the-proofs)
6. [What is not modelled](#6-what-is-not-modelled)
7. [The plan](#7-the-plan)

`tlc -config <cfg> <module>` checks a run and `tlapm <module>Proofs.tla` a proof module.
`PROJECT.json` lists the runs, for every definition the source lines it stands for, the hazards with
the properties that watch them, and for every property a change of the code that breaks it.

## 1. The system

### How the components interact

```
 client ── POST /ci/authorize ──┐        operator ── /doctrine/* ──┐
 CloudEvents ── POST /events ───┤                                  ▼
 queue, lambda adapters ────────┤                     doctrine control plane ── Redis copy
 DEKES ── POST /prospects ──────┤                                                 │
                                ▼                        (getActiveDoctrine)      │
     idempotency cache ◄── request handler ◄──────────────────────────────────────┘
     (Redis + memory)        │       │
                             │       └── createDecision: guardrail → SEKED → external hook
                             │              → limits → operating mode
                             │              ▲
                             │              └── signal router ◄── warm loop, commands' windows
                             │                  (buckets and last-known-good records in Redis;
                             │                   providers called through the resilience wrappers)
                             ▼
         one transaction: decision + trace (trace ledger) + outbox rows
                             │
                             ├── governance ledger (PGL): lifecycle of three events
                             │        └── on failure: pgl.audit_retries ── retry worker
                             ▼
                      outbox dispatcher ── POST ── webhook sinks

 client ── POST /carbon/command, /carbon/outcome ── quota, usage counter, accuracy figures
 client ── POST /credits/* ── credits, emission log (a command may have to be covered by them)
```

Handlers and workers share no memory but a few module-level variables (the idempotency cache's
`memoryStore`, the workers' `running` flags, the circuit breakers); everything else they share is in
Postgres and Redis. Several processes may run, and each `await` is a point where another handler, or
another process, may move. Nothing runs at SERIALIZABLE: transactions are READ COMMITTED and
correctness rests on row locks, an advisory lock, unique indexes and CHECKs.

### Inventory

| Component (source) | State | Operations | What makes it hard | What makes it correct |
|---|---|---|---|---|
| Decision event outbox (`lib/ci/decision-events.ts`, `workers/decision-event-dispatcher.ts`, `routes/integrations.ts`) | table DecisionEventOutbox; sink status; `running` | enqueue, test event, batch (cron or route), requeue, sink switched on or off | batches overlap on rows nobody claims; stale attempt counts; crash after PROCESSING; a failing commit after a delivery | a SENT event was accepted; nothing is stranded but by a crash; requests per event are bounded; everything settles |
| Trace ledger (`routes/ci.ts` persistCiDecisionResult) | table DecisionTraceEnvelope, sequence | append inside the decision's transaction | read-latest and insert without a lock; `nextval` survives rollback | predecessors exist and are older; two successors only of overlapping transactions |
| Governance ledger (`lib/pgl/service.ts` appendPglEvents) | pgl.events, pgl.correlation_heads | append of a lifecycle or an error event | concurrent appends to one correlation, the head created on demand | gapless hash chain per correlation; no append refused |
| Audit retry (`lib/pgl/service.ts`, `workers/pgl-audit-retry.ts`) | pgl.audit_retries | schedule, claim, replay, complete, reschedule | two commits per row; several workers; crashes after a claim | no unexplained second lifecycle; what was scheduled gets recorded |
| Decision request (`routes/ci.ts`, `routes/events.ts`, `routes/adapters.ts`, `lib/ci/idempotency.ts`) | decision tables; Redis and per-process cache | authorize, ingest, queue and lambda adapters | lookup and store around the whole decision; three commits, each may fail; replays from several processes | no authorization on a decision of its own without its record; the answer tells the truth about record and audit; every request is answered |
| Decision evaluation (`routes/ci.ts` createDecision, `lib/water/policy.ts`, `lib/policy/*`, `lib/ci/operating-mode.ts`) | one decision variable through five stages | guardrail, SEKED, external hook, limits, mode | a later stage undoes an earlier one; hooks fail open or closed | guardrail blocks, delay windows, strict failures and the water cap stand at the end |
| Doctrine control plane (`lib/doctrine/service.ts`, `routes/doctrine.ts`, `lib/organizations.ts`) | proposals, versions, Redis copy | propose, approve, reject, roll back, bootstrap, provision, read | lock taken by some paths only; invalidation after the commit; fill races commit | two persons; one version in force, the newest; stale copies are bounded |
| API client resilience (`lib/resilience/circuit-breaker.ts`) | circuit, failure count, timer, queue, slots | execute, retry, drain, reset | retries inside the breaker, timers of earlier openings, lost wake-ups | slot counter exact, nobody waits for ever, no early half open, bounded load while open |
| Carbon commands, outcomes, quotas (`lib/carbon-command.ts`, `lib/carbon-outcome.ts`, `lib/organizations.ts`) | usage counter, commands, outcomes, daily accuracy | create, record outcome | quota read before, counted in a detached call after, which is retried; accuracy updated after the outcome's commit | a quota is exceeded, and a request refused, only for a stated reason; no outcome counts twice |
| Carbon credits (`routes/credits.ts`) | credits, emission log | purchase, retire, automatic offset | no transaction anywhere; ids that updateMany skipped are still summed | a credit offsets once, and a retired one does offset, but for stated reasons |
| Carbon signals (`lib/carbon/provider-router.ts`, `lib/grid-signals/grid-signal-cache.ts`, `lib/cache-warmer.ts`) | minute buckets and last-known-good record in Redis, fuel mix copy | resolve, store, substitute, fill buckets | three kinds of writers, any order; times asked for, or dated by the provider, before or after now; detached writes | what is degraded is marked and a forecast answers for its own minute; how old a reading can be; a usable one is kept |
| Replay and trace verification (`routes/ci.ts`) | none of its own | replay, verify | replays without the doctrine and with new hook answers | a replay equals what was decided |
| DEKES handoff (`routes/dekes-handoff.ts`, `routes/dekes.ts`, `lib/dekes-webhook.ts`) | workload, handoff and integration events | prospect, tenant, demo, routing, completion, webhook | a decision and three statements without a transaction; failures of recording a failure are swallowed | what vouches for a handoff finds it whole; a prospect without one has a reason on record |
| Water artifacts (`lib/water/bundle.ts`) | two artifact files, last-known-good copies | load, promote, recover | two files written one after the other | what is loaded is one bundle |
| Proof export chain (`lib/proof/*`) | batches, chain | export | none at run time: only its hash function is used | a batch verifies |
| Evidence, MSS, assurance; grid signal parsers; green routing; forecasting; supervisor; organizations, authentication, billing; dashboards; enforcement integrations; frontends | see section 6 | | | |

## 2. The modules

| Module | Extends / uses | Models |
|---|---|---|
| `EventDelivery` | | what the outbox promises: at least once, a bounded number of requests |
| `DecisionOutbox` | instance of `EventDelivery` | outbox, batches, dispatcher, operator routes |
| `TraceLedger` | | the trace rows of overlapping decision transactions |
| `PglLedger` | | appends to the governance ledger |
| `DecisionLedgers` | extends `TraceLedger`, `PglLedger` | both ledgers as a persisted decision writes them, one after the other |
| `PglAudit` | | a decision's lifecycle: request, retry row, workers |
| `DecisionRequest` | | handlers of authorize, ingest and the adapters, with the idempotency cache |
| `DekesHandoff` | extends `DecisionRequest` | prospects posted by DEKES and their automatic handoff |
| `DecisionPipeline` | | one evaluation, stage by stage |
| `DoctrineAuthority` | | what the control plane promises: a growing history, its last entry marked in force |
| `DoctrineControl` | instance of `DoctrineAuthority` | the control plane of one organization and its Redis copy |
| `ResilientCall` | | bulkhead, circuit breaker and retries of one wrapper |
| `CarbonCredits` | | the credits of one organization and its emission log |
| `CarbonAccount` | extends `CarbonCredits` | commands, quota, usage counter, outcomes and accuracy figures, beside the credits |
| `CarbonSignals` | | one region's carbon signal: providers, fuel mix copy, last-known-good record, buckets |
| `MC*` | the module they name | constants TLC cannot be given in a cfg |
| `*Proofs` | the module they name, TLAPS | section 5 |
| `EvaluationProofs` | `DecisionPipeline`, `CarbonSignals`, TLAPS | the proofs of what is evaluated and of where its signal comes from |

Three compositions share state: `DecisionLedgers` runs the transactions of both ledgers together,
because what matters is the order in which one decision reaches the two; `DekesHandoff` runs handoffs
among the other requests of `DecisionRequest`; and `CarbonAccount` runs commands beside the credits
that must cover them. The other modules share no variables. They meet at seams where one module needs
only a fact of another: `DecisionRequest` treats the decision transaction as one action, whose inside
is `TraceLedger` (the traces) and `DecisionOutbox.Publish` (the outbox rows); its Audit action is
`PglLedger.Append`, and the retry rows it writes are those `PglAudit` works off; its Compute action is
`DecisionPipeline`, reduced to the action returned; `DecisionPipeline.request` is what the doctrine of
`DoctrineControl` made of the client's request, and its candidates are scored with the signals of
`CarbonSignals`, whose provider calls go through `ResilientCall`. Composing these too would multiply
the states without a new interaction, because each seam is a commit or one value: nothing of the
inside is visible before it.

**DecisionOutbox.** `outbox` is the table restricted to status, attempts and `due`, which stands for
`nextAttemptAt <= now()`; Elapse makes a row due. A batch reads its candidates once (Begin) and then
visits them in order of creation: SkipInactive, MarkProcessing, Post, RecordSent or RecordFailure,
and RecordThrows and CatchThrows for database failures, one action per await. The snapshot carries the attempt count and
the sink's status, which the code does not read again; that is where overlaps hurt. StartCycle takes
the node's `running` flag and Finish gives it back; DispatchNow is POST /events/dispatch and takes no
flag. Requeue is the operator's route. Crash kills a process with its batches. `accepted`, `posts`
and `abandoned` record what the sinks saw and which rows died with a batch.

**TraceLedger.** Begin, ReadLatest, Reserve, Commit, Abort per decision. A trace's hash is its frame.
`overlap` remembers which transactions were open together.

**PglLedger.** EnsureHead is the INSERT ... ON CONFLICT DO NOTHING, which waits for another
transaction's uncommitted row; LockHead is SELECT ... FOR UPDATE; Append inserts the drafts and moves
the head, refused when the unique index would refuse it; Release is the commit, after which the rows
stay and the lock is gone; RollBack is any failure before it.

**DecisionLedgers.** The lifecycle of a frame is appended once its trace is committed (Follows); a
retry follows an append that was rolled back; writers of error events follow nothing. `together`
remembers which requests were in progress at the same time, their retries included.

**PglAudit.** A request records its lifecycle; if that fails, a scenario planning request schedules a
retry and any other is answered with the failure. Workers
claim due rows with FOR UPDATE SKIP LOCKED, replay them and mark them, each a commit of its own. A
commit whose answer is lost is a failure to the code: RecordFails and ReplayFails may have had their
effect, counted in `doubts`.

**DecisionRequest.** `pc` says where a handler stands; `response` is what it has in hand. Lookup asks
Redis and then the process's memory; Compute makes the decision; Persist, Audit and Schedule are the
three commits; Cache, Store and Reply end it. The entries differ where the code does: authorize
tolerates a failed persistence in scenario planning only, has a governance audit and an outer catch
that answers with a fallback deny; ingest and adapters have neither and throw. Redis failures,
crashes and TTLs are actions.

**DekesHandoff.** A prospect is a request without key that goes through the adapters' part of
`DecisionRequest`: Post is the row of the prospect and the start of its decision, Decide any step of
that decision. StoreWorkload, StoreProof and Announce are the three inserts that follow, RecordFailure
and AnnounceFailure the catch. An insert that fails may have been applied (`lost` says so). Crash takes
the handoffs of its process with it. A lead posted again is another prospect, and is decided again.

**DecisionPipeline.** Init is the state after scoring: any request, any water data. Candidates are
their rank by score, 1 the best. Every stage is an action that overwrites `decision` and `selected`
as createDecision does. The hooks may answer anything their parsers let through, pass, or fail, and
fail open or closed by the profile. `ruling` remembers which kind of hook result had effect last.
Scores and thresholds are reduced to the comparisons the stages make, as bands.

**DoctrineControl.** A call (approve, reject, rollback, bootstrap) starts with what it reads of the
ACTIVE row; an approval or a rollback reads the next number in a statement of its own (ReadNumber); then
the call writes and commits, or is refused, aborts or dies. Approvals and rollbacks hold the advisory
lock meanwhile, rejections and the bootstrap take none and so commit between those reads. Invalidate
follows the commit. A reader misses, queries and fills the Redis copy in three steps. `migrated` is
chosen in Init: the migrations add CHECKs and a partial unique index that `prisma db push` does not.
InForce is what readers find: the newest ACTIVE row.

**ResilientCall.** Submit is execute(): through the bulkhead to the breaker. A call then is queued,
sent, backing off or leaving; leaving is the `finally` that frees the slot and schedules
`setImmediate(processQueue)`. The clock is two facts: `cooled`, resetTimeoutMs have passed since the
circuit opened, and `circuit.elapsed`, since the last failure. A pending reset timer fires only when
its time has come.

**CarbonCredits, CarbonAccount.** Each statement of the routes is an action: /retire is Retire (the
updateMany) and LogOffset, /auto-offset is Measure, Choose, RetireChosen and LogOffset, and a call can
be lost between any two or have a statement fail after it was applied (RetireUnlearnt, Lose). A command
is Admit (the quota check), Evaluate (with the cover check), Persist, and then Increment, the detached
call, whose tries may fail before or after they were applied. A report is Check, RecordOutcome,
ReadFigures and WriteFigures. Histories say what cannot be seen in the tables: `excess`, the requests
past the quota check and not counted when the latest one passed it; `doubled`, increments applied
twice; `shaken`, requests whose cover was retired under them; `raced`, reports whose read and write of
the figures overlapped. `tier` is chosen in Init, and so are commands of earlier in the month.

**CarbonSignals.** One region of one kind: US (WattTime forecasts for future times, then the fuel mix
and its copy), GB (a current reading) or EU (a reading with its provider's own time, which may be older
than the last one's or later than now: `lib/eu-open-carbon.ts:526`, `:642`). A record keeps when it was
obtained (`got`), the reference time the code computes its age from (`ref`), when the request that
resolved it arrived (`since`), whether that asked for an earlier time (`past`), when this copy went into Redis (`put`), its safety margins, and whether it
is degraded; intensities are left out. A request asks for a time of its own (`at`): an authorize request
(Look) for its client's unvalidated `timestamp`, anywhere from `now - Back` to `now + Ahead`, a command's
window (Ask) for now or later, the warm loop for now. Look (the bucket), Compare (the disagreement
entry), Rebuild, Resolve, Store and Substitute are a request's awaits; WriteBucket is the detached write
of a bucket and its disagreement entry. `best` remembers the latest usable reading that was stored as
last-known-good: its time, and when it was stored.

## 3. The runs

Times are for two workers on a small machine.

| Run | Distinct states | Time | Checks |
|---|---|---|---|
| `outbox_sole` | 32,639 | 4 s | ImplementsDelivery, EventuallySettled |
| `outbox_concurrent` | 499,382 | 9 s | ProcessingHasOwner, TwoBatchPostBound |
| `decision_ledgers` | 152,847 | 26 s | ForkNeedsOverlap, ChainIntact, NeverRefused, OrderNeedsOverlap, EventuallyEnds |
| `pgl_audit` | 79,036 | 10 s | DuplicatesExplained, ScheduledRecorded |
| `request_authorize` | 416,433 | 120 s | AllowedIsDurable, AuditAccounted, RepeatsExplained, HandoffAccounted, EventuallyAnswered, EventuallyHandedOff |
| `decision_pipeline` | 406,812 | 12 s | GuardrailStands, StrictFailureStands, WaterCapStands |
| `doctrine` | 1,564,544 | 100 s | TwoPersons, ApprovedIsEnacted, CacheCoherent, ImplementsAuthority, EventuallyFresh |
| `resilience` | 77,309 | 15 s | SlotsAccounted, WakeupPending, HalfOpenAfterCooling, OpenSendsBounded, EventuallySettled, EventuallyProbes |
| `carbon_account` | 769,443 | 47 s | OverageExplained, RefusalJustified, CoverageExplained, AccuracyExplained, OffsetsExplained, RetiredIsOffset |
| `carbon_signals` | 7,089,340 | 100 s | SubstitutesAreMarked, AgeExplained, UsableIsKept |
| `decision_override`, `doctrine_rollback` | | | violated: section 4 |

Every component's module has a type invariant; the runs leave it out, and it is proved for every one.

### What they show

- **Outbox, one dispatcher.** With one process and no manual dispatch the table implements
  `EventDelivery`: at most MaxAttempts requests per event, confirmed only after acceptance, whatever
  throws or dies. Every published row ends SENT or DEAD_LETTER, unless a batch died with it in hand.
- **Outbox, two processes.** A SENT row was accepted and a PROCESSING row is in live hands unless a
  crash or an exception abandoned it. An abandoned row stays PROCESSING until an operator requeues
  it: no query of the dispatcher looks for it. Two overlapping batches may post an event up to
  M(M + 3)/2 times, where `docs/data-foundation/pipeline-contracts.yaml:194` lets a reader expect M.
  Once a statement may fail it is M(M + 1): a failure record that was applied and reported as failed is
  written again by the catch block, which reopens an attempt the other batch had closed meanwhile.
- **Ledgers.** A trace's predecessor is committed and older; a fork, two traces with one predecessor,
  needs two overlapping transactions. It does happen under overlap: the "append-only hash-chained
  trace" of `docs/data-collection-register.md:16` is then a tree. The head row's lock makes each
  correlation of the governance ledger one gapless chain, the unique index never has to refuse, and no
  append waits for ever; there is no deadlock because a transaction has one correlation. The chain
  lists two decisions in another order than their traces only if their requests were in progress
  together, where a request whose lifecycle waits for its retry counts as in progress.
- **Audit retry.** A lifecycle is recorded twice only where a success was not learnt; a scheduled one
  gets in, unless the worker that claimed it died. Such rows stay PROCESSING, and nothing revives them.
- **Requests.** An answer that lets work go ahead, first hand or replayed, has its decision in the
  database, or is a scenario's whose persistence failed, and says so. A runtime authorization gets that one
  only under the scenario's idempotency key. The audit codes of authorize are true. A key is decided twice only if two of its
  requests overlapped or its cache entry was lost. Worth knowing: if reading the trace back for the
  headers fails, an authorization already recorded and cached is answered with the fallback deny, and
  the client's retry is then replayed "proceed".
- **Handoffs.** An answer that carries a handoff, a HANDOFF_PROOF_READY event and a PROOFED row each
  have the decision, the workload and the PROOFED row behind them. A prospect whose decision was stored
  and that got no handoff has a FAILED row, unless that insert was lost too; a prospect with both rows
  is one whose PROOFED insert was applied and its answer lost. A workload without a handoff can remain.
- **Pipeline.** Unless a policy answered, nothing executes in a region its guardrail blocks; a strict
  failure is not softened by a later stage; the water cap is final. The proofs add that delays respect
  their window and that only a policy's answer denies critical work.
- **Doctrine.** Settings that come into force were agreed to by two persons, through any interleaving
  and under either schema; an APPROVED proposal has its version; the cache is stale only after a lost
  invalidation or a fill overtaken by a commit, and then until its TTL. A rejection can overwrite the
  status of an approval in progress: the version is in force while its proposal reads REJECTED. One
  version is ACTIVE, the newest, unless a bootstrap commits between an approval's two reads in a database
  without the partial index: then both are, and the approved one, the newer, is what readers find.
- **Resilience.** The slot counter matches the calls through drains and refusals, no queued call is
  forgotten, the circuit is never half open early and never open for ever, and what an open circuit
  still lets through is bounded by the retries of calls admitted before.
- **Commands and credits.** The month's commands exceed the quota by no more than the requests that
  were past the check, or committed, without being counted; nobody is refused below the quota but for
  an increment applied twice. A cover check holds until the commit unless credits are retired in
  between; two commands can rest on the same credits, since a check reserves nothing. The figures
  of a day count no outcome twice and miss only those of failed or overlapping reports. A credit
  offsets twice only through overlapping calls or a retirement that names it beside another one; a
  retired credit is missing from the log only while its call is at work or after it was lost.
- **Signals.** A degraded signal is never served as a warm one, and the safety margin is added once. A
  WattTime forecast, also one a client's future timestamp left in a bucket, answers for the minute it
  forecasts and no other. A live reading is at most as old as the fuel mix copy; a warm one is as old as
  a bucket lasts and a last-known-good one as its record lasts, plus the way into Redis, whatever times
  were asked for. At the time asked for, a last-known-good one is within the age limit, but for what its
  reference time hides: how far ahead of now it was asked for or dated. A usable last-known-good reading
  stays until it expires or a later store replaces it; the later one is dated earlier only if its client
  asked for the past, its provider answered with an older time, or its request was already under way;
  and a forecast, which is never reused, takes the place of any.

### Bounds, and why they are enough

- `outbox_sole`: two events and one sink (an order, a later row behind a failing one), a batch of two,
  MaxAttempts 2 (a first, a last), two batch slots so that a second cycle would start if the flag let
  it; one crash, one database failure, one switch of the sink. `outbox_concurrent`: rows do not
  interact except through the order of a snapshot, so one event suffices; MaxAttempts 3 lets attempt
  counts be written back over two levels; one manual dispatch, requeue, failing statement and crash.
- `decision_ledgers`: a fork needs two transactions, and a fork whose parent is itself late three; two
  decisions of one correlation, whose order the ledgers can disagree on, and an error event, so that one
  writer holds the lock, one waits on the head's insert and one on the lock; a third decision has no
  lifecycle. The drafts differ in number. The proofs cover any number and any correlations.
- `pgl_audit`: two workers, a batch of two so that a batch has unfinished rows when it dies, three
  decisions of which two are scheduled, four failing statements, one crash.
- `request_authorize`: any two of a runtime and a scenario request of one key on two processes, two
  deliveries of one event, and a prospect; two failures reach every pair of failing commits, which is
  what the answers distinguish; two lost statements reach the failure of a handoff and of its record;
  one crash and one expiry.
- `decision_pipeline`: two candidates are the chosen one and its alternative. The stages look at the
  best of a set, so a third changes nothing they compare, and the proof covers any number. All values
  of request, water, hook deployment and override.
- `doctrine`: two operators, two proposals, two overlapping calls, one reader, one rollback, failure or
  crash. The proofs cover any number.
- `resilience`: two slots, a queue of one, and four calls fill slots and queue and leave one to be
  refused; threshold 2, two probes, one retry, one drain.
- `carbon_account`: a limit of two with a grace of one; three requests of all kinds, after any number of
  earlier commands, overlap in every way the quota, the figures or two credits tell apart; credits of
  different size, so that an offset may take one or both; one fault. Credits and outcomes share no
  state, and no behaviour has both. The proofs cover any number of requests and faults.
- `carbon_signals`: two resolutions of any of the three callers meet at every await, one to leave a record
  and one to find it; times asked for and provider times lie up to one tick before or after now; a bucket
  lasts two ticks, a last-known-good record three and its age limit is one, so that a record may be kept
  and too old, or kept and hidden by its time; one Redis failure or eviction. Each exception the
  properties name occurs, and each of their age bounds is reached. The two requests are interchangeable,
  hence the symmetry. The proofs cover any number of requests and any times.

`CHECK_DEADLOCK FALSE` appears where a behaviour really ends: all events settled, all requests
answered, all transactions closed, the request decided, the bounds on time or arrivals reached.

### Fairness

- Outbox: a batch that runs goes on (each await returns or throws, the fetch has a time limit), cron
  keeps ticking, and `nextAttemptAt` passes. No fairness for operators, sinks' acceptance or crashes.
- Governance ledger: a transaction that can go on does; Postgres hands a released lock to a waiter.
- Audit: the request proceeds, rows become due, workers keep ticking and finish what they hold.
- Requests and handoffs: every await of a handler returns or throws. Which of the two is left open.
- Doctrine: the Redis entry has a TTL, and calls and readers that have begun end, by
  commit, refusal, abort or crash.
- Resilience: the event loop runs what is scheduled, timers fire, and a request is answered or runs
  into its time limit. Not that a provider ever succeeds.

All fairness is weak. No property assumes that a failure eventually stops except through the named
bounds on failures, which are the usual assumption that failures are finite.

## 4. Where code and documents disagree

Two runs end in a counterexample on purpose. Each checks one sentence of the repository.

- `decision_override` (BlockedTargetNeverWins): `docs/co2-router-doctrine.md:83` says a target that
  fails its water guardrails does not win. The internal SEKED policy answers a green zone without any
  constraint, and applyPolicyDirectives (`routes/ci.ts:1418`) then takes the best-scored candidate
  without asking the guardrail again: a reroute away from a blocked region is undone.
- `doctrine_rollback` (RollbackTakesEffect): `__tests__/doctrine-service.test.ts:137`, with a mocked
  database, says a rollback creates a new active version. rollbackDoctrineVersion
  (`lib/doctrine/service.ts:655`) writes the operator as proposer and approver; the CHECK
  DoctrineVersion_distinct_approver_chk refuses that, so under the migrated schema every rollback fails.

Smaller differences met on the way, for which no run was made:

- `docs/universal-adapter-spec.md:65` promises idempotent processing of events. The ingress
  (`routes/events.ts:108`) looks up, decides, persists and stores with nothing held in between: two
  overlapping deliveries of one event become two decisions. RepeatsExplained allows exactly that.
- `lib/organizations.ts` calls the FREE tier's limit a hard block. Requests between the check and their
  detached increment all pass it, and a lost increment is never made up (OverageExplained, `excess`).
- The age limit of the last-known-good record looks at the time a signal was asked for or dated, not when
  it was obtained (`lib/carbon/provider-router.ts:147`): one stored for a start window or a client's
  timestamp in the future, or dated ahead as REN's are in the morning (`lib/eu-open-carbon.ts:526`),
  counts as fresh that much longer (AgeExplained, `Skew`); a request for the past may get one that is
  older by now than the limit. And a WattTime forecast, a reading for a client's past timestamp or one of
  an older provider time (SMARD, `:642`; REN, `:508`) replaces a usable one (UsableIsKept).
- A prospect is answered 201 whatever became of its handoff, and one posted again is decided and handed
  off again: `externalLeadId` has no unique index. The schema's comment (`prisma/schema.prisma:1228`)
  knows no status PROOFED.
- The idempotency key (`routes/ci.ts:2489`) has no decision mode. A runtime authorization under a
  scenario's key gets the scenario's answer, also one that was cached although its persistence failed
  (`:2566`, `:2582`), where an authorization of its own would have been denied (`:2562`).
- `pglStatus` says `retry_pending` only once a lifecycle exists.
- The adapters, the ingest, the handoff and the water route call createDecision without the doctrine
  and without the PGL validation that authorize has.
- With `REDIS_URL=disabled` the idempotency cache is one per process.
- approveDoctrineProposal reads the ACTIVE row and the next number in two statements
  (`lib/doctrine/service.ts:436`, `:451`), and the bootstrap takes no lock: what it commits in between
  stays ACTIVE beside the approved version where `prisma db push` made the schema (EnactBeside).
- `effectiveAt` of a proposal is stored and ignored (`lib/doctrine/service.ts:323`).
- HALF_OPEN lets every call through, where the comment at `lib/resilience/circuit-breaker.ts:169` and
  `lib/resilience/README.md` say a limited number; a late success of a call sent before the opening
  counts as a probe; the wrapper's comment at line 483 orders the layers differently from its code,
  where each retry has its own timeout; `grid-signals/gridstatus-client.ts` waits 15 s inside a
  wrapper that gives up after 12 s, so requests in flight can exceed the slots.
- In the pipeline, the step from deny to throttle near `routes/ci.ts:1248` is never reached; a
  protected request blocked only by a low carbon confidence "reroutes" to the region it has; SEKED's
  amber zone without an alternative denies critical work.

## 5. The proofs

Eight modules, 9263 obligations. The theorems hold for every value of the constants that satisfies the
module's named assumptions (well-typed functions, positive limits, names that are distinct from their
"none" value, finitely many requests, reports, calls or batches where they are counted or summed); no
bound of section 3 is used. `OutboxImplementsDelivery` also assumes SoleDispatcher, as its run does:
one node, no manual dispatch, no requeue. Nothing else is assumed. TLC evaluates each assumption in the
runs of its module, and checked each part of an inductive invariant before it was proved.

Every safety invariant and action property that a passing run checks is the subject of a theorem.

| Theorem | Says | Inductive invariant, and why it is needed |
|---|---|---|
| `OutboxSafe` | SENT was accepted, PROCESSING is in hand or abandoned, for any number of nodes, batches and events | TypeOK, **LoopInv** (what `pc` says of the row in hand), both properties. An "accepted" batch must have a row the sink accepted before RecordSent may write SENT |
| `OutboxImplementsDelivery` | with one dispatcher, the outbox implements EventDelivery: every step is a step of it or a stutter | **SoleInv**: one batch works, what it still has to visit is as its snapshot says, and a row was posted no more often than its attempts count, one more while it is in hand. A stale count would break each part, which is why the assumption is needed |
| `TwoBatchPostsKept` | two overlapping batches post an event at most M(M + 3)/2 times, with failing statements M(M + 1) | **PairBounded**: for each of the two batches there is a level that covers all it may still do to a row (the attempts left of the row, of its candidate and of the one in hand, and whether a post or a record is due); twice the posts made and the weight of the two levels together stay below what a new row starts with. A post or a record pays for itself by lowering a level. **ReadInv**: nothing is read, kept or left open with its attempts used up |
| `TraceLedgerSafe` | predecessors are committed and older, forks need overlap | **SeqInv** (reserved numbers are distinct and at most `lastSeq`), **ReadInv** (what was read is committed and older), **OverlapInv** (open transactions are recorded as overlapping) and **CoverInv**: of two that did not overlap, the later one read a trace at least as new as the earlier, so the two cannot share a predecessor |
| `PglLedgerSafe`, `AppendsNeverRefused` | gapless chain, head at its end, no append refused | **LockInv** (one holder, which has read the head as it still is) and HeadIsTip: a writer's drafts continue the chain because nobody moved the head since |
| `LedgersSafe` | both of the above in the composition; the ledgers order decisions alike but for overlaps | both invariants, which the other ledger's steps leave alone, **FollowInv** (a lifecycle follows its trace), **PairInv** (requests in progress are recorded as together), **OlderInv** (a trace is older than a request in progress it never met) and **BelowInv** (what is appended lies below the head): the next lifecycle goes to the end of the chain, and every one before it that it never met has the older trace |
| `AuditSafe` | a lifecycle is recorded twice only after a success that was not learnt | **ClaimInv** (a row is claimed by one worker, and no claim query finds it), **AbsentInv**, and **LedgerInv**: while somebody is still going to append a lifecycle, those in the ledger are at most the doubts |
| `DecisionSafe` | what lets work go ahead is recorded, or a scenario's answer that says it is not, under the scenario's key; audit codes are true, replayed or not | **HandInv** (what each place of a handler says of the response in hand) and **CacheInv** (every entry, in Redis or in a process, is such a response): a replay is sound because what was stored was, and the durable sets only grow. `AuditsAccounted` is its second half |
| `RepeatsAccounted` | a key is decided twice only by overlapping requests or after its cache entry was lost | **RepeatsInv**: a request in hand holds its own decision (OwnInv) and is not yet recorded before it persists (FreshInv); a recorded key is in the cache once its request has passed the store (KeptInv); and two requests that decide one key overlap (PairInv) |
| `HandoffsAreRequests` | a behaviour with handoffs is a behaviour of `DecisionRequest` | none: every step of `DekesHandoff` is a step of `DecisionRequest` or leaves its variables alone. So what is proved of requests holds of prospects |
| `HandoffsAccounted` | an answered, announced or PROOFED handoff is whole; one that is not has its FAILED row or lost it | one **Part** for each prospect: what its place says of the decision in progress, of the rows stored so far, and of rows stored in vain. A step of another prospect or request leaves it alone |
| `DecisionBounded`, `GuardrailNeverLifted`, `StrictFailuresStop` | the five pipeline properties, for any number of candidates | one part for each property (**GuardrailInv**, **FailureInv**, **CriticalInv**, **LimitsInv**) that says what the stages passed so far have established and no stage to come undoes |
| `DoctrineSafe`, `ApprovalsEnacted`, `CacheStaysCoherent` | two persons; the newest version alone ACTIVE, but for a bootstrap's beside it without the index; APPROVED has its version; lock holders' reads stay true, but for a bootstrap's version; the cache is stale only for a stated reason | **JobInv**, **ReadInv** (what a lock holder read of the versions is still so, or a bootstrap's version 1 came in between: after the number was read the unique number refuses the call, before it the index on ACTIVE rows does, where there is one), ActiveIsLatest, **KnownInv** (settings that came into force were proposed), **FillInv** (a reader about to fill holds the version in force, unless a commit overtook it) |
| `ControlImplementsAuthority` | DoctrineControl implements DoctrineAuthority | the same invariant; an activation maps to Enact, or to EnactBeside beside a bootstrap's version, everything else stutters |
| `SlotsKept`, `WakeupsKept` | the slot counter is the number of calls that hold one; no wakeup is lost | **QueueOk** (a queued call waits, and waits once): taking the head of the queue makes one more holder, and drain empties a queue nobody else holds a place in; **BackoffInv** (a call that backs off has a request left) |
| `OpenSendsKept` | what an open circuit still sends is bounded by the retries of the calls admitted before | **SendsInv**: the sends since the opening and the requests that the admitted calls have left are at most (MaxConcurrent - 1) x MaxRetries; a send is one fewer to come |
| `CoolingKept` | the circuit half opens only after its whole wait | **CoolInv**: until the wait has passed, the circuit is not half open, no timer is due and the last failure is recent, each of which could half open it |
| `QuotaBounded`, `RefusalsJustified` | by how much a quota is exceeded; who is refused | **CountInv** (the counter is the counted commands and the doubled increments) and **QuotaInv**, which counts the requests past the check with the commands: a request passes with the counted ones below the cap, and the uncounted ones are the excess |
| `DoubleOffsetsExplained`, `NoCreditForgotten` | a credit offsets twice, or is forgotten, only for a stated reason | **CallInv** (what a call at each place has chosen, taken and logged), **BusyInv** (calls in progress are recorded as overlapping) and **ClaimInv**: a credit is claimed by one of two calls that did not overlap, because what the first retired the second did not find active |
| `CoverKept` | a command that must be covered reaches its commit covered, but for a retirement after its check | **CoverInv** says what a command has been promised at each place, and that the bought credits are finitely many, so that a purchase adds its amount to what is available |
| `FiguresExplained` | the day's figures count no outcome twice and miss only those to be added, failed or raced | **AccuracyInv**: an outcome belongs to the row its report made or wrote to. Between(o, n) bounds a total n of row o from below by the outcomes surely added to it and from above by those ever added; it holds of the rows and of what every report has read. At most one report that did not race is between its read and its write. The rows' outcomes are disjoint, so the bounds add up |
| `AccountTyped` | the types of the account and its credits | the parts above; that an automatic offset measures a number follows from the log's rows being finite sums |
| `SubstitutesMarked`, `AgesExplained`, `UsableKept` | degraded signals are marked and a forecast answers for its own bucket; how old a reading can be; a usable one is kept, but for stated reasons | **SignalsInv**: every reading is **Known** (obtained no earlier than its request arrived and dated no further ahead than it can be, but for the fuel mix copy; nor before its request, but by its provider or for a past time), and so is what a request holds: its **Own** reading, one it **Found** in its bucket, or one that **StandsIn**; what lies in Redis has not expired (**BucketInv**, **LkgInv**), and the best usable reading is not ahead of its store (**BestInv**), so that only one of the stated reasons leaves a later request with an older one |

Each step lemma has one case per action of Next. The temporal step is the last of each theorem.

Only model-checked: liveness under fairness (the Eventually* properties and ScheduledRecorded), which the
prover does not reach, and the two violated properties of section 4.

Sums are the one place where a proof needs induction over data. The induction schemes of the library take
operators as arguments, which no backend here can instantiate. `CarbonAccountProofs` does without: that
strict inclusion of finite sets is well founded is a theorem without such an argument, so each fact about
a sum over a finite set is proved for a least set it would fail for (LeastSubset), from SumUnfolds, the one
step of the community modules' recursive function. No module uses RECURSIVE operators.

## 6. What is not modelled

Planned (section 7): decision replay; water artifacts; the export chain. One hazard of the replay is
listed in `PROJECT.json`: it passes neither the doctrine in force at the time nor the hooks' answers
(`routes/ci.ts:3754`), so it compares with what would be decided now.

Left out for good, with the reason:

- *Evidence, MSS and assurance states*: pure functions that label a response.
- *Grid signal parsers, green routing, forecasting, learning*: numeric. Their results enter
  `DecisionPipeline` as an order of candidates, and their calls go through `ResilientCall`.
- *Runtime supervisor, startup, shutdown*: process wiring. Restarts are Crash actions where state
  survives them; the other workers have the same `running` flag as the dispatcher.
- *Organizations, authentication, billing*: the bootstrap of a doctrine is in `DoctrineControl`; the
  middlewares compare a token; no route imports the authentication and billing services.
- *DEKES orchestrator*: no route or worker imports it.
- *Dashboards, metrics, enforcement integrations, frontends, scripts*: read-only, pure translations,
  or outside the service.

Left out inside the modelled parts: payloads, signatures, reason-code wording, telemetry and scores;
read-only routes; POST /adapters/execution-outcomes, a read and a write of one metadata column; the
attempt count of an audit retry, which only shapes its backoff; DEKES's tenants, demos, routing, workload
completion and webhook library; of the signals, the providers' parsers, the validation against the Ember
baseline and the choice of the better of several; of the commands, candidate scoring, workload
similarity and the adaptive profile, with the detached writes of tables nothing modelled reads; and a
request abandoned by its time limit, which goes on after its slot was given back
(`lib/resilience/circuit-breaker.ts:326`).

## 7. The plan

Order: what answers a client or is recorded for an audit came first.

| Step | Modules | State |
|---|---|---|
| 1 | DecisionOutbox with EventDelivery; TraceLedger | checked and proved |
| 2 | PglLedger, and DecisionLedgers with TraceLedger | checked and proved |
| 3 | PglAudit | checked and proved |
| 4 | DecisionRequest | checked and proved |
| 5 | DoctrineControl with DoctrineAuthority | checked and proved |
| 6 | DecisionPipeline | checked and proved |
| 7 | ResilientCall | checked and proved |
| 8 | CarbonAccount on CarbonCredits | checked and proved |
| 9 | CarbonSignals | checked and proved |
| 10 | DekesHandoff on DecisionRequest | checked and proved |
| 11 | replay on DecisionPipeline: the stored decision evaluated again with what the route passes on | to do |
| 12 | POST /adapters/execution-outcomes; water artifacts and their recovery; export chain | to do |

Every safety property of what is modelled is proved. The modules of steps 11 and 12 will bring theorems
of their own; liveness stays with TLC.
