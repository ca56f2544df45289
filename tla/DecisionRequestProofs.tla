------------------------ MODULE DecisionRequestProofs ------------------------
(***************************************************************************)
(* Fail-closed authorization for any number of requests, processes, keys   *)
(* and failures. The property speaks of answers, but an answer may come    *)
(* from a cache that another process filled long before. What is inductive *)
(* is that every response that is final, in a handler's hand or in a cache,*)
(* is sound, and that soundness only depends on rows that are never taken  *)
(* away.                                                                   *)
(***************************************************************************)
EXTENDS DekesHandoff, TLAPS

\* A response tells the truth about what is recorded of its frame.
Sound(a, D, L, R) ==
  a.frame # None =>
    /\ a.action = "proceed" =>
         \/ a.frame \in D
         \/ /\ Mode[a.frame] = "scenario_planning"
            /\ a.code = "DB_PERSIST_FAILED_LOCAL_RESPONSE_ONLY"
    /\ Entry[a.frame] = "authorize" =>
         /\ a.code = "" => a.frame \in D /\ a.frame \in L
         /\ a.code = "PGL_AUDIT_RETRY_SCHEDULED" => a.frame \in D /\ a.frame \in R
         /\ a.code = "PGL_AUDIT_UNAVAILABLE_DECISION_PERSISTED" => a.frame \in D

\* A response in hand is the request's own until it is final; then it is sound and
\* of a request of the same key. Only a keyed request goes through the cache.
Hand(r, p, a, D, L, R) ==
  /\ p \in {"persisting", "auditing", "scheduling"} => a.frame = r /\ a.code = ""
  /\ p \in {"auditing", "scheduling"} => r \in D /\ Entry[r] = "authorize"
  /\ p = "scheduling" => Mode[r] = "scenario_planning"
  /\ p \in {"caching", "storing"} => a.frame # None /\ Key[r] \in Keys
  /\ p \in {"caching", "storing", "replying", "answered"} =>
       Sound(a, D, L, R) /\ (a.frame # None => Shares(r, a.frame))

\* So is a cache entry, of a request of the key it is stored under.
Stored(k, a, D, L, R) == a.frame # None => Sound(a, D, L, R) /\ Key[a.frame] = k

HandInv ==
  \A r \in Requests : Hand(r, pc[r], response[r], decisions, lifecycles, retries)

CacheInv ==
  \A k \in Keys :
    /\ Stored(k, redis[k], decisions, lifecycles, retries)
    /\ \A p \in Procs : Stored(k, memory[p][k], decisions, lifecycles, retries)

Inv == TypeOK /\ HandInv /\ CacheInv

\* Nothing that was recorded is taken away.
Grows == decisions \subseteq decisions' /\ lifecycles \subseteq lifecycles' /\ retries \subseteq retries'

\* Only the handler of r moves.
Others(r) == \A s \in Requests \ {r} : pc'[s] = pc[s] /\ response'[s] = response[s]

USE RequestAssumption DEF Modes

-----------------------------------------------------------------------------
LEMMA GrowthKeepsHands ==
  ASSUME Grows, NEW r \in Requests,
         Hand(r, pc[r], response[r], decisions, lifecycles, retries)
  PROVE  Hand(r, pc[r], response[r], decisions', lifecycles', retries')
BY DEF Grows, Hand, Sound

LEMMA HandNext ==
  ASSUME Inv, Grows, NEW r \in Requests, Others(r),
         Hand(r, pc'[r], response'[r], decisions', lifecycles', retries')
  PROVE  HandInv'
<1>1. ASSUME NEW s \in Requests, s # r
      PROVE  Hand(s, pc'[s], response'[s], decisions', lifecycles', retries')
  <2>1. Hand(s, pc[s], response[s], decisions', lifecycles', retries')
    BY GrowthKeepsHands DEF Inv, HandInv
  <2> QED
    BY <1>1, <2>1 DEF Others
<1> QED
  BY <1>1 DEF HandInv

LEMMA CacheNext ==
  ASSUME Inv, Grows, UNCHANGED cache
  PROVE  CacheInv'
<1> SUFFICES ASSUME NEW k \in Keys
             PROVE  /\ Stored(k, redis[k], decisions', lifecycles', retries')
                    /\ \A p \in Procs :
                         Stored(k, memory[p][k], decisions', lifecycles', retries')
  BY DEF CacheInv, cache
<1> QED
  BY DEF Inv, CacheInv, Stored, Sound, Grows

\* TypeOK, part by part.
Places  == Open \cup {"new", "replying", "answered", "gone"}
Answers == Response \cup {Refusal, Fallback}
Entries == Response \cup {NoEntry}

PcType     == pc \in [Requests -> Places]
AnswerType == response \in [Requests -> Answers]
SetsType   == {replayed, decisions, lifecycles, retries} \subseteq SUBSET Requests
CacheType  == memory \in [Procs -> [Keys -> Entries]] /\ redis \in [Keys -> Entries]
BoundType  == faults \in 0..MaxFaults /\ crashes \in 0..MaxCrashes /\ expiries \in 0..MaxExpiries
HistType   == overlap \subseteq SUBSET Requests /\ disturbed \subseteq Keys

LEMMA Types == TypeOK <=> PcType /\ AnswerType /\ SetsType /\ CacheType /\ BoundType /\ HistType
BY DEF TypeOK, PcType, AnswerType, SetsType, CacheType, BoundType, HistType, Places, Answers, Entries

LEMMA PlaceNames ==
  /\ "computing" \in Places /\ "persisting" \in Places /\ "auditing" \in Places
  /\ "scheduling" \in Places /\ "storing" \in Places /\ "replying" \in Places
  /\ "answered" \in Places /\ "gone" \in Places /\ "caching" \in Places
BY DEF Places, Open

LEMMA PcNext == PcType /\ [Next]_vars => PcType'
<1> SUFFICES ASSUME PcType, [Next]_vars PROVE PcType'
  OBVIOUS
<1> USE PlaceNames DEF PcType, Goto, Answer
<1>1. ASSUME NEW r \in Requests, Serve(r) PROVE PcType'
  BY <1>1 DEF Arrives, Serve, Lookup, NoLookup, Compute, Persist, Audit, Schedule, Cache, Store,
     Reply, Finished
<1>2. ASSUME NEW r \in Requests, Fail(r) PROVE PcType'
  BY <1>2 DEF Fail, Refuse, Lookup, ComputeFails, PersistFails, AuditFails, ScheduleFails,
     StoreFails, HeadersFail, Finished, Unaudited
<1>3. ASSUME NEW p \in Procs, Crash(p) PROVE PcType'
  BY <1>3 DEF Crash
<1>4. ASSUME NEW k \in Keys, Expire(k) PROVE PcType'
  BY <1>4 DEF Expire, handler
<1>5. CASE UNCHANGED vars
  BY <1>5 DEF vars, handler
<1> QED
  BY <1>1, <1>2, <1>3, <1>4, <1>5 DEF Next

LEMMA SetsNext == SetsType /\ [Next]_vars => SetsType'
<1> SUFFICES ASSUME SetsType, [Next]_vars PROVE SetsType'
  OBVIOUS
<1> USE DEF SetsType, durable
<1>1. ASSUME NEW r \in Requests, Serve(r) PROVE SetsType'
  BY <1>1 DEF Arrives, Serve, Lookup, NoLookup, Compute, Persist, Audit, Schedule, Cache, Store,
     Reply
<1>2. ASSUME NEW r \in Requests, Fail(r) PROVE SetsType'
  <2>0. CASE Refuse(r) \/ ComputeFails(r)
    BY <2>0 DEF Refuse, ComputeFails
  <2>1. CASE Lookup(r, TRUE)
    <3>1. replayed' \in {replayed, replayed \cup {r}}
      BY <2>1 DEF Lookup
    <3>2. UNCHANGED <<decisions, lifecycles, retries>>
      BY <2>1 DEF Lookup
    <3> QED
      BY <3>1, <3>2
  <2>2. CASE PersistFails(r)
    BY <2>2 DEF PersistFails
  <2>3. CASE AuditFails(r)
    BY <2>3 DEF AuditFails
  <2>4. CASE ScheduleFails(r) \/ StoreFails(r) \/ HeadersFail(r)
    BY <2>4 DEF ScheduleFails, StoreFails, HeadersFail
  <2> QED
    BY <1>2, <2>0, <2>1, <2>2, <2>3, <2>4 DEF Fail
<1>3. ASSUME NEW p \in Procs, Crash(p) PROVE SetsType'
  BY <1>3 DEF Crash
<1>4. ASSUME NEW k \in Keys, Expire(k) PROVE SetsType'
  BY <1>4 DEF Expire, handler
<1>5. CASE UNCHANGED vars
  BY <1>5 DEF vars, handler
<1> QED
  BY <1>1, <1>2, <1>3, <1>4, <1>5 DEF Next

LEMMA BoundNext == BoundType /\ [Next]_vars => BoundType'
<1> SUFFICES ASSUME BoundType, [Next]_vars PROVE BoundType'
  OBVIOUS
<1> USE DEF BoundType, bounds
<1>1. Fault \/ UNCHANGED bounds => BoundType'
  BY DEF Fault
<1>2. ASSUME NEW r \in Requests, Serve(r) \/ Fail(r) PROVE Fault \/ UNCHANGED bounds
  BY <1>2 DEF Arrives, Serve, Lookup, NoLookup, Compute, Persist, Audit, Schedule, Cache, Store,
     Reply, Fail, Refuse, Lookup, ComputeFails, PersistFails, AuditFails, ScheduleFails,
     StoreFails, HeadersFail
<1>3. ASSUME NEW p \in Procs, Crash(p) PROVE BoundType'
  BY <1>3 DEF Crash
<1>4. ASSUME NEW k \in Keys, Expire(k) PROVE BoundType'
  BY <1>4 DEF Expire
<1>5. CASE UNCHANGED vars
  BY <1>5 DEF vars
<1> QED
  BY <1>1, <1>2, <1>3, <1>4, <1>5 DEF Next

LEMMA HistNext == HistType /\ [Next]_vars => HistType'
<1> SUFFICES ASSUME HistType, [Next]_vars PROVE HistType'
  OBVIOUS
<1> USE DEF history
<1>1. ASSUME NEW r \in Requests, Serve(r) \/ Fail(r) PROVE HistType'
  <2>1. /\ overlap' \in {overlap, overlap \cup {{r, s} : s \in Rivals(r)}}
        /\ disturbed' \in {disturbed, disturbed \cup ({Key[r]} \ {NoKey})}
    BY <1>1 DEF Disturb, Serve, Lookup, NoLookup, Compute, Persist, Audit, Schedule, Cache,
       Store, Reply, Fail, Refuse, ComputeFails, PersistFails, AuditFails, ScheduleFails,
       StoreFails, HeadersFail
  <2>2. {{r, s} : s \in Rivals(r)} \subseteq SUBSET Requests
    BY DEF Rivals
  <2>3. {Key[r]} \ {NoKey} \subseteq Keys
    OBVIOUS
  <2> QED
    BY <2>1, <2>2, <2>3 DEF HistType
<1>2. ASSUME NEW p \in Procs, Crash(p) PROVE HistType'
  <2>1. {Key[r] : r \in {x \in Requests : Proc[x] = p /\ Alive(x)}} \ {NoKey} \subseteq Keys
    OBVIOUS
  <2> QED
    BY <1>2, <2>1 DEF HistType, Crash
<1>3. ASSUME NEW k \in Keys, Expire(k) PROVE HistType'
  BY <1>3 DEF Expire, HistType
<1>4. CASE UNCHANGED vars
  BY <1>4 DEF vars, HistType
<1> QED
  BY <1>1, <1>2, <1>3, <1>4 DEF Next

LEMMA Framed == \A a \in Answers : a.frame # None => a \in Response
<1>1. Refusal.frame = None /\ Fallback.frame = None
  BY DEF Refusal, Fallback
<1> QED
  BY <1>1 DEF Answers

\* The response a handler holds; one that will be cached has a frame.
LEMMA AnswerNext == Inv /\ [Next]_vars => AnswerType'
<1> SUFFICES ASSUME Inv, [Next]_vars PROVE AnswerType'
  OBVIOUS
<1>1. AnswerType /\ CacheType
  BY Types DEF Inv
<1>2. ASSUME NEW r \in Requests, NEW a \in Answers, response' = [response EXCEPT ![r] = a]
      PROVE  AnswerType'
  BY <1>1, <1>2 DEF AnswerType
<1>3. Refusal \in Answers /\ Fallback \in Answers /\ \A r \in Requests : Thrown(r) \in Answers
  BY DEF Answers, Thrown
<1>4. ASSUME NEW r \in Requests, NEW f \in BOOLEAN, Lookup(r, f) PROVE AnswerType'
  <2>1. Found(r, f) \in Entries
    BY <1>1, <1>4 DEF Found, CacheType, Lookup
  <2>2. Found(r, f) # NoEntry => Found(r, f) \in Answers
    BY <2>1 DEF Entries, Answers
  <2> QED
    BY <1>1, <1>2, <1>4, <2>2 DEF Lookup, Hold, AnswerType
<1>5. ASSUME NEW r \in Requests, Compute(r) PROVE AnswerType'
  <2>1. PICK a \in {"proceed", "deny"} : Hold(r, [frame |-> r, action |-> a, code |-> ""])
    BY <1>5 DEF Compute
  <2>2. [frame |-> r, action |-> a, code |-> ""] \in Answers
    BY DEF Answers, Response, Codes
  <2> QED
    BY <1>2, <2>1, <2>2 DEF Hold
<1>6. ASSUME NEW r \in Requests, NEW c \in Codes, Mark(r, c),
             pc[r] \in {"persisting", "auditing", "scheduling"}
      PROVE  AnswerType'
  <2>1. response[r].frame = r
    BY <1>6 DEF Inv, HandInv, Hand
  <2>2. response[r] \in Response
    BY <2>1, <1>1, Framed DEF AnswerType
  <2>3. [response[r] EXCEPT !.code = c] \in Response
    BY <2>2 DEF Response
  <2> QED
    BY <1>2, <1>6, <2>3 DEF Mark, Hold, Answers
<1>7. ASSUME NEW r \in Requests,
             Refuse(r) \/ ComputeFails(r) \/ HeadersFail(r)
      PROVE  AnswerType'
  BY <1>2, <1>3, <1>7 DEF Refuse, ComputeFails, HeadersFail, Answer
<1>8. ASSUME NEW r \in Requests, PersistFails(r) PROVE AnswerType'
  <2>1. CASE Tolerated(r)
    BY <1>6, <1>8, <2>1 DEF PersistFails, Codes
  <2>2. CASE ~Tolerated(r)
    BY <1>2, <1>3, <1>8, <2>2 DEF PersistFails, Answer
  <2> QED
    BY <2>1, <2>2
<1>9. ASSUME NEW r \in Requests, AuditFails(r) \/ ScheduleFails(r) \/ Schedule(r)
      PROVE  AnswerType'
  <2>1. CASE UNCHANGED response
    BY <1>1, <2>1 DEF AnswerType
  <2>2. CASE ~UNCHANGED response
    BY <1>6, <1>9, <2>2 DEF AuditFails, ScheduleFails, Schedule, Unaudited, Codes
  <2> QED
    BY <2>1, <2>2
<1>10. ASSUME NEW r \in Requests,
              NoLookup(r) \/ Persist(r) \/ Audit(r) \/ Cache(r) \/ Store(r) \/ StoreFails(r)
                \/ Reply(r)
       PROVE  UNCHANGED response
  BY <1>10 DEF NoLookup, Persist, Audit, Cache, Store, StoreFails, Reply
<1>11. ASSUME NEW p \in Procs, NEW k \in Keys, Crash(p) \/ Expire(k) PROVE UNCHANGED response
  BY <1>11 DEF Crash, Expire, handler
<1>12. UNCHANGED response => AnswerType'
  BY <1>1 DEF AnswerType
<1>13. CASE UNCHANGED vars
  BY <1>12, <1>13 DEF vars, handler
<1>14. (\E p \in Procs : Crash(p)) \/ (\E k \in Keys : Expire(k)) => UNCHANGED response
  BY DEF Crash, Expire, handler
<1> QED
  BY <1>4, <1>5, <1>7, <1>8, <1>9, <1>10, <1>12, <1>13, <1>14 DEF Next, Serve, Fail

\* What is cached is a response with a frame.
LEMMA CachedNext == Inv /\ [Next]_vars => CacheType'
<1> SUFFICES ASSUME Inv, [Next]_vars PROVE CacheType'
  OBVIOUS
<1>1. CacheType /\ AnswerType
  BY Types DEF Inv
<1>2. ASSUME NEW r \in Requests, pc[r] \in {"caching", "storing"}
      PROVE  response[r] \in Entries /\ Key[r] \in Keys
  <2>1. response[r].frame # None /\ Key[r] \in Keys
    BY <1>2 DEF Inv, HandInv, Hand
  <2>2. response[r] \in Response
    BY <2>1, <1>1, Framed DEF AnswerType
  <2> QED
    BY <2>1, <2>2 DEF Entries
<1>3. NoEntry \in Entries
  BY DEF Entries
<1>4. ASSUME NEW r \in Requests, Cache(r) PROVE CacheType'
  BY <1>1, <1>2, <1>4 DEF Cache, CacheType
<1>5. ASSUME NEW r \in Requests, Store(r) \/ StoreFails(r) PROVE CacheType'
  BY <1>1, <1>2, <1>5 DEF Store, StoreFails, CacheType
<1>6. ASSUME NEW p \in Procs, Crash(p) PROVE CacheType'
  BY <1>1, <1>3, <1>6 DEF Crash, CacheType, durable
<1>7. ASSUME NEW k \in Keys, Expire(k) PROVE CacheType'
  <2>1. redis' \in [Keys -> Entries]
    BY <1>1, <1>3, <1>7 DEF Expire, CacheType
  <2>2. memory' = memory \/ \E p \in Procs : memory' = [memory EXCEPT ![p][k] = NoEntry]
    BY <1>7 DEF Expire
  <2>3. ASSUME NEW p \in Procs, memory' = [memory EXCEPT ![p][k] = NoEntry]
        PROVE  memory' \in [Procs -> [Keys -> Entries]]
    <3>1. [memory[p] EXCEPT ![k] = NoEntry] \in [Keys -> Entries]
      BY <1>1, <1>3 DEF CacheType
    <3> QED
      BY <1>1, <2>3, <3>1 DEF CacheType
  <2> QED
    BY <1>1, <2>1, <2>2, <2>3 DEF CacheType
<1>8. ASSUME NEW r \in Requests, Serve(r) \/ Fail(r), ~(Cache(r) \/ Store(r) \/ StoreFails(r))
      PROVE  UNCHANGED cache
  BY <1>8 DEF Arrives, Serve, Lookup, NoLookup, Compute, Persist, Audit, Schedule, Reply, Fail,
     Refuse, ComputeFails, PersistFails, AuditFails, ScheduleFails, HeadersFail
<1>9. UNCHANGED cache => CacheType'
  BY <1>1 DEF CacheType, cache
<1>10. CASE UNCHANGED vars
  BY <1>9, <1>10 DEF vars
<1> QED
  BY <1>4, <1>5, <1>6, <1>7, <1>8, <1>9, <1>10 DEF Next

LEMMA TypeNext == Inv /\ [Next]_vars => TypeOK'
<1> SUFFICES ASSUME Inv, [Next]_vars PROVE TypeOK'
  OBVIOUS
<1>1. PcType' /\ SetsType' /\ BoundType' /\ HistType'
  BY Types, PcNext, SetsNext, BoundNext, HistNext DEF Inv
<1>2. AnswerType' /\ CacheType'
  BY AnswerNext, CachedNext
<1>3. TypeOK' <=> PcType' /\ AnswerType' /\ SetsType' /\ CacheType' /\ BoundType' /\ HistType'
  BY Types, PTL
<1> QED
  BY <1>1, <1>2, <1>3

-----------------------------------------------------------------------------
LEMMA StepMovesOne ==
  ASSUME TypeOK, NEW r \in Requests, Serve(r) \/ Fail(r)
  PROVE  Others(r) /\ Grows
<1>1. \E p : pc' = [pc EXCEPT ![r] = p]
  BY DEF Goto, Answer, Serve, Lookup, NoLookup, Compute, Persist, Audit, Schedule, Cache,
     Store, Reply, Fail, Refuse, ComputeFails, PersistFails, AuditFails, ScheduleFails,
     StoreFails, HeadersFail, Unaudited
<1>2. UNCHANGED response \/ \E a : response' = [response EXCEPT ![r] = a]
  BY DEF Answer, Hold, Mark, Serve, Lookup, NoLookup, Compute, Persist, Audit, Schedule,
     Cache, Store, Reply, Fail, Refuse, ComputeFails, PersistFails, AuditFails,
     ScheduleFails, StoreFails, HeadersFail, Unaudited
<1>3. Others(r)
  BY <1>1, <1>2 DEF Others, TypeOK
<1>4. Grows
  BY DEF Grows, durable, Serve, Lookup, NoLookup, Compute, Persist, Audit, Schedule, Cache,
     Store, Reply, Fail, Refuse, ComputeFails, PersistFails, AuditFails, ScheduleFails,
     StoreFails, HeadersFail
<1> QED
  BY <1>3, <1>4

\* A final response about the request's own frame can be handed on.
LEMMA FinishedHand ==
  ASSUME NEW r \in Requests, NEW a, NEW D, NEW L, NEW R,
         a.frame = r, Sound(a, D, L, R)
  PROVE  Hand(r, Finished(r), a, D, L, R)
BY DEF Hand, Finished, Shares

LEMMA NoFrameHand ==
  ASSUME NEW r \in Requests, NEW a \in {Refusal, Fallback}, NEW D, NEW L, NEW R
  PROVE  Hand(r, "answered", a, D, L, R)
<1>1. Refusal.frame = None /\ Fallback.frame = None
  BY DEF Refusal, Fallback
<1>2. a.frame = None
  BY <1>1
<1> QED
  BY <1>2 DEF Hand, Sound

\* Marking a response changes its reason code and nothing else.
LEMMA Marked ==
  ASSUME Inv, NEW r \in Requests, NEW c, Mark(r, c),
         pc[r] \in {"persisting", "auditing", "scheduling"}
  PROVE  /\ response'[r].frame = r
         /\ response'[r].code = c
         /\ response'[r].action = response[r].action
<1>1. response[r].frame = r
  BY DEF Inv, HandInv, Hand
<1>2. response[r] \in Response
  BY <1>1, Types, Framed DEF Inv, AnswerType
<1>3. response'[r] = [response[r] EXCEPT !.code = c]
  BY DEF Mark, Hold, Inv, TypeOK
<1> QED
  BY <1>1, <1>2, <1>3 DEF Response

\* Each step of a handler leaves it with a response it may hold.
LEMMA HandStep ==
  ASSUME Inv, NEW r \in Requests, Serve(r) \/ Fail(r)
  PROVE  Hand(r, pc'[r], response'[r], decisions', lifecycles', retries')
<1> DEFINE Held == Hand(r, pc'[r], response'[r], decisions', lifecycles', retries')
<1> USE DEF Goto
<1>1. Grows /\ pc \in [Requests -> Places] /\ response \in [Requests -> Answers]
  BY StepMovesOne, Types DEF Inv, PcType, AnswerType
<1>2. Hand(r, pc[r], response[r], decisions', lifecycles', retries')
  BY <1>1, GrowthKeepsHands DEF Inv, HandInv
<1>3. \A a \in {Refusal, Fallback} : Answer(r, a) => Held
  BY <1>1, NoFrameHand DEF Answer
<1>4. CASE Refuse(r) \/ ComputeFails(r) \/ HeadersFail(r)
  BY <1>3, <1>4 DEF Refuse, ComputeFails, HeadersFail, Thrown
<1>5. ASSUME NEW f \in BOOLEAN, Lookup(r, f) PROVE Held
  <2>1. CASE Found(r, f) = NoEntry
    BY <1>1, <1>5, <2>1 DEF Lookup, Hand
  <2>2. CASE Found(r, f) # NoEntry
    <3>1. Key[r] \in Keys
      BY <1>5 DEF Lookup
    <3>2. Stored(Key[r], Found(r, f), decisions, lifecycles, retries)
      BY <3>1 DEF Inv, CacheInv, Found
    <3>3. Stored(Key[r], Found(r, f), decisions', lifecycles', retries')
      BY <1>1, <3>2 DEF Stored, Sound, Grows
    <3>4. pc'[r] = "replying" /\ response'[r] = Found(r, f)
      BY <1>1, <1>5, <2>2 DEF Lookup, Hold
    <3> QED
      BY <3>1, <3>3, <3>4 DEF Hand, Stored, Sound, Shares
  <2> QED
    BY <2>1, <2>2
<1>6. CASE NoLookup(r)
  BY <1>1, <1>6 DEF NoLookup, Hand
<1>7. CASE Compute(r)
  <2>1. PICK a \in {"proceed", "deny"} : Hold(r, [frame |-> r, action |-> a, code |-> ""])
    BY <1>7 DEF Compute
  <2> DEFINE computed == [frame |-> r, action |-> a, code |-> ""]
  <2>2. response'[r] = computed
    BY <1>1, <2>1 DEF Hold
  <2>3. computed.frame = r /\ computed.code = ""
    OBVIOUS
  <2> QED
    BY <1>1, <1>7, <2>2, <2>3 DEF Compute, Hand
<1>8. CASE Persist(r)
  <2>1. response'[r].frame = r /\ response'[r].code = "" /\ r \in decisions'
    BY <1>2, <1>8 DEF Persist, Hand
  <2>2. CASE Entry[r] = "authorize"
    BY <1>1, <1>8, <2>1, <2>2 DEF Persist, Hand
  <2>3. CASE Entry[r] # "authorize"
    <3>1. Sound(response'[r], decisions', lifecycles', retries')
      BY <2>1, <2>3 DEF Sound
    <3>2. pc'[r] = Finished(r)
      BY <1>1, <1>8, <2>3 DEF Persist
    <3>3. Hand(r, Finished(r), response'[r], decisions', lifecycles', retries')
      BY <2>1, <3>1, FinishedHand
    <3> QED
      BY <3>2, <3>3
  <2> QED
    BY <2>2, <2>3
<1>9. CASE PersistFails(r)
  <2>1. CASE Tolerated(r)
    <3>1. /\ response'[r].frame = r
          /\ response'[r].code = "DB_PERSIST_FAILED_LOCAL_RESPONSE_ONLY"
      BY <1>9, <2>1, Marked DEF PersistFails
    <3>2. Sound(response'[r], decisions', lifecycles', retries')
      BY <2>1, <3>1 DEF Sound, Tolerated
    <3> QED
      BY <1>1, <1>9, <2>1, <3>1, <3>2, FinishedHand DEF PersistFails
  <2>2. CASE ~Tolerated(r)
    BY <1>3, <1>9, <2>2 DEF PersistFails, Thrown
  <2> QED
    BY <2>1, <2>2
<1>10. CASE Audit(r)
  <2>1. /\ response'[r].frame = r /\ response'[r].code = ""
        /\ r \in decisions' /\ r \in lifecycles'
    BY <1>2, <1>10 DEF Audit, Hand
  <2>2. Sound(response'[r], decisions', lifecycles', retries')
    BY <2>1 DEF Sound
  <2> QED
    BY <1>1, <1>10, <2>1, <2>2, FinishedHand DEF Audit
<1>11. ASSUME pc[r] \in {"auditing", "scheduling"}, Unaudited(r) PROVE Held
  <2>1. /\ response'[r].frame = r
        /\ response'[r].code = "PGL_AUDIT_UNAVAILABLE_DECISION_PERSISTED"
    BY <1>11, Marked DEF Unaudited
  <2>2. r \in decisions'
    BY <1>2, <1>11 DEF Hand
  <2>3. Sound(response'[r], decisions', lifecycles', retries')
    BY <2>1, <2>2 DEF Sound
  <2> QED
    BY <1>1, <1>11, <2>1, <2>3, FinishedHand DEF Unaudited
<1>12. CASE AuditFails(r)
  <2>1. CASE Mode[r] = "scenario_planning"
    BY <1>1, <1>2, <1>12, <2>1 DEF AuditFails, Hand
  <2>2. CASE Mode[r] # "scenario_planning"
    BY <1>11, <1>12, <2>2 DEF AuditFails
  <2> QED
    BY <2>1, <2>2
<1>13. CASE Schedule(r)
  <2>1. response'[r].frame = r /\ response'[r].code = "PGL_AUDIT_RETRY_SCHEDULED"
    BY <1>13, Marked DEF Schedule
  <2>2. r \in decisions' /\ r \in retries'
    BY <1>2, <1>13 DEF Hand, Schedule
  <2>3. Sound(response'[r], decisions', lifecycles', retries')
    BY <2>1, <2>2 DEF Sound
  <2> QED
    BY <1>1, <1>13, <2>1, <2>3, FinishedHand DEF Schedule
<1>14. CASE ScheduleFails(r)
  BY <1>11, <1>14 DEF ScheduleFails
<1>15. CASE Cache(r) \/ Store(r) \/ StoreFails(r) \/ Reply(r)
  BY <1>1, <1>2, <1>15 DEF Cache, Store, StoreFails, Reply, Hand
<1> QED
  BY <1>4, <1>5, <1>6, <1>7, <1>8, <1>9, <1>10, <1>12, <1>13, <1>14, <1>15 DEF Serve, Fail

\* Crashes and expiries take cache entries away and move no handler but to "gone".
LEMMA NoEntryStored == \A k, D, L, R : Stored(k, NoEntry, D, L, R)
BY DEF Stored, NoEntry

LEMMA CacheStep ==
  ASSUME Inv, [Next]_vars
  PROVE  CacheInv'
<1>1. TypeOK /\ PcType /\ CacheType
  BY Types DEF Inv
<1>2. ASSUME NEW r \in Requests, Serve(r) \/ Fail(r), UNCHANGED cache PROVE CacheInv'
  BY <1>1, <1>2, StepMovesOne, CacheNext
<1>3. ASSUME NEW r \in Requests, Cache(r) \/ Store(r) \/ StoreFails(r) PROVE CacheInv'
  <2>1. Key[r] \in Keys /\ Sound(response[r], decisions, lifecycles, retries)
    BY <1>3 DEF Inv, HandInv, Hand, Cache, Store, StoreFails
  <2>2. response[r].frame # None /\ Key[response[r].frame] = Key[r]
    BY <1>3 DEF Inv, HandInv, Hand, Shares, Cache, Store, StoreFails
  <2>3. Key[r] # NoKey
    BY <2>1
  <2>4. Stored(Key[r], response[r], decisions, lifecycles, retries)
    BY <2>1, <2>2, <2>3 DEF Stored
  <2>5. UNCHANGED durable
    BY <1>3 DEF Cache, Store, StoreFails
  <2>6. ASSUME NEW k \in Keys
        PROVE  Stored(k, redis'[k], decisions, lifecycles, retries)
    <3>1. redis'[k] \in {redis[k], response[r]} /\ (k # Key[r] => redis'[k] = redis[k])
      BY <1>1, <1>3 DEF Cache, Store, StoreFails, CacheType
    <3> QED
      BY <2>4, <3>1 DEF Inv, CacheInv
  <2>7. ASSUME NEW k \in Keys, NEW p \in Procs
        PROVE  Stored(k, memory'[p][k], decisions, lifecycles, retries)
    <3>1. memory'[p][k] \in {memory[p][k], response[r]}
          /\ (k # Key[r] => memory'[p][k] = memory[p][k])
      BY <1>1, <1>3 DEF Cache, Store, StoreFails, CacheType
    <3> QED
      BY <2>4, <3>1 DEF Inv, CacheInv
  <2> QED
    BY <2>5, <2>6, <2>7 DEF CacheInv, durable
<1>4. ASSUME NEW p \in Procs, Crash(p) PROVE CacheInv'
  <2>1. UNCHANGED durable /\ UNCHANGED redis
    BY <1>4 DEF Crash
  <2>2. \A q \in Procs, k \in Keys : memory'[q][k] \in {memory[q][k], NoEntry}
    BY <1>1, <1>4 DEF Crash, CacheType
  <2> QED
    BY <2>1, <2>2, NoEntryStored DEF Inv, CacheInv, durable
<1>5. ASSUME NEW k \in Keys, Expire(k) PROVE CacheInv'
  <2>1. UNCHANGED durable
    BY <1>5 DEF Expire
  <2>2. \A j \in Keys : redis'[j] \in {redis[j], NoEntry}
    BY <1>1, <1>5 DEF Expire, CacheType
  <2>3. \A q \in Procs, j \in Keys : memory'[q][j] \in {memory[q][j], NoEntry}
    BY <1>1, <1>5 DEF Expire, CacheType
  <2> QED
    BY <2>1, <2>2, <2>3, NoEntryStored DEF Inv, CacheInv, durable
<1>6. CASE UNCHANGED vars
  BY <1>6, CacheNext DEF vars, Grows, durable
<1>7. ASSUME NEW r \in Requests, Serve(r) \/ Fail(r), ~UNCHANGED cache
      PROVE  Cache(r) \/ Store(r) \/ StoreFails(r)
  BY <1>7 DEF Arrives, Serve, Lookup, NoLookup, Compute, Persist, Audit, Schedule, Reply, Fail,
     Refuse, ComputeFails, PersistFails, AuditFails, ScheduleFails, HeadersFail
<1> QED
  BY <1>2, <1>3, <1>4, <1>5, <1>6, <1>7 DEF Next

LEMMA InvNext == Inv /\ [Next]_vars => Inv'
<1> SUFFICES ASSUME Inv, [Next]_vars PROVE Inv'
  OBVIOUS
<1>1. ASSUME NEW r \in Requests, Serve(r) \/ Fail(r) PROVE HandInv'
  BY <1>1, StepMovesOne, HandStep, HandNext DEF Inv
<1>2. ASSUME NEW p \in Procs, Crash(p) PROVE HandInv'
  <2>1. UNCHANGED <<response, durable>>
    BY <1>2 DEF Crash
  <2>2. \A r \in Requests : pc'[r] \in {pc[r], "gone"}
    BY <1>2 DEF Crash, Inv, TypeOK
  <2>3. ASSUME NEW r \in Requests
        PROVE Hand(r, pc'[r], response'[r], decisions', lifecycles', retries')
    BY <2>1, <2>2 DEF Inv, HandInv, Hand, durable
  <2> QED
    BY <2>3 DEF HandInv
<1>3. ASSUME NEW k \in Keys, Expire(k) PROVE HandInv'
  BY <1>3 DEF Expire, handler, durable, Inv, HandInv
<1>4. ASSUME UNCHANGED vars PROVE HandInv'
  BY <1>4 DEF vars, handler, durable, Inv, HandInv
<1>5. HandInv'
  BY <1>1, <1>2, <1>3, <1>4 DEF Next
<1> QED
  BY <1>5, TypeNext, CacheStep DEF Inv

LEMMA InvAlways == Spec => []Inv
<1>1. Init => Inv
  <2>1. Init => TypeOK
    BY DEF Init, TypeOK, Open
  <2>2. Init => HandInv
    BY DEF Init, HandInv, Hand
  <2>3. Init => CacheInv
    BY NoEntryStored DEF Init, CacheInv
  <2> QED
    BY <2>1, <2>2, <2>3 DEF Inv
<1> QED
  BY <1>1, InvNext, PTL DEF Spec

\* Whatever fails, overlaps, expires or dies, for any number of requests, processes
\* and keys: an answer that lets work go ahead has its decision in the database, or
\* is a scenario's that says it has not, and only a request of the scenario's key is
\* given that; and authorize's answers tell the truth about the audit.
THEOREM DecisionSafe == Spec => [](TypeOK /\ AllowedIsDurable /\ AuditAccounted)
<1>1. Inv => TypeOK /\ AllowedIsDurable /\ AuditAccounted
  <2> SUFFICES ASSUME Inv PROVE TypeOK /\ AllowedIsDurable /\ AuditAccounted
    OBVIOUS
  <2>1. \A r \in Requests : Answered(r) =>
          /\ response[r].frame # None
          /\ Sound(response[r], decisions, lifecycles, retries)
          /\ Shares(r, response[r].frame)
    BY DEF Inv, HandInv, Hand, Answered
  <2>2. AllowedIsDurable
    BY <2>1 DEF Sound, AllowedIsDurable
  <2>3. \A r \in Requests : Answered(r) => Entry[response[r].frame] = Entry[r]
    <3>1. \A r \in Requests : Answered(r) => response[r].frame \in Requests
      BY <2>1, Types, Framed DEF Inv, AnswerType, Response
    <3> QED
      BY <2>1, <3>1 DEF Shares
  <2>4. AuditAccounted
    BY <2>1, <2>3 DEF Sound, AuditAccounted
  <2> QED
    BY <2>2, <2>4 DEF Inv
<1> QED
  BY <1>1, InvAlways, PTL

\* An authorization's answer, first hand or replayed, tells the truth about what is
\* recorded of it and what is scheduled.
COROLLARY AuditsAccounted == Spec => []AuditAccounted
BY DecisionSafe, PTL

(***************************************************************************)
(* Repeats. A decision is recorded once something speaks of it: a row, a   *)
(* cache entry or an answer. What is inductive is that a recorded decision *)
(* of a key either has its entry in Redis, where the next request of the   *)
(* key finds it, or is still being made, where the next request is its     *)
(* rival, or something took the entry away.                                *)
(***************************************************************************)
Holds == {"persisting", "auditing", "scheduling", "caching", "storing"}

Cached(f)   == \E k \in Keys : redis[k].frame = f \/ \E p \in Procs : memory[p][k].frame = f
Handed(f)   == \E r \in Requests : pc[r] \in {"replying", "answered"} /\ response[r].frame = f
Recorded(f) == f \in decisions \/ Cached(f) \/ Handed(f)
Deciding(f) == pc[f] \in Open \/ Recorded(f)

OwnInv   == \A r \in Requests : pc[r] \in Holds => response[r].frame = r
FreshInv == \A f \in Requests : pc[f] \in {"new", "computing", "persisting"} => ~Recorded(f)
KeptInv  ==
  \A f \in Requests :
    Key[f] # NoKey /\ Recorded(f) /\ pc[f] \notin Open /\ Key[f] \notin disturbed =>
      redis[Key[f]] # NoEntry
PairInv  ==
  \A f, g \in Requests :
    f # g /\ Key[f] = Key[g] /\ Key[f] # NoKey /\ Deciding(f) /\ Deciding(g) =>
      {f, g} \in overlap \/ Key[f] \in disturbed

RepeatsInv == OwnInv /\ FreshInv /\ KeptInv /\ PairInv

LEMMA NothingThrown == Refusal.frame = None /\ \A r \in Requests : Thrown(r).frame = None
<1>1. Refusal.frame = None /\ Fallback.frame = None
  BY DEF Refusal, Fallback
<1> QED
  BY <1>1 DEF Thrown

\* A request that fails to persist, is audited or scheduled holds its own response.
LEMMA StillOwn ==
  ASSUME Inv, OwnInv, NEW r \in Requests,
         Schedule(r) \/ PersistFails(r) \/ AuditFails(r) \/ ScheduleFails(r)
  PROVE  pc[r] \in Holds /\ (response'[r].frame = r \/ response'[r].frame = None)
<1>1. pc[r] \in {"persisting", "auditing", "scheduling"}
  BY DEF Schedule, PersistFails, AuditFails, ScheduleFails
<1>2. response[r].frame = r /\ response \in [Requests -> Answers]
  BY <1>1, Types DEF OwnInv, Holds, Inv, AnswerType
<1>3. \A c : Mark(r, c) => response'[r].frame = r
  BY <1>1, Marked
<1>4. Answer(r, Thrown(r)) => response'[r].frame = None
  BY <1>2, NothingThrown DEF Answer
<1>5. UNCHANGED response \/ (\E c : Mark(r, c)) \/ Answer(r, Thrown(r))
  BY DEF Schedule, PersistFails, AuditFails, ScheduleFails, Unaudited
<1> QED
  BY <1>1, <1>2, <1>3, <1>4, <1>5 DEF Holds

\* Each step of a handler leaves it with its own response while it holds one.
LEMMA OwnStep ==
  ASSUME Inv, OwnInv, NEW r \in Requests, Serve(r) \/ Fail(r), pc'[r] \in Holds
  PROVE  response'[r].frame = r
<1>1. pc \in [Requests -> Places] /\ response \in [Requests -> Answers]
  BY Types DEF Inv, PcType, AnswerType
<1>2. CASE Compute(r)
  <2>1. PICK a \in {"proceed", "deny"} : Hold(r, [frame |-> r, action |-> a, code |-> ""])
    BY <1>2 DEF Compute
  <2>2. response'[r] = [frame |-> r, action |-> a, code |-> ""]
    BY <1>1, <2>1 DEF Hold
  <2>3. [frame |-> r, action |-> a, code |-> ""].frame = r
    OBVIOUS
  <2> QED
    BY <2>2, <2>3, Zenon
<1>3. CASE Persist(r) \/ Audit(r) \/ Cache(r)
  BY <1>1, <1>3 DEF Persist, Audit, Cache, OwnInv, Holds
<1>4. CASE Schedule(r) \/ PersistFails(r) \/ AuditFails(r) \/ ScheduleFails(r)
  <2>1. pc'[r] # "answered"
    BY DEF Holds
  <2>2. ~Answer(r, Thrown(r))
    BY <1>1, <2>1 DEF Answer, Goto
  <2>3. UNCHANGED response \/ \E c : Mark(r, c)
    BY <1>4, <2>2 DEF Schedule, PersistFails, AuditFails, ScheduleFails, Unaudited
  <2>4. pc[r] \in {"persisting", "auditing", "scheduling"}
    BY <1>4 DEF Schedule, PersistFails, AuditFails, ScheduleFails
  <2> QED
    BY <2>3, <2>4, Marked DEF OwnInv, Holds
<1>5. ~(Lookup(r, FALSE) \/ Lookup(r, TRUE) \/ NoLookup(r) \/ Store(r) \/ Reply(r) \/ Refuse(r)
        \/ ComputeFails(r) \/ StoreFails(r) \/ HeadersFail(r))
  BY <1>1 DEF Lookup, NoLookup, Store, Reply, Refuse, ComputeFails, StoreFails, HeadersFail,
     Answer, Goto, Holds
<1> QED
  BY <1>2, <1>3, <1>4, <1>5 DEF Serve, Fail

\* A frame in the cache comes from before, or is what the handler has in hand.
LEMMA CachedStep ==
  ASSUME TypeOK, OwnInv, NEW r \in Requests, Serve(r) \/ Fail(r), NEW f \in Requests, Cached(f)'
  PROVE  Cached(f) \/ (f = r /\ pc[r] \in Holds)
<1>1. memory \in [Procs -> [Keys -> Entries]] /\ redis \in [Keys -> Entries]
  BY Types DEF CacheType
<1>2. CASE UNCHANGED cache
  BY <1>2 DEF Cached, cache
<1>3. CASE Cache(r)
  <2>1. /\ pc[r] = "caching" /\ redis' = redis
        /\ memory' = [memory EXCEPT ![Proc[r]][Key[r]] = response[r]]
    BY <1>3 DEF Cache
  <2>2. response[r].frame = r
    BY <2>1 DEF OwnInv, Holds
  <2>3. \A p \in Procs, k \in Keys :
          memory'[p][k] = memory[p][k] \/ memory'[p][k] = response[r]
    BY <1>1, <2>1
  <2> QED
    BY <2>1, <2>2, <2>3 DEF Cached, Holds
<1>4. CASE Store(r) \/ StoreFails(r)
  <2>1. /\ pc[r] = "storing" /\ memory' = memory
        /\ redis' = redis \/ redis' = [redis EXCEPT ![Key[r]] = response[r]]
    BY <1>4 DEF Store, StoreFails
  <2>2. response[r].frame = r
    BY <2>1 DEF OwnInv, Holds
  <2>3. \A k \in Keys : redis'[k] = redis[k] \/ redis'[k] = response[r]
    BY <1>1, <2>1
  <2> QED
    BY <2>1, <2>2, <2>3 DEF Cached, Holds
<1> QED
  BY <1>2, <1>3, <1>4 DEF Serve, Lookup, NoLookup, Compute, Persist, Audit, Schedule, Reply, Fail,
     Refuse, ComputeFails, PersistFails, AuditFails, ScheduleFails, HeadersFail

\* So does a frame in an answer; one answered from the cache comes from there.
LEMMA HandedStep ==
  ASSUME Inv, OwnInv, NEW r \in Requests, Serve(r) \/ Fail(r), NEW f \in Requests, Handed(f)'
  PROVE  Handed(f) \/ Cached(f) \/ (f = r /\ pc[r] \in Holds)
<1>1. pc \in [Requests -> Places] /\ response \in [Requests -> Answers]
  BY Types DEF Inv, PcType, AnswerType
<1>2. PICK s \in Requests : pc'[s] \in {"replying", "answered"} /\ response'[s].frame = f
  BY DEF Handed
<1>3. CASE s # r
  BY <1>2, <1>3, StepMovesOne DEF Others, Handed, Inv
<1>4. ASSUME s = r, NEW b \in BOOLEAN, Lookup(r, b) PROVE Cached(f)
  <2>1. Found(r, b) # NoEntry
    BY <1>1, <1>2, <1>4 DEF Lookup, Goto
  <2>2. response'[r] = Found(r, b) /\ Key[r] \in Keys
    BY <1>1, <1>4, <2>1 DEF Lookup, Hold
  <2> QED
    BY <1>2, <1>4, <2>2 DEF Found, Cached
<1>5. CASE s = r /\ (NoLookup(r) \/ Compute(r) \/ Refuse(r) \/ ComputeFails(r) \/ HeadersFail(r))
  <2>1. CASE NoLookup(r) \/ Compute(r)
    BY <1>1, <1>2, <1>5, <2>1 DEF NoLookup, Compute, Goto
  <2>2. CASE Refuse(r) \/ ComputeFails(r) \/ HeadersFail(r)
    <3>1. Fallback.frame = None
      BY DEF Fallback
    <3>2. response'[r].frame = None
      BY <1>1, <2>2, <3>1, NothingThrown DEF Refuse, ComputeFails, HeadersFail, Answer
    <3> QED
      BY <1>2, <1>5, <3>2
  <2> QED
    BY <1>5, <2>1, <2>2
<1>6. CASE s = r /\ (Persist(r) \/ Audit(r) \/ Cache(r) \/ Store(r) \/ StoreFails(r))
  <2>1. pc[r] \in Holds /\ response' = response
    BY <1>6 DEF Persist, Audit, Cache, Store, StoreFails, Holds
  <2> QED
    BY <1>2, <1>6, <2>1 DEF OwnInv
<1>7. CASE s = r /\ (Schedule(r) \/ PersistFails(r) \/ AuditFails(r) \/ ScheduleFails(r))
  BY <1>2, <1>7, StillOwn
<1>8. CASE s = r /\ Reply(r)
  BY <1>2, <1>8 DEF Reply, Handed
<1> QED
  BY <1>3, <1>4, <1>5, <1>6, <1>7, <1>8 DEF Serve, Fail

LEMMA RecordedStep ==
  ASSUME Inv, OwnInv, NEW r \in Requests, Serve(r) \/ Fail(r), NEW f \in Requests, Recorded(f)'
  PROVE  Recorded(f) \/ (f = r /\ pc[r] \in Holds)
<1>1. CASE f \in decisions'
  <2>1. decisions' = decisions \/ (decisions' = decisions \cup {r} /\ pc[r] = "persisting")
    BY DEF Serve, Lookup, NoLookup, Compute, Persist, Audit, Schedule, Cache, Store, Reply, Fail,
       Refuse, ComputeFails, PersistFails, AuditFails, ScheduleFails, StoreFails, HeadersFail, durable
  <2> QED
    BY <1>1, <2>1 DEF Recorded, Holds
<1>2. CASE Cached(f)'
  BY <1>2, CachedStep DEF Recorded, Inv
<1>3. CASE Handed(f)'
  BY <1>3, HandedStep DEF Recorded
<1> QED
  BY <1>1, <1>2, <1>3 DEF Recorded

\* What the cache and the histories go through in a handler's step.
LEMMA HistoryGrows ==
  ASSUME NEW r \in Requests, Serve(r) \/ Fail(r)
  PROVE  overlap \subseteq overlap' /\ disturbed \subseteq disturbed'
BY DEF Disturb, history, Serve, Lookup, NoLookup, Compute, Persist, Audit, Schedule, Cache, Store,
   Reply, Fail, Refuse, ComputeFails, PersistFails, AuditFails, ScheduleFails, StoreFails, HeadersFail

LEMMA RedisKept ==
  ASSUME Inv, OwnInv, NEW r \in Requests, Serve(r) \/ Fail(r), NEW k \in Keys, redis[k] # NoEntry
  PROVE  redis'[k] # NoEntry
<1>1. redis \in [Keys -> Entries]
  BY Types DEF Inv, CacheType
<1>2. CASE UNCHANGED redis
  BY <1>2
<1>3. CASE Store(r) \/ StoreFails(r)
  <2>1. response[r].frame = r
    BY <1>3 DEF Store, StoreFails, OwnInv, Holds
  <2>2. response[r] # NoEntry
    BY <2>1 DEF NoEntry
  <2>3. redis'[k] = redis[k] \/ redis'[k] = response[r]
    BY <1>1, <1>3 DEF Store, StoreFails
  <2> QED
    BY <2>2, <2>3
<1> QED
  BY <1>2, <1>3 DEF Serve, Lookup, NoLookup, Compute, Persist, Audit, Schedule, Cache, Reply, Fail,
     Refuse, ComputeFails, PersistFails, AuditFails, ScheduleFails, HeadersFail, cache

\* A request of a key that is over and recorded has left its entry, or lost it.
LEMMA OverKeeps ==
  ASSUME Inv, OwnInv, FreshInv, NEW r \in Requests, Serve(r) \/ Fail(r), Key[r] # NoKey,
         pc[r] \in Open, pc'[r] \notin Open, Recorded(r)', Key[r] \notin disturbed'
  PROVE  redis'[Key[r]] # NoEntry
<1>1. /\ pc \in [Requests -> Places] /\ response \in [Requests -> Answers]
      /\ redis \in [Keys -> Entries]
  BY Types DEF Inv, PcType, AnswerType, CacheType
<1>2. Finished(r) = "caching"
  BY DEF Finished
<1>3. CASE Store(r)
  <2>1. response[r].frame = r
    BY <1>3 DEF Store, OwnInv, Holds
  <2>2. redis'[Key[r]] = response[r]
    BY <1>1, <1>3 DEF Store
  <2> QED
    BY <2>1, <2>2 DEF NoEntry
<1>4. ASSUME StoreFails(r) PROVE FALSE
  BY <1>4 DEF StoreFails, Disturb
<1>5. ASSUME ComputeFails(r) PROVE FALSE
  BY <1>5, RecordedStep DEF ComputeFails, FreshInv, Holds
<1>6. ASSUME PersistFails(r) PROVE FALSE
  <2>1. pc[r] = "persisting" /\ ~Recorded(r)
    BY <1>6 DEF PersistFails, FreshInv
  <2>2. Answer(r, Thrown(r))
    BY <1>1, <1>2, <1>6 DEF PersistFails, Goto, Open
  <2>3. decisions' = decisions /\ UNCHANGED cache
    BY <1>6 DEF PersistFails, Disturb
  <2>4. response'[r].frame = None
    BY <1>1, <2>2, NothingThrown DEF Answer
  <2>5. ~Handed(r)'
    <3> SUFFICES ASSUME NEW s \in Requests, pc'[s] \in {"replying", "answered"},
                        response'[s].frame = r
                 PROVE  FALSE
      BY DEF Handed
    <3>1. s # r
      BY <2>4
    <3>2. Handed(r)
      BY <3>1, StepMovesOne DEF Others, Handed, Inv
    <3> QED
      BY <2>1, <3>2 DEF Recorded
  <2>6. ~Cached(r)'
    BY <2>1, <2>3 DEF Recorded, Cached, cache
  <2> QED
    BY <2>1, <2>3, <2>5, <2>6 DEF Recorded
<1>7. ASSUME Persist(r) \/ Audit(r) \/ AuditFails(r) \/ Schedule(r) \/ ScheduleFails(r)
             \/ Cache(r) \/ Compute(r)
      PROVE  FALSE
  BY <1>1, <1>2, <1>7 DEF Persist, Audit, AuditFails, Schedule, ScheduleFails, Cache, Compute,
     Unaudited, Goto, Open
<1>8. ASSUME Lookup(r, FALSE) \/ Lookup(r, TRUE) \/ NoLookup(r) \/ Refuse(r) \/ Reply(r) \/ HeadersFail(r)
      PROVE  FALSE
  BY <1>8 DEF Lookup, NoLookup, Refuse, Reply, HeadersFail, Arrives, Open
<1> QED
  BY <1>3, <1>4, <1>5, <1>6, <1>7, <1>8 DEF Serve, Fail

\* A request starts to decide where its lookup misses: it meets the rivals that
\* are open, and misses the entry of one that is over only if that was lost.
LEMMA StartKeeps ==
  ASSUME Inv, RepeatsInv, NEW r \in Requests, Serve(r) \/ Fail(r), Key[r] # NoKey,
         pc[r] \notin Open, pc'[r] \in Open,
         NEW g \in Requests, g # r, Key[g] = Key[r], Deciding(g)
  PROVE  {r, g} \in overlap' \/ Key[r] \in disturbed'
<1>1. pc \in [Requests -> Places]
  BY Types DEF Inv, PcType
<1>2. PICK b \in BOOLEAN : Lookup(r, b)
  BY <1>1 DEF Serve, Fail, NoLookup, Compute, Persist, Audit, Schedule, Cache, Store, Reply,
     Refuse, ComputeFails, PersistFails, AuditFails, ScheduleFails, StoreFails, HeadersFail,
     Answer, Goto, Open
<1>3. Found(r, b) = NoEntry /\ overlap' = overlap \cup {{r, s} : s \in Rivals(r)}
  BY <1>1, <1>2 DEF Lookup, Goto, Open
<1>4. CASE pc[g] \in Open
  BY <1>3, <1>4 DEF Rivals
<1>5. CASE pc[g] \notin Open
  <2>1. Key[g] \in disturbed \/ redis[Key[g]] # NoEntry
    BY <1>5 DEF RepeatsInv, KeptInv, Deciding
  <2>2. redis[Key[g]] # NoEntry => b = TRUE
    BY <1>3 DEF Found
  <2>3. b = TRUE => Key[r] \in disturbed'
    BY <1>2 DEF Lookup, Disturb
  <2> QED
    BY <2>1, <2>2, <2>3, HistoryGrows
<1> QED
  BY <1>4, <1>5

\* Every step of a handler keeps the invariant.
LEMMA HandlerRepeats ==
  ASSUME Inv, RepeatsInv, NEW r \in Requests, Serve(r) \/ Fail(r)
  PROVE  RepeatsInv'
<1>1. /\ \A s \in Requests \ {r} : pc'[s] = pc[s] /\ response'[s] = response[s]
      /\ overlap \subseteq overlap' /\ disturbed \subseteq disturbed'
      /\ pc \in [Requests -> Places]
  BY StepMovesOne, HistoryGrows, Types DEF Others, Inv, PcType
<1>2. \A f \in Requests : Recorded(f)' => Recorded(f) \/ (f = r /\ pc[r] \in Holds)
  BY RecordedStep DEF RepeatsInv
<1>3. Holds \subseteq Open
  BY DEF Holds, Open
<1>4. OwnInv'
  BY <1>1, OwnStep DEF RepeatsInv, OwnInv
<1>5. FreshInv'
  <2> SUFFICES ASSUME NEW f \in Requests, pc'[f] \in {"new", "computing", "persisting"}, Recorded(f)'
               PROVE  FALSE
    BY DEF FreshInv
  <2>1. CASE f # r
    BY <1>1, <1>2, <2>1 DEF RepeatsInv, FreshInv
  <2>2. CASE f = r
    <3>1. pc[r] \in {"new", "computing"}
      BY <1>1, <2>2 DEF Serve, Fail, Lookup, NoLookup, Compute, Persist, Audit, Schedule, Cache,
         Store, Reply, Refuse, ComputeFails, PersistFails, AuditFails, ScheduleFails, StoreFails,
         HeadersFail, Answer, Goto, Unaudited, Finished, Arrives
    <3> QED
      BY <1>2, <2>2, <3>1 DEF RepeatsInv, FreshInv, Holds
  <2> QED
    BY <2>1, <2>2
<1>6. KeptInv'
  <2> SUFFICES ASSUME NEW f \in Requests, Key[f] # NoKey, Recorded(f)', pc'[f] \notin Open,
                      Key[f] \notin disturbed'
               PROVE  redis'[Key[f]] # NoEntry
    BY DEF KeptInv
  <2>1. CASE f = r /\ pc[r] \in Open
    BY <2>1, OverKeeps DEF RepeatsInv
  <2>2. CASE ~(f = r /\ pc[r] \in Open)
    <3>1. Recorded(f) /\ pc[f] \notin Open /\ Key[f] \notin disturbed
      BY <1>1, <1>2, <1>3, <2>2
    <3>2. redis[Key[f]] # NoEntry /\ Key[f] \in Keys
      BY <3>1 DEF RepeatsInv, KeptInv
    <3> QED
      BY <3>2, RedisKept DEF RepeatsInv
  <2> QED
    BY <2>1, <2>2
<1>7. PairInv'
  <2>1. ASSUME NEW f \in Requests, Deciding(f)'
        PROVE  Deciding(f) \/ (f = r /\ pc[r] \notin Open /\ pc'[r] \in Open)
    BY <1>1, <1>2, <1>3, <2>1 DEF Deciding
  <2> SUFFICES ASSUME NEW f \in Requests, NEW g \in Requests, f # g, Key[f] = Key[g],
                      Key[f] # NoKey, Deciding(f)', Deciding(g)'
               PROVE  {f, g} \in overlap' \/ Key[f] \in disturbed'
    BY DEF PairInv
  <2>2. CASE Deciding(f) /\ Deciding(g)
    BY <1>1, <2>2 DEF RepeatsInv, PairInv
  <2>3. CASE ~Deciding(f)
    BY <2>1, <2>3, StartKeeps
  <2>4. CASE ~Deciding(g)
    <3>1. {g, f} \in overlap' \/ Key[g] \in disturbed'
      BY <2>1, <2>4, StartKeeps
    <3>2. {g, f} = {f, g}
      OBVIOUS
    <3> QED
      BY <3>1, <3>2
  <2> QED
    BY <2>2, <2>3, <2>4
<1> QED
  BY <1>4, <1>5, <1>6, <1>7 DEF RepeatsInv

\* A crash and an expiry record nothing, and disturb the keys they take from.
LEMMA LossRepeats ==
  ASSUME Inv, RepeatsInv, (\E p \in Procs : Crash(p)) \/ (\E k \in Keys : Expire(k))
  PROVE  RepeatsInv'
<1>1. /\ pc \in [Requests -> Places] /\ memory \in [Procs -> [Keys -> Entries]]
      /\ redis \in [Keys -> Entries]
  BY Types DEF Inv, PcType, CacheType
<1> DEFINE Lost ==
      /\ \A r \in Requests : pc'[r] = pc[r] \/ pc'[r] = "gone"
      /\ response' = response /\ decisions' = decisions
      /\ overlap' = overlap /\ disturbed \subseteq disturbed'
      /\ \A r \in Requests : pc'[r] # pc[r] /\ Key[r] # NoKey => Key[r] \in disturbed'
      /\ \A k \in Keys : redis'[k] = redis[k] \/ (redis'[k] = NoEntry /\ k \in disturbed')
      /\ \A p \in Procs, k \in Keys : memory'[p][k] = memory[p][k] \/ memory'[p][k] = NoEntry
<1>2. Lost
  <2>1. ASSUME NEW p \in Procs, Crash(p) PROVE Lost
    BY <1>1, <2>1 DEF Crash, durable
  <2>2. ASSUME NEW k \in Keys, Expire(k) PROVE Lost
    BY <1>1, <2>2 DEF Expire, handler, durable
  <2> QED
    BY <2>1, <2>2
<1>3. \A f \in Requests : Recorded(f)' => Recorded(f)
  <2> SUFFICES ASSUME NEW f \in Requests, Recorded(f)' PROVE Recorded(f)
    OBVIOUS
  <2>1. NoEntry.frame = None
    BY DEF NoEntry
  <2>2. CASE Cached(f)'
    BY <1>2, <2>1, <2>2 DEF Cached, Recorded
  <2>3. CASE Handed(f)'
    BY <1>2, <2>3 DEF Handed, Recorded
  <2> QED
    BY <1>2, <2>2, <2>3 DEF Recorded
<1>4. "gone" \notin Holds /\ "gone" \notin Open
  BY DEF Holds, Open
<1>5. OwnInv' /\ FreshInv'
  BY <1>2, <1>3, <1>4 DEF RepeatsInv, OwnInv, FreshInv
<1>6. KeptInv'
  BY <1>2, <1>3 DEF RepeatsInv, KeptInv
<1>7. PairInv'
  <2>1. \A f \in Requests : Deciding(f)' => Deciding(f)
    BY <1>2, <1>3, <1>4 DEF Deciding
  <2> QED
    BY <1>2, <2>1 DEF RepeatsInv, PairInv
<1> QED
  BY <1>5, <1>6, <1>7 DEF RepeatsInv

LEMMA RepeatsNext == Inv /\ RepeatsInv /\ [Next]_vars => RepeatsInv'
<1> SUFFICES ASSUME Inv, RepeatsInv, [Next]_vars PROVE RepeatsInv'
  OBVIOUS
<1>1. ASSUME NEW r \in Requests, Serve(r) \/ Fail(r) PROVE RepeatsInv'
  BY <1>1, HandlerRepeats
<1>2. CASE (\E p \in Procs : Crash(p)) \/ (\E k \in Keys : Expire(k))
  BY <1>2, LossRepeats
<1>3. CASE UNCHANGED vars
  BY <1>3 DEF vars, handler, durable, cache, history, RepeatsInv, OwnInv, FreshInv, KeptInv,
     PairInv, Deciding, Recorded, Cached, Handed
<1> QED
  BY <1>1, <1>2, <1>3 DEF Next

\* A key is decided twice only if its requests overlapped or its entry was lost,
\* for any number of requests, processes and keys and whatever fails.
THEOREM RepeatsAccounted == Spec => []RepeatsExplained
<1>1. Init => RepeatsInv
  <2> SUFFICES ASSUME Init PROVE RepeatsInv
    OBVIOUS
  <2>1. \A f \in Requests : ~Deciding(f) /\ ~Recorded(f) /\ pc[f] \notin Holds
    BY DEF Init, Deciding, Recorded, Cached, Handed, Open, Holds, NoEntry
  <2> QED
    BY <2>1 DEF RepeatsInv, OwnInv, FreshInv, KeptInv, PairInv
<1>2. RepeatsInv => RepeatsExplained
  <2>1. \A f \in Requests : Effective(f) => Deciding(f)
    BY DEF Effective, Deciding, Recorded, Handed
  <2> QED
    BY <2>1 DEF RepeatsInv, PairInv, RepeatsExplained
<1> QED
  BY <1>1, <1>2, InvAlways, RepeatsNext, PTL DEF Spec

(***************************************************************************)
(* Handoffs. A handoff's rows are its own, and the decision they rest on is*)
(* made by the request whose place it holds: what a place says of the rows *)
(* is only disturbed by the prospect's own steps.                          *)
(***************************************************************************)
Has(q, kind)  == <<q, kind>> \in rows
Loses(q, kind, applied) == <<q, kind, applied>> \in lost

\* While it decides: where the request may be, and what its result is worth.
DecidingPart(q) ==
  at[q] = "deciding" =>
    /\ pc[q] \in {"computing", "persisting", "replying", "answered"}
    /\ pc[q] \in {"replying", "answered"} /\ response[q] # Refusal => q \in decisions

\* What has been stored when it stands elsewhere.
RowsPart(q) ==
  /\ at[q] \in {"new", "refused", "deciding"} => \A kind \in Kinds : ~Has(q, kind)
  /\ at[q] \in {"proofing", "announcing", "handed"} =>
       q \in decisions /\ Has(q, "workload") /\ ~Has(q, "FAILED")
  /\ at[q] = "proofing" => ~Has(q, "PROOFED") /\ ~Has(q, "HANDOFF_PROOF_READY")
  /\ at[q] \in {"announcing", "handed"} => Has(q, "PROOFED")
  /\ at[q] = "caught" => ~Has(q, "FAILED")
  /\ at[q] \in {"caught", "excusing", "empty"} =>
       /\ ~Has(q, "HANDOFF_PROOF_READY")
       /\ Has(q, "PROOFED") => Loses(q, "PROOFED", TRUE)
  /\ at[q] \in {"excusing", "empty"} /\ q \in decisions =>
       Has(q, "FAILED") \/ Loses(q, "FAILED", FALSE)

\* What the rows say of each other, wherever it stands.
WholePart(q) ==
  /\ Has(q, "PROOFED") \/ Has(q, "HANDOFF_PROOF_READY") => Whole(q)
  /\ Has(q, "PROOFED") /\ Has(q, "FAILED") => Loses(q, "PROOFED", TRUE)

Part(q) == DecidingPart(q) /\ RowsPart(q) /\ WholePart(q)

HandoffType ==
  /\ at \in [Prospects -> Stages]
  /\ rows \subseteq Prospects \X Kinds
  /\ lost \subseteq Prospects \X Kinds \X BOOLEAN

HandoffInv == HandoffType /\ \A q \in Prospects : Part(q)

\* What a step leaves alone of a prospect.
Same(q) ==
  /\ at'[q] = at[q] /\ pc'[q] = pc[q] /\ response'[q] = response[q]
  /\ q \in decisions' <=> q \in decisions
  /\ \A kind \in Kinds : Has(q, kind)' <=> Has(q, kind)
  /\ Loses(q, "PROOFED", TRUE)' <=> Loses(q, "PROOFED", TRUE)
  /\ Loses(q, "FAILED", FALSE)' <=> Loses(q, "FAILED", FALSE)

LEMMA KindNames ==
  /\ "workload" \in Kinds /\ "PROOFED" \in Kinds /\ "HANDOFF_PROOF_READY" \in Kinds
  /\ "FAILED" \in Kinds /\ "HANDOFF_FAILED" \in Kinds
BY DEF Kinds

LEMMA WholeMeans ==
  \A q \in Prospects : Whole(q) <=> q \in decisions /\ Has(q, "workload") /\ Has(q, "PROOFED")
BY DEF Whole, Has

LEMMA SamePart ==
  ASSUME NEW q \in Prospects, Part(q), Same(q)
  PROVE  Part(q)'
<1>1. DecidingPart(q)'
  BY DEF Part, DecidingPart, Same
<1>2. RowsPart(q)'
  BY KindNames DEF Part, RowsPart, Same
<1>3. WholePart(q)'
  <2>1. Whole(q)' <=> q \in decisions' /\ Has(q, "workload")' /\ Has(q, "PROOFED")'
    BY DEF Whole, Has
  <2> QED
    BY <2>1, KindNames, WholeMeans DEF Part, WholePart, Same
<1> QED
  BY <1>1, <1>2, <1>3 DEF Part

\* A step of the others, which keep their hands off this one's decision.
LEMMA OnlyOwnDecision ==
  ASSUME NEW r \in Requests, Serve(r) \/ Fail(r)
  PROVE  decisions' \subseteq decisions \cup {r}
BY DEF durable, Serve, Lookup, NoLookup, Compute, Persist, Audit, Schedule, Cache, Store, Reply,
   Fail, Refuse, ComputeFails, PersistFails, AuditFails, ScheduleFails, StoreFails, HeadersFail

LEMMA ElsewhereStays ==
  ASSUME TypeOK, NEW r \in Requests, Serve(r) \/ Fail(r), NEW q \in Prospects, q # r,
         at'[q] = at[q], UNCHANGED <<rows, lost>>
  PROVE  Same(q)
<1>1. pc'[q] = pc[q] /\ response'[q] = response[q] /\ decisions \subseteq decisions'
  BY StepMovesOne, HandoffAssumption DEF Others, Grows
<1>2. q \in decisions' <=> q \in decisions
  BY <1>1, OnlyOwnDecision
<1> QED
  BY <1>1, <1>2 DEF Same, Has, Loses

\* A prospect whose request is turned away or taken up has stored nothing.
LEMMA PostKeeps ==
  ASSUME TypeOK, HandoffInv, NEW r \in Prospects, TurnAway(r) \/ Post(r)
  PROVE  HandoffInv'
<1>1. r \in Requests /\ (Serve(r) \/ Fail(r))
  BY HandoffAssumption DEF TurnAway, Post, Serve, Fail
<1>2. UNCHANGED <<rows, lost, decisions>>
  BY DEF TurnAway, Post, Refuse, NoLookup, durable
<1>3. \E p \in {"refused", "deciding"} : at' = [at EXCEPT ![r] = p]
  BY DEF TurnAway, Post, Go
<1>4. HandoffType'
  BY <1>2, <1>3 DEF HandoffInv, HandoffType, Stages
<1>5. ASSUME NEW q \in Prospects, q # r PROVE Part(q)'
  <2>1. at'[q] = at[q]
    BY <1>3, <1>5 DEF HandoffInv, HandoffType
  <2> QED
    BY <1>1, <1>2, <1>5, <2>1, ElsewhereStays, SamePart, HandoffAssumption DEF HandoffInv
<1>6. Part(r)'
  <2>1. \A kind \in Kinds : ~Has(r, kind)'
    BY <1>2 DEF TurnAway, Post, HandoffInv, Part, RowsPart, Has
  <2>2. DecidingPart(r)'
    <3>1. CASE TurnAway(r)
      BY <3>1 DEF TurnAway, Go, DecidingPart, HandoffInv, HandoffType
    <3>2. CASE Post(r)
      BY <3>2, HandoffAssumption DEF Post, NoLookup, Goto, TypeOK, DecidingPart
    <3> QED
      BY <3>1, <3>2
  <2>3. at'[r] \in {"refused", "deciding"}
    BY <1>3 DEF HandoffInv, HandoffType
  <2>4. RowsPart(r)'
    BY <2>1, <2>3 DEF RowsPart
  <2>5. WholePart(r)'
    BY <2>1, KindNames DEF WholePart
  <2> QED
    BY <2>2, <2>4, <2>5 DEF Part
<1> QED
  BY <1>4, <1>5, <1>6 DEF HandoffInv

\* The request that decides: its result is returned only once it is persisted.
LEMMA DecideKeeps ==
  ASSUME TypeOK, HandoffInv, NEW r \in Prospects, Decide(r)
  PROVE  HandoffInv'
<1>1. r \in Requests /\ (Serve(r) \/ Fail(r)) /\ Key[r] = NoKey /\ Entry[r] = "adapter"
  BY HandoffAssumption DEF Decide
<1>2. UNCHANGED <<at, rows, lost>> /\ at[r] = "deciding"
  BY DEF Decide, handoffVars
<1>3. ASSUME NEW q \in Prospects, q # r PROVE Part(q)'
  BY <1>1, <1>2, <1>3, ElsewhereStays, SamePart DEF HandoffInv
<1>4. DecidingPart(r)'
  <2>1. /\ pc[r] \in {"computing", "persisting", "replying", "answered"}
        /\ pc[r] \in {"replying", "answered"} /\ response[r] # Refusal => r \in decisions
    BY <1>2 DEF HandoffInv, Part, DecidingPart
  <2>2. CASE Compute(r) \/ ComputeFails(r)
    <3>1. CASE Compute(r)
      BY <1>1, <3>1 DEF Compute, Goto, TypeOK, DecidingPart
    <3>2. CASE ComputeFails(r)
      BY <1>1, <3>2 DEF ComputeFails, Answer, Goto, Thrown, TypeOK, DecidingPart
    <3> QED
      BY <2>2, <3>1, <3>2
  <2>3. CASE Persist(r) \/ PersistFails(r)
    BY <1>1, <2>3 DEF Persist, PersistFails, Finished, Tolerated, Goto, Answer, Thrown,
       TypeOK, DecidingPart
  <2>4. CASE Reply(r)
    BY <1>1, <2>1, <2>4 DEF Reply, Goto, TypeOK, DecidingPart, durable
  <2>5. Compute(r) \/ ComputeFails(r) \/ Persist(r) \/ PersistFails(r) \/ Reply(r)
    BY <1>1, <2>1 DEF Serve, Fail, Arrives, Lookup, NoLookup, Audit, Schedule, Cache, Store,
       Refuse, AuditFails, ScheduleFails, StoreFails, HeadersFail
  <2> QED
    BY <2>2, <2>3, <2>4, <2>5
<1>5. \A kind \in Kinds : ~Has(r, kind)'
  BY <1>2 DEF HandoffInv, Part, RowsPart, Has
<1>6. RowsPart(r)' /\ WholePart(r)'
  BY <1>2, <1>5, KindNames DEF RowsPart, WholePart
<1> QED
  BY <1>2, <1>3, <1>4, <1>6 DEF HandoffInv, HandoffType, Part

\* A step of another request, an expiry or a crash.
LEMMA ElsewhereKeeps ==
  ASSUME TypeOK, HandoffInv, Elsewhere
  PROVE  HandoffInv'
<1>1. ASSUME NEW r \in Requests \ Prospects, Serve(r) \/ Fail(r), UNCHANGED handoffVars
      PROVE  HandoffInv'
  BY <1>1, ElsewhereStays, SamePart DEF HandoffInv, HandoffType, handoffVars
<1>2. ASSUME NEW k \in Keys, Expire(k), UNCHANGED handoffVars
      PROVE  HandoffInv'
  <2>1. UNCHANGED <<pc, response, decisions, at, rows, lost>>
    BY <1>2 DEF Expire, handler, durable, handoffVars
  <2>2. \A q \in Prospects : Same(q)
    BY <2>1 DEF Same, Has, Loses
  <2> QED
    BY <2>1, <2>2, SamePart DEF HandoffInv, HandoffType
<1>3. ASSUME NEW p \in Procs, Crash(p), UNCHANGED <<rows, lost>>,
             at' = [r \in Prospects |->
                      IF Proc[r] = p /\ at[r] \notin {"new", "refused", "handed", "empty"}
                      THEN "gone" ELSE at[r]]
      PROVE  HandoffInv'
  <2>1. UNCHANGED <<response, decisions, rows, lost>>
    BY <1>3 DEF Crash, durable
  <2>2. HandoffType'
    BY <1>3 DEF HandoffInv, HandoffType, Stages
  <2>3. ASSUME NEW q \in Prospects PROVE Part(q)'
    <3>1. q \in Requests /\ Part(q)
      BY HandoffAssumption DEF HandoffInv
    <3>2. CASE Proc[q] # p
      <4>1. pc'[q] = pc[q] /\ at'[q] = at[q]
        BY <1>3, <3>1, <3>2 DEF Crash
      <4>2. Same(q)
        BY <2>1, <4>1 DEF Same, Has, Loses
      <4> QED
        BY <3>1, <4>2, SamePart
    <3>3. CASE Proc[q] = p
      <4>1. at'[q] = "gone" \/ (at'[q] = at[q] /\ at[q] # "deciding")
        <5>1. CASE at[q] \in {"new", "refused", "handed", "empty"}
          BY <1>3, <3>3, <5>1
        <5>2. CASE at[q] \notin {"new", "refused", "handed", "empty"}
          BY <1>3, <3>3, <5>2
        <5> QED
          BY <5>1, <5>2
      <4>2. DecidingPart(q)'
        BY <4>1 DEF DecidingPart
      <4>3. RowsPart(q)'
        BY <2>1, <3>1, <4>1 DEF Part, RowsPart, Has, Loses
      <4>4. WholePart(q)'
        BY <2>1, <3>1 DEF Part, WholePart, Whole, Has, Loses
      <4> QED
        BY <4>2, <4>3, <4>4 DEF Part
    <3> QED
      BY <3>2, <3>3
  <2> QED
    BY <2>2, <2>3 DEF HandoffInv
<1> QED
  BY <1>1, <1>2, <1>3 DEF Elsewhere

\* One insert, to the other prospects and to its own.
LEMMA InsertChanges ==
  ASSUME TypeOK, HandoffType, NEW r \in Prospects, NEW kind \in Kinds,
         NEW done \in Stages, NEW thrown \in Stages,
         Insert(r, kind, done, thrown), UNCHANGED vars
  PROVE  /\ HandoffType'
         /\ \A q \in Prospects : q # r => Same(q)
         /\ UNCHANGED <<decisions, pc, response>>
         /\ \A k \in Kinds : k # kind => (Has(r, k)' <=> Has(r, k))
         /\ Has(r, kind) => Has(r, kind)'
         /\ Loses(r, "PROOFED", TRUE) => Loses(r, "PROOFED", TRUE)'
         /\ Loses(r, "FAILED", FALSE) => Loses(r, "FAILED", FALSE)'
         /\ \/ at'[r] = done /\ Has(r, kind)'
            \/ at'[r] = thrown /\ Has(r, kind)' /\ Loses(r, kind, TRUE)'
            \/ at'[r] = thrown /\ Loses(r, kind, FALSE)' /\ (Has(r, kind)' <=> Has(r, kind))
<1>1. UNCHANGED <<decisions, pc, response>>
  BY DEF vars, handler, durable
<1>2. CASE rows' = rows \cup {<<r, kind>>} /\ Go(r, done) /\ UNCHANGED lost
  <2>1. HandoffType' /\ at'[r] = done /\ \A q \in Prospects : q # r => at'[q] = at[q]
    BY <1>2 DEF HandoffType, Go
  <2>2. \A q \in Prospects : q # r => Same(q)
    BY <1>1, <1>2, <2>1 DEF Same, Has, Loses
  <2>3. /\ \A k \in Kinds : k # kind => (Has(r, k)' <=> Has(r, k))
        /\ Has(r, kind)'
        /\ Loses(r, "PROOFED", TRUE) => Loses(r, "PROOFED", TRUE)'
        /\ Loses(r, "FAILED", FALSE) => Loses(r, "FAILED", FALSE)'
    BY <1>2 DEF Has, Loses
  <2> QED
    BY <1>1, <2>1, <2>2, <2>3
<1>3. CASE \E applied \in BOOLEAN :
             /\ lost' = lost \cup {<<r, kind, applied>>}
             /\ rows' = IF applied THEN rows \cup {<<r, kind>>} ELSE rows
             /\ Go(r, thrown)
  <2>1. PICK applied \in BOOLEAN :
             /\ lost' = lost \cup {<<r, kind, applied>>}
             /\ rows' = IF applied THEN rows \cup {<<r, kind>>} ELSE rows
             /\ Go(r, thrown)
    BY <1>3
  <2>2. HandoffType' /\ at'[r] = thrown /\ \A q \in Prospects : q # r => at'[q] = at[q]
    BY <2>1 DEF HandoffType, Go
  <2>3. \A q \in Prospects : q # r => Same(q)
    BY <1>1, <2>1, <2>2 DEF Same, Has, Loses
  <2>4. /\ Loses(r, "PROOFED", TRUE) => Loses(r, "PROOFED", TRUE)'
        /\ Loses(r, "FAILED", FALSE) => Loses(r, "FAILED", FALSE)'
    BY <2>1 DEF Loses
  <2>5. \A k \in Kinds : k # kind => (Has(r, k)' <=> Has(r, k))
    BY <2>1 DEF Has
  <2>6. Has(r, kind) => Has(r, kind)'
    BY <2>1 DEF Has
  <2>7. CASE applied
    <3>1. Has(r, kind)' /\ Loses(r, kind, TRUE)'
      BY <2>1, <2>7, Zenon DEF Has, Loses
    <3> QED
      BY <1>1, <2>2, <2>3, <2>4, <2>5, <2>6, <3>1
  <2>8. CASE ~applied
    <3>1. Loses(r, kind, FALSE)' /\ rows' = rows
      BY <2>1, <2>8, Zenon DEF Loses
    <3>2. Has(r, kind)' <=> Has(r, kind)
      BY <3>1 DEF Has
    <3> QED
      BY <1>1, <2>2, <2>3, <2>4, <2>5, <2>6, <3>1, <3>2
  <2> QED
    BY <2>7, <2>8
<1> QED
  BY <1>2, <1>3 DEF Insert

\* The five inserts of a handoff, each from its place.
LEMMA HandOffKeeps ==
  ASSUME TypeOK, HandoffInv, NEW r \in Prospects, HandOff(r)
  PROVE  HandoffInv'
<1> USE KindNames
<1>1. UNCHANGED vars /\ HandoffType /\ Part(r)
  BY DEF HandOff, HandoffInv
<1>2. /\ "proofing" \in Stages /\ "announcing" \in Stages /\ "handed" \in Stages
      /\ "caught" \in Stages /\ "excusing" \in Stages /\ "empty" \in Stages
  BY DEF Stages
<1>3. SUFFICES HandoffType' /\ (\A q \in Prospects : q # r => Same(q)) /\ Part(r)'
  BY SamePart DEF HandoffInv
<1>4. Whole(r)' <=> r \in decisions' /\ Has(r, "workload")' /\ Has(r, "PROOFED")'
  BY DEF Whole, Has
<1>5. CASE StoreWorkload(r)
  <2>1. Insert(r, "workload", "proofing", "caught") /\ at[r] = "deciding" /\ r \in decisions
    BY <1>1, <1>5 DEF StoreWorkload, Decided, Part, DecidingPart
  <2>2. \A k \in Kinds : ~Has(r, k)
    BY <1>1, <2>1 DEF Part, RowsPart
  <2>3. /\ HandoffType' /\ \A q \in Prospects : q # r => Same(q)
        /\ r \in decisions' /\ \A k \in Kinds : k # "workload" => ~Has(r, k)'
        /\ (at'[r] = "proofing" /\ Has(r, "workload")') \/ at'[r] = "caught"
    BY <1>1, <1>2, <2>1, <2>2, InsertChanges
  <2>4. DecidingPart(r)' /\ RowsPart(r)' /\ WholePart(r)'
    BY <2>3 DEF DecidingPart, RowsPart, WholePart
  <2> QED
    BY <2>3, <2>4 DEF Part
<1>6. CASE StoreProof(r)
  <2>1. Insert(r, "PROOFED", "announcing", "caught") /\ at[r] = "proofing"
    BY <1>6 DEF StoreProof
  <2>2. /\ r \in decisions /\ Has(r, "workload") /\ ~Has(r, "FAILED")
        /\ ~Has(r, "PROOFED") /\ ~Has(r, "HANDOFF_PROOF_READY")
    BY <1>1, <2>1 DEF Part, RowsPart
  <2>3. /\ HandoffType' /\ \A q \in Prospects : q # r => Same(q)
        /\ r \in decisions' /\ Has(r, "workload")' /\ ~Has(r, "FAILED")'
        /\ ~Has(r, "HANDOFF_PROOF_READY")'
        /\ \/ at'[r] = "announcing" /\ Has(r, "PROOFED")'
           \/ at'[r] = "caught" /\ (Has(r, "PROOFED")' => Loses(r, "PROOFED", TRUE)')
    BY <1>1, <1>2, <2>1, <2>2, InsertChanges
  <2>4. DecidingPart(r)' /\ RowsPart(r)'
    BY <2>3 DEF DecidingPart, RowsPart
  <2>5. WholePart(r)'
    BY <1>4, <2>3 DEF WholePart
  <2> QED
    BY <2>3, <2>4, <2>5 DEF Part
<1>7. CASE Announce(r)
  <2>1. Insert(r, "HANDOFF_PROOF_READY", "handed", "handed") /\ at[r] = "announcing"
    BY <1>7 DEF Announce
  <2>2. r \in decisions /\ Has(r, "workload") /\ ~Has(r, "FAILED") /\ Has(r, "PROOFED")
    BY <1>1, <2>1 DEF Part, RowsPart
  <2>3. /\ HandoffType' /\ \A q \in Prospects : q # r => Same(q)
        /\ Loses(r, "PROOFED", TRUE) => Loses(r, "PROOFED", TRUE)'
        /\ Loses(r, "FAILED", FALSE) => Loses(r, "FAILED", FALSE)'
    BY <1>1, <1>2, <2>1, InsertChanges, Zenon
  <2>4. /\ decisions' = decisions
        /\ \A k \in Kinds : k # "HANDOFF_PROOF_READY" => (Has(r, k)' <=> Has(r, k))
        /\ at'[r] = "handed"
        /\ Has(r, "HANDOFF_PROOF_READY")' \/ Loses(r, "HANDOFF_PROOF_READY", FALSE)'
    <3>1. decisions' = decisions
      BY <1>1 DEF vars, durable
    <3>2. at'[r] = "handed"
      BY <1>1, <2>1 DEF Insert, Go, HandoffType
    <3>3. \A k \in Kinds : k # "HANDOFF_PROOF_READY" => (Has(r, k)' <=> Has(r, k))
      BY <1>1, <1>2, <2>1, InsertChanges, Zenon
    <3>4. Has(r, "HANDOFF_PROOF_READY")' \/ Loses(r, "HANDOFF_PROOF_READY", FALSE)'
      BY <1>1, <1>2, <2>1, InsertChanges
    <3> QED
      BY <3>1, <3>2, <3>3, <3>4
  <2>5. r \in decisions' /\ Has(r, "workload")' /\ ~Has(r, "FAILED")' /\ Has(r, "PROOFED")'
    BY <2>2, <2>4
  <2>6. DecidingPart(r)' /\ RowsPart(r)'
    BY <2>4, <2>5 DEF DecidingPart, RowsPart
  <2>7. WholePart(r)'
    BY <1>4, <2>5 DEF WholePart
  <2> QED
    BY <2>3, <2>4, <2>6, <2>7 DEF Part
<1>8. CASE RecordFailure(r)
  <2>1. Insert(r, "FAILED", "excusing", "excusing") /\ at[r] \in {"deciding", "caught"}
    BY <1>8 DEF RecordFailure, Threw
  <2>2. /\ ~Has(r, "HANDOFF_PROOF_READY")
        /\ Has(r, "PROOFED") => Loses(r, "PROOFED", TRUE)
    BY <1>1, <2>1 DEF Part, RowsPart
  <2>3. Has(r, "PROOFED") => r \in decisions /\ Has(r, "workload")
    BY <1>1, WholeMeans DEF Part, WholePart
  <2>4. /\ HandoffType' /\ \A q \in Prospects : q # r => Same(q)
        /\ Loses(r, "PROOFED", TRUE) => Loses(r, "PROOFED", TRUE)'
        /\ Loses(r, "FAILED", FALSE) => Loses(r, "FAILED", FALSE)'
    BY <1>1, <1>2, <2>1, InsertChanges, Zenon
  <2>5. /\ decisions' = decisions
        /\ \A k \in Kinds : k # "FAILED" => (Has(r, k)' <=> Has(r, k))
        /\ at'[r] = "excusing"
        /\ Has(r, "FAILED")' \/ Loses(r, "FAILED", FALSE)'
    <3>1. decisions' = decisions
      BY <1>1 DEF vars, durable
    <3>2. at'[r] = "excusing"
      BY <1>1, <2>1 DEF Insert, Go, HandoffType
    <3>3. \A k \in Kinds : k # "FAILED" => (Has(r, k)' <=> Has(r, k))
      BY <1>1, <1>2, <2>1, InsertChanges, Zenon
    <3>4. Has(r, "FAILED")' \/ Loses(r, "FAILED", FALSE)'
      BY <1>1, <1>2, <2>1, InsertChanges
    <3> QED
      BY <3>1, <3>2, <3>3, <3>4
  <2>6. DecidingPart(r)' /\ RowsPart(r)'
    BY <2>2, <2>4, <2>5 DEF DecidingPart, RowsPart
  <2>7. WholePart(r)'
    BY <1>4, <2>2, <2>3, <2>4, <2>5 DEF WholePart
  <2> QED
    BY <2>4, <2>5, <2>6, <2>7 DEF Part
<1>9. CASE AnnounceFailure(r)
  <2>1. Insert(r, "HANDOFF_FAILED", "empty", "empty") /\ at[r] = "excusing"
    BY <1>9 DEF AnnounceFailure
  <2>2. /\ ~Has(r, "HANDOFF_PROOF_READY")
        /\ Has(r, "PROOFED") => Loses(r, "PROOFED", TRUE)
        /\ r \in decisions => Has(r, "FAILED") \/ Loses(r, "FAILED", FALSE)
    BY <1>1, <2>1 DEF Part, RowsPart
  <2>3. Has(r, "PROOFED") => r \in decisions /\ Has(r, "workload")
    BY <1>1, WholeMeans DEF Part, WholePart
  <2>4. /\ HandoffType' /\ \A q \in Prospects : q # r => Same(q)
        /\ Loses(r, "PROOFED", TRUE) => Loses(r, "PROOFED", TRUE)'
        /\ Loses(r, "FAILED", FALSE) => Loses(r, "FAILED", FALSE)'
    BY <1>1, <1>2, <2>1, InsertChanges, Zenon
  <2>5. /\ decisions' = decisions
        /\ \A k \in Kinds : k # "HANDOFF_FAILED" => (Has(r, k)' <=> Has(r, k))
        /\ at'[r] = "empty"
        /\ Has(r, "HANDOFF_FAILED")' \/ Loses(r, "HANDOFF_FAILED", FALSE)'
    <3>1. decisions' = decisions
      BY <1>1 DEF vars, durable
    <3>2. at'[r] = "empty"
      BY <1>1, <2>1 DEF Insert, Go, HandoffType
    <3>3. \A k \in Kinds : k # "HANDOFF_FAILED" => (Has(r, k)' <=> Has(r, k))
      BY <1>1, <1>2, <2>1, InsertChanges, Zenon
    <3>4. Has(r, "HANDOFF_FAILED")' \/ Loses(r, "HANDOFF_FAILED", FALSE)'
      BY <1>1, <1>2, <2>1, InsertChanges
    <3> QED
      BY <3>1, <3>2, <3>3, <3>4
  <2>6. DecidingPart(r)' /\ RowsPart(r)'
    BY <2>2, <2>4, <2>5 DEF DecidingPart, RowsPart
  <2>7. WholePart(r)'
    BY <1>4, <2>2, <2>3, <2>4, <2>5 DEF WholePart
  <2> QED
    BY <2>4, <2>5, <2>6, <2>7 DEF Part
<1> QED
  BY <1>5, <1>6, <1>7, <1>8, <1>9 DEF HandOff

\* A handoff's step is a step of DecisionRequest, or none of its business.
LEMMA HandoffRefines == [HandoffNext]_allVars => [Next]_vars
<1>1. \A r \in Prospects : TurnAway(r) \/ Post(r) \/ Decide(r) => Next
  BY HandoffAssumption DEF TurnAway, Post, Decide, Next, Serve, Fail
<1>2. \A r \in Prospects : HandOff(r) => UNCHANGED vars
  BY DEF HandOff
<1>3. Elsewhere => Next
  BY DEF Elsewhere, Next
<1> QED
  BY <1>1, <1>2, <1>3 DEF HandoffNext, allVars

LEMMA HandoffNextKeeps == TypeOK /\ HandoffInv /\ [HandoffNext]_allVars => HandoffInv'
<1> SUFFICES ASSUME TypeOK, HandoffInv, [HandoffNext]_allVars
             PROVE  HandoffInv'
  OBVIOUS
<1>1. CASE UNCHANGED allVars
  <2>1. UNCHANGED <<pc, response, decisions, at, rows, lost>>
    BY <1>1 DEF allVars, vars, handler, durable, handoffVars
  <2>2. \A q \in Prospects : Same(q)
    BY <2>1 DEF Same, Has, Loses
  <2> QED
    BY <2>1, <2>2, SamePart DEF HandoffInv, HandoffType
<1>2. CASE HandoffNext
  BY <1>2, PostKeeps, DecideKeeps, HandOffKeeps, ElsewhereKeeps DEF HandoffNext
<1> QED
  BY <1>1, <1>2

\* DecisionRequest's promises hold among prospects as well: they are requests like
\* the others, whatever becomes of their handoffs.
THEOREM HandoffsAreRequests == HandoffSpec => Spec
<1>1. HandoffInit => Init
  BY DEF HandoffInit
<1> QED
  BY <1>1, HandoffRefines, PTL DEF HandoffSpec, Spec

\* For any number of prospects and lost statements: a handoff that is vouched for is
\* whole, and a decision without one is recorded as a failure or that record is lost.
THEOREM HandoffsAccounted == HandoffSpec => [](HandoffTypeOK /\ HandoffAccounted)
<1>1. HandoffInit => HandoffInv
  BY DEF HandoffInit, HandoffInv, HandoffType, Stages, Part, DecidingPart, RowsPart, WholePart, Has
<1>2. HandoffSpec => []TypeOK
  <2>1. Spec => []TypeOK
    BY DecisionSafe, PTL
  <2> QED
    BY <2>1, HandoffsAreRequests, PTL
<1>3. TypeOK /\ HandoffInv => HandoffTypeOK /\ HandoffAccounted
  <2> SUFFICES ASSUME TypeOK, HandoffInv PROVE HandoffTypeOK /\ HandoffAccounted
    OBVIOUS
  <2>1. HandoffTypeOK
    BY DEF HandoffInv, HandoffType, HandoffTypeOK
  <2>2. ASSUME NEW r \in Prospects
        PROVE  /\ at[r] = "handed" \/ Has(r, "HANDOFF_PROOF_READY") \/ Has(r, "PROOFED") => Whole(r)
               /\ at[r] = "empty" /\ r \in decisions => Has(r, "FAILED") \/ Loses(r, "FAILED", FALSE)
               /\ Has(r, "PROOFED") /\ Has(r, "FAILED") => Loses(r, "PROOFED", TRUE)
    BY WholeMeans DEF HandoffInv, Part, RowsPart, WholePart
  <2>3. HandoffAccounted
    BY <2>2 DEF HandoffAccounted, Has, Loses
  <2> QED
    BY <2>1, <2>3
<1> QED
  BY <1>1, <1>2, <1>3, HandoffNextKeeps, PTL DEF HandoffSpec
=============================================================================
