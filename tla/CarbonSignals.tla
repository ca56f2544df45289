---------------------------- MODULE CarbonSignals ----------------------------
(***************************************************************************)
(* Where a decision's carbon signal comes from (lib/carbon/provider-router,*)
(* grid-signal-cache, cache-warmer): the providers in their order, the     *)
(* process's copy of the EIA fuel mix, the last-known-good record and the  *)
(* minute buckets in Redis. The actors are authorize requests, which look  *)
(* into a bucket first and ask for the time their client names, before or  *)
(* after now; cycles of the warm loop, which fill the current bucket and   *)
(* the next one; and the start windows of carbon commands, at now or later.*)
(*                                                                         *)
(* One region, of one of three kinds: US (WattTime forecasts, then the fuel*)
(* mix), GB (a current reading; so are Denmark and Finland) and EU (a      *)
(* reading that carries its provider's time: older than the last one when a*)
(* feed of SMARD or a day of REN does not answer, or of today's noon while *)
(* it is still morning; the Canadian feeds carry theirs too). A tick is a  *)
(* bucket. Intensities are left out, but not when a reading was obtained.  *)
(* The provider calls of one resolution are one step.                      *)
(* Every real provider's confidence is above the 0.6 that degrades a       *)
(* record: only the Ember baseline and the static value are degraded.      *)
(***************************************************************************)
EXTENDS Integers

CONSTANTS
  Requests,               \* resolutions of a signal
  Back, Ahead,            \* how far from now the time asked for may lie
  DatedBack, DatedAhead,  \* how far from now a provider may date its reading
  Lead,                   \* WattTime is asked for times later than this
  MaxAge,                 \* LAST_KNOWN_GOOD_MAX_AGE_SEC
  LkgTtl,                 \* DEFAULT_LKG_TTL
  BucketTtl,              \* DEFAULT_TTL
  FuelTtl,                \* expiry of the fuel mix copy
  MaxTime,                \* bound: ticks
  MaxFaults               \* bound: failing Redis calls

ASSUME SignalsAssumption ==
  /\ Back \in Nat /\ Ahead \in Nat /\ DatedBack \in Nat /\ DatedAhead \in Nat /\ Lead \in Nat
  /\ MaxAge \in Nat /\ LkgTtl \in Nat \ {0} /\ BucketTtl \in Nat \ {0} /\ FuelTtl \in Nat
  /\ MaxTime \in Nat /\ MaxFaults \in Nat

VARIABLES
  now,
  region,      \* its kind
  fuel,        \* the copy of the fuel mix: when it was obtained, when it expires
  lkg,         \* grid-signal:routing-lkg:{region}
  buckets,     \* grid-signal:routing:{region}:{bucket}
  spread,      \* grid-signal:disagreement:{region}:{bucket}: when it expires, 0 for none
  pc,          \* request -> where it stands
  start,       \* request -> when it arrived
  at,          \* request -> the time it asks for
  record,      \* request -> its signal record
  todo,        \* request -> buckets it has still to write once it is answered
  warm,        \* history: requests answered from their bucket
  best,        \* history: latest usable reading stored as last-known-good: its time, when stored
  faults

redisVars   == <<lkg, buckets, spread>>
requestVars == <<start, at>>
historyVars == <<warm, best>>
signalVars  == <<now, region, fuel, redisVars, pc, requestVars, record, todo, historyVars, faults>>

Buckets  == -Back..(MaxTime + Ahead + 1)

\* Besides the code's fields: when the reading was obtained, when the request
\* that resolved it had arrived, whether that request asked for an earlier time,
\* and when this copy was put into Redis.
NoRecord == [kind |-> "none", got |-> 0, ref |-> 0, since |-> 0, past |-> FALSE, put |-> 0,
             margins |-> 0, degraded |-> TRUE]
NoBest   == [ref |-> 0, put |-> -1]

SignalsInit ==
  /\ now = 0
  /\ region \in {"US", "GB", "EU"}
  /\ fuel = [got |-> 0, until |-> 0]
  /\ lkg = NoRecord
  /\ buckets = [b \in Buckets |-> NoRecord]
  /\ spread = [b \in Buckets |-> 0]
  /\ pc = [r \in Requests |-> "new"]
  /\ start = [r \in Requests |-> 0]
  /\ at = [r \in Requests |-> 0]
  /\ record = [r \in Requests |-> NoRecord]
  /\ todo = [r \in Requests |-> {}]
  /\ warm = {}
  /\ best = NoBest
  /\ faults = 0

Fault == faults < MaxFaults /\ faults' = faults + 1

Goto(r, p) == pc' = [pc EXCEPT ![r] = p]

\* A read of Redis throws, and the resolution with it.
Throws(r) == Fault /\ Goto(r, "failed")

\* Redis drops what expires; the history forgets with it.
Tick ==
  /\ now < MaxTime
  /\ now' = now + 1
  /\ lkg' = IF lkg.put + LkgTtl <= now' THEN NoRecord ELSE lkg
  /\ best' = IF best.put + LkgTtl <= now' THEN NoBest ELSE best
  /\ buckets' = [b \in Buckets |->
       IF buckets[b].put + BucketTtl <= now' THEN NoRecord ELSE buckets[b]]
  /\ spread' = [b \in Buckets |-> IF spread[b] <= now' THEN 0 ELSE spread[b]]
  /\ UNCHANGED <<region, fuel, pc, requestVars, record, todo, warm, faults>>

\* A request arrives and asks for time t; once answered it is to write buckets.
Arrive(r, t, entries) ==
  /\ pc[r] = "new"
  /\ start' = [start EXCEPT ![r] = now]
  /\ at' = [at EXCEPT ![r] = t]
  /\ todo' = [todo EXCEPT ![r] = entries]

\* A cycle of the warm loop, or a command's start window, at now or later.
Ask(r) ==
  /\ \/ Arrive(r, now, {now, now + 1})
     \/ \E h \in 0..Ahead : Arrive(r, now + h, {})
  /\ Goto(r, "resolving")
  /\ UNCHANGED <<now, region, fuel, redisVars, record, historyVars, faults>>

-----------------------------------------------------------------------------
\* getCachedRoutingSignalRecord and the use of its result.

\* Mutant of Serves: any record of the bucket is taken.
ServesAny(rec) == rec.kind # "none"

Serves(rec) == rec.kind # "none" /\ ~rec.degraded

\* An authorize request looks into the bucket of the time its client names.
Look(r) ==
  /\ \E t \in (now - Back)..(now + Ahead) :
       \/ /\ Serves(buckets[t])
          /\ Arrive(r, t, {})
          /\ Goto(r, "answered")
          /\ record' = [record EXCEPT ![r] = buckets[t]]
          /\ warm' = warm \cup {r}
          /\ UNCHANGED faults
       \/ /\ ~Serves(buckets[t])
          /\ Arrive(r, t, {t})
          /\ Goto(r, IF buckets[t].kind = "none" THEN "comparing" ELSE "resolving")
          /\ UNCHANGED <<record, warm, faults>>
       \/ Throws(r) /\ Arrive(r, t, {}) /\ UNCHANGED <<record, warm>>
  /\ UNCHANGED <<now, region, fuel, redisVars, best>>

\* The bucket was empty: is there a disagreement entry?
Compare(r) ==
  /\ pc[r] = "comparing"
  /\ \/ Goto(r, IF spread[at[r]] > 0 THEN "rebuilding" ELSE "resolving") /\ UNCHANGED faults
     \/ Throws(r)
  /\ UNCHANGED <<now, region, fuel, redisVars, requestVars, record, todo, historyVars>>

\* A degraded record is made from the entry, which the request does not use.
Rebuild(r) ==
  /\ pc[r] = "rebuilding"
  /\ Goto(r, "resolving")
  /\ \/ Fault /\ UNCHANGED buckets
     \/ /\ buckets' = [buckets EXCEPT ![at[r]] = [NoRecord EXCEPT !.kind = "rebuilt", !.put = now]]
        /\ UNCHANGED faults
  /\ UNCHANGED <<now, region, fuel, lkg, spread, requestVars, record, todo, historyVars>>

\* The read of the last-known-good record.
ReadFails(r) ==
  /\ pc[r] = "reading"
  /\ Throws(r)
  /\ UNCHANGED <<now, region, fuel, redisVars, requestVars, record, todo, historyVars>>

-----------------------------------------------------------------------------
\* getLiveRoutingSignal and getRoutingSignalRecord.

\* A reading obtained at got, with its reference time: the time asked for, but
\* for providers whose readings carry their own.
Live(r, kind, got, ref) ==
  /\ record' = [record EXCEPT ![r] =
       [kind |-> kind, got |-> got, ref |-> ref, since |-> start[r], past |-> at[r] < start[r],
        put |-> 0, margins |-> 0, degraded |-> FALSE]]
  /\ Goto(r, "storing")

\* No provider answers: the Ember baseline or the static value.
Baseline(r) ==
  /\ record' = [record EXCEPT ![r] = [NoRecord EXCEPT !.kind = "baseline"]]
  /\ Goto(r, "reading")

Copied == region = "US" /\ fuel.until > now

Resolve(r) ==
  /\ pc[r] = "resolving"
  /\ \/ /\ region = "US" /\ at[r] > now + Lead     \* a forecast, for future times only
        /\ Live(r, "watttime", now, at[r])
        /\ UNCHANGED fuel
     \/ /\ Copied
        /\ Live(r, "fuelmix", fuel.got, at[r])
        /\ UNCHANGED fuel
     \/ /\ region = "US" /\ ~Copied
        /\ fuel' = [got |-> now, until |-> now + FuelTtl]
        /\ Live(r, "fuelmix", now, at[r])
     \/ /\ region = "GB"
        /\ Live(r, "current", now, at[r])
        /\ UNCHANGED fuel
     \/ /\ region = "EU"
        /\ \E d \in -DatedBack..DatedAhead : Live(r, "dated", now, now + d)
        /\ UNCHANGED fuel
     \/ ~Copied /\ Baseline(r) /\ UNCHANGED fuel
  /\ UNCHANGED <<now, region, redisVars, requestVars, todo, historyVars, faults>>

\* This copy of a record goes into Redis now.
Put(rec) == [rec EXCEPT !.put = now]

\* Mutant of Keep: the record is set only where there is none.
KeepFirst(r) == lkg' = IF lkg.kind = "none" THEN Put(record[r]) ELSE lkg

\* cacheLastKnownGoodRoutingSignal
Keep(r) == lkg' = Put(record[r])

\* A record that could stand in from now on, dated no earlier than the best one.
Better(rec) ==
  rec.kind # "watttime" /\ rec.ref <= now /\ (best.put >= 0 => rec.ref >= best.ref)

\* A good record is stored, or its store fails and is logged; it is the answer.
Store(r) ==
  /\ pc[r] = "storing"
  /\ Goto(r, "answered")
  /\ \/ /\ Keep(r)
        /\ best' = IF Better(record[r]) THEN [ref |-> record[r].ref, put |-> now] ELSE best
        /\ UNCHANGED faults
     \/ Fault /\ UNCHANGED <<lkg, best>>
  /\ UNCHANGED <<now, region, fuel, buckets, spread, requestVars, record, todo, warm>>

\* Mutant of Usable: a stored record is young enough until Redis drops it.
UsableWhileKept(t) == lkg.kind \notin {"none", "watttime"}

\* The record's age, computeSignalStalenessSec, is of the time asked for.
Usable(t) == lkg.kind \notin {"none", "watttime"} /\ t - lkg.ref <= MaxAge

\* A degraded record gives way to the last-known-good one with a safety margin.
Substitute(r) ==
  /\ pc[r] = "reading"
  /\ \/ /\ Usable(at[r])
        /\ record' = [record EXCEPT ![r] = [lkg EXCEPT !.margins = @ + 1, !.degraded = TRUE]]
     \/ ~Usable(at[r]) /\ UNCHANGED record
  /\ Goto(r, "answered")
  /\ UNCHANGED <<now, region, fuel, redisVars, requestVars, todo, historyVars, faults>>

-----------------------------------------------------------------------------
\* cacheRoutingSignal, detached from the answer: the record and its disagreement
\* entry; one that fails ends the write and is not repeated.
WriteBucket(r, b) ==
  /\ pc[r] = "answered" /\ b \in todo[r]
  /\ todo' = [todo EXCEPT ![r] = @ \ {b}]
  /\ \/ /\ buckets' = [buckets EXCEPT ![b] = Put(record[r])]
        /\ \/ spread' = [spread EXCEPT ![b] = now + BucketTtl] /\ UNCHANGED faults
           \/ Fault /\ UNCHANGED spread
     \/ Fault /\ UNCHANGED <<buckets, spread>>
  /\ UNCHANGED <<now, region, fuel, lkg, pc, requestVars, record, historyVars>>

\* Redis drops the record of a bucket before its time.
Evict ==
  /\ Fault
  /\ \E b \in Buckets :
       buckets[b].kind # "none" /\ buckets' = [buckets EXCEPT ![b] = NoRecord]
  /\ UNCHANGED <<now, region, fuel, lkg, spread, pc, requestVars, record, todo, historyVars>>

Resolution(r) ==
  \/ Ask(r) \/ Look(r) \/ Compare(r) \/ Rebuild(r) \/ Resolve(r) \/ Store(r) \/ Substitute(r)
  \/ ReadFails(r) \/ \E b \in Buckets : WriteBucket(r, b)

SignalsNext == Tick \/ Evict \/ \E r \in Requests : Resolution(r)

SignalsSpec == SignalsInit /\ [][SignalsNext]_signalVars

-----------------------------------------------------------------------------
Genuine == {"watttime", "fuelmix", "current", "dated"}
Record == [kind : Genuine \cup {"none", "baseline", "rebuilt"}, got : Nat, ref : Int,
           since : Nat, past : BOOLEAN, put : Nat, margins : Nat, degraded : BOOLEAN]

\* Types of the caches, the requests and the histories.
SignalsTypeOK ==
  /\ now \in 0..MaxTime /\ region \in {"US", "GB", "EU"}
  /\ fuel \in [got : 0..now, until : Nat]
  /\ lkg \in Record
  /\ buckets \in [Buckets -> Record] /\ spread \in [Buckets -> Nat]
  /\ pc \in [Requests -> {"new", "comparing", "rebuilding", "resolving", "storing", "reading",
                          "answered", "failed"}]
  /\ start \in [Requests -> 0..now] /\ at \in [Requests -> -Back..(MaxTime + Ahead)]
  /\ record \in [Requests -> Record]
  /\ todo \in [Requests -> SUBSET Buckets]
  /\ warm \subseteq Requests
  /\ best \in [ref : Int, put : Nat \cup {-1}]
  /\ faults \in 0..MaxFaults

Answered == {r \in Requests : pc[r] = "answered"}

\* A degraded signal is never passed on as a warm one, whatever the requests and
\* the warm loop have left in the buckets; the safety margin is added at most
\* once; and a WattTime forecast answers for no other bucket than the one it is a
\* forecast of, live or warm, and never stands in as the last-known-good one.
SubstitutesAreMarked ==
  /\ \A r \in warm : record[r].kind \in Genuine /\ record[r].margins = 0
  /\ \A r \in Answered :
       /\ record[r].margins <= 1
       /\ record[r].kind = "watttime" => record[r].margins = 0 /\ record[r].ref = at[r]

\* How much older than its resolution a reading may be: the fuel mix copy.
Lag(rec) == IF rec.kind = "fuelmix" THEN FuelTtl ELSE 0

\* How much later than its resolution a reading may be dated.
Skew(rec) == IF rec.kind = "dated" THEN DatedAhead ELSE Ahead

\* How long the way of a reading into Redis was, from its request's arrival.
Delay(rec) == rec.put - rec.since

\* How old the reading of a decision may be when the request arrives. A live one
\* is obtained for it, but for the fuel mix copy; a warm one is as old as a bucket
\* lasts; a last-known-good one as its record lasts, whatever the times asked for
\* were, and at the time asked for it is within the age limit, but for what its
\* reference time hides: the request that stored it asked for a later time, or
\* the provider dated it ahead.
AgeExplained ==
  \A r \in Answered :
    LET rec == record[r]
        age == start[r] - rec.got
    IN rec.kind \in Genuine =>
         /\ r \in warm => age < BucketTtl + Lag(rec) + Delay(rec)
         /\ rec.margins = 1 => /\ age < LkgTtl + Lag(rec) + Delay(rec)
                               /\ at[r] - rec.got <= MaxAge + Lag(rec) + Skew(rec)
         /\ r \notin warm /\ rec.margins = 0 => age <= Lag(rec)

\* A usable reading stored as last-known-good stays there until it expires, or
\* gives way to one stored later, be it a forecast that cannot stand in: which is
\* dated no earlier, unless the request that obtained it had asked for a time
\* already past, its provider dated it before that request, or that request was
\* already under way when the usable one was stored.
UsableIsKept ==
  best.put >= 0 =>
    /\ lkg.kind \in Genuine /\ lkg.put >= best.put
    /\ \/ lkg.ref >= best.ref
       \/ lkg.past
       \/ lkg.kind = "dated" /\ lkg.ref < lkg.since
       \/ lkg.since < best.put
=============================================================================
