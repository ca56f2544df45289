------------------------------ MODULE PglLedger ------------------------------
(***************************************************************************)
(* The governance ledger (lib/pgl/service.ts): appendPglEvents extends the *)
(* event chain of one correlation inside the caller's transaction. It makes*)
(* sure the correlation's head row exists, locks it FOR UPDATE, numbers    *)
(* and links the new events from it, and moves the head. Any number of     *)
(* transactions (request lifecycles, retries, error events) may append to  *)
(* one correlation at once, since a retried request keeps its requestId.   *)
(*                                                                         *)
(* Each writer is one call. An event's hash is unique (it covers a fresh   *)
(* event_id), so it is modelled by the writer and the event's place in the *)
(* call; the other columns are left out.                                   *)
(***************************************************************************)
EXTENDS Integers

CONSTANTS
  Writers,  \* calls of appendPglEvents
  Corrs,    \* correlation ids
  Corr,     \* writer -> its drafts' correlation
  Size,     \* writer -> number of drafts: 3 for a lifecycle, 1 for an error event
  NoWriter

Hashes  == Writers \X Nat
Genesis == <<NoWriter, 0>>                 \* prev_event_hash = NULL

ASSUME PglAssumption ==
  /\ NoWriter \notin Writers
  /\ Corr \in [Writers -> Corrs]
  /\ Size \in [Writers -> Nat \ {0}]

VARIABLES
  events,   \* the rows of pgl.events
  heads,    \* correlation -> its row of pgl.correlation_heads, as committed
  exists,   \* correlations whose head row is committed
  lock,     \* correlation -> the transaction that holds its head row
  seen,     \* writer -> the head it read under the lock
  pc        \* writer -> where its transaction stands

pglVars == <<events, heads, exists, lock, seen, pc>>

Head   == [next : Nat, last : Hashes \cup {Genesis}]
Event  == [corr : Corrs, seq : Nat, prev : Hashes \cup {Genesis}, hash : Hashes]
Empty  == [next |-> 0, last |-> Genesis]

PglInit ==
  /\ events = {}
  /\ heads = [c \in Corrs |-> Empty]
  /\ exists = {}
  /\ lock = [c \in Corrs |-> NoWriter]
  /\ seen = [w \in Writers |-> Empty]
  /\ pc = [w \in Writers |-> "start"]

\* INSERT ... ON CONFLICT DO NOTHING: the row is there; or it is inserted, which
\* takes its lock; while another transaction has inserted it, this one waits.
EnsureHead(w) ==
  LET c == Corr[w] IN
  /\ pc[w] = "start"
  /\ \/ c \in exists /\ UNCHANGED lock
     \/ c \notin exists /\ lock[c] = NoWriter /\ lock' = [lock EXCEPT ![c] = w]
  /\ pc' = [pc EXCEPT ![w] = "ensured"]
  /\ UNCHANGED <<events, heads, exists, seen>>

\* Mutant of LockHead: the head is read without FOR UPDATE.
ReadHead(w) ==
  /\ pc[w] = "ensured"
  /\ seen' = [seen EXCEPT ![w] = heads[Corr[w]]]
  /\ pc' = [pc EXCEPT ![w] = "locked"]
  /\ UNCHANGED <<events, heads, exists, lock>>

\* SELECT ... FOR UPDATE waits for the row's lock, then reads the latest commit.
LockHead(w) ==
  LET c == Corr[w] IN
  /\ pc[w] = "ensured"
  /\ lock[c] \in {NoWriter, w}
  /\ lock' = [lock EXCEPT ![c] = w]
  /\ seen' = [seen EXCEPT ![w] = heads[c]]
  /\ pc' = [pc EXCEPT ![w] = "locked"]
  /\ UNCHANGED <<events, heads, exists>>

\* Mutant of Release: the transaction is left open.
ReleaseNever(w) == UNCHANGED lock

Release(w) == lock' = [lock EXCEPT ![Corr[w]] = IF @ = w THEN NoWriter ELSE @]

\* Mutant of Stored: previousHash is not advanced in the loop.
StoredUnlinked(w) ==
  {[corr |-> Corr[w],
    seq  |-> seen[w].next + i - 1,
    prev |-> seen[w].last,
    hash |-> <<w, i>>] : i \in 1..Size[w]}

\* buildStoredEvent for every draft: numbered from the head, each linked to the
\* one before it.
Stored(w) ==
  {[corr |-> Corr[w],
    seq  |-> seen[w].next + i - 1,
    prev |-> IF i = 1 THEN seen[w].last ELSE <<w, i - 1>>,
    hash |-> <<w, i>>] : i \in 1..Size[w]}

\* UNIQUE (correlation_id, sequence)
Conflicts(w) ==
  \E e \in events, n \in Stored(w) : e.corr = n.corr /\ e.seq = n.seq

NextHead(w) == [next |-> seen[w].next + Size[w], last |-> <<w, Size[w]>>]

\* The inserts, the head update and the caller's commit; or the unique index
\* refuses an insert and the transaction is rolled back.
Append(w) ==
  LET c == Corr[w] IN
  /\ pc[w] = "locked"
  /\ IF Conflicts(w)
     THEN /\ pc' = [pc EXCEPT ![w] = "refused"]
          /\ UNCHANGED <<events, heads, exists>>
     ELSE /\ pc' = [pc EXCEPT ![w] = "done"]
          /\ events' = events \cup Stored(w)
          /\ heads' = [heads EXCEPT ![c] = NextHead(w)]
          /\ exists' = exists \cup {c}
  /\ Release(w)
  /\ UNCHANGED seen

\* Any other failure, a timeout or a crash rolls the transaction back.
RollBack(w) ==
  /\ pc[w] \in {"start", "ensured", "locked"}
  /\ Release(w)
  /\ pc' = [pc EXCEPT ![w] = "rolledback"]
  /\ UNCHANGED <<events, heads, exists, seen>>

Step(w) == EnsureHead(w) \/ LockHead(w) \/ Append(w)

PglNext == \E w \in Writers : Step(w) \/ RollBack(w)

PglSpec == PglInit /\ [][PglNext]_pglVars

-----------------------------------------------------------------------------
\* Types of the tables and of the open transactions.
PglTypeOK ==
  /\ events \subseteq Event
  /\ heads \in [Corrs -> Head]
  /\ exists \subseteq Corrs
  /\ lock \in [Corrs -> Writers \cup {NoWriter}]
  /\ seen \in [Writers -> Head]
  /\ pc \in [Writers -> {"start", "ensured", "locked", "done", "refused", "rolledback"}]

\* However appends interleave and fail, each correlation's events are one hash
\* chain: numbered without a gap below the head's next number, no number twice,
\* each event linked to the one numbered just before it and the first to none.
ChainIntact ==
  /\ \A e \in events : e.seq < heads[e.corr].next
  /\ \A e, f \in events : e.corr = f.corr /\ e.seq = f.seq => e = f
  /\ \A e \in events :
       IF e.seq = 0 THEN e.prev = Genesis
       ELSE \E f \in events : f.corr = e.corr /\ f.seq = e.seq - 1 /\ f.hash = e.prev

\* The head row is the end of the chain, so the next append links to it.
HeadIsTip ==
  \A c \in Corrs :
    IF heads[c].next = 0
    THEN heads[c].last = Genesis
    ELSE \E e \in events : /\ e.corr = c
                           /\ e.seq = heads[c].next - 1
                           /\ e.hash = heads[c].last

\* The row lock makes the unique index redundant: no append is ever refused, so
\* no governance event is lost because two transactions met.
NeverRefused == \A w \in Writers : pc[w] # "refused"
=============================================================================
