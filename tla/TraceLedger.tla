----------------------------- MODULE TraceLedger -----------------------------
(***************************************************************************)
(* The trace ledger: the DecisionTraceEnvelope rows that the transactions  *)
(* of persistCiDecisionResult append (routes/ci.ts). A transaction reads   *)
(* the latest trace, reserves a sequence number with nextval and inserts   *)
(* its own trace with that trace as predecessor. It runs at READ COMMITTED *)
(* and locks nothing, so transactions of concurrent requests interleave    *)
(* between the three statements. A trace hash is unique to its trace, so   *)
(* the predecessor's hash is modelled by the predecessor's frame.          *)
(***************************************************************************)
EXTENDS Integers, FiniteSets

CONSTANTS
  Frames,   \* decision frames: each request persists a frame of its own
  None      \* previousTraceHash = null

ASSUME NoneAssumption == None \notin Frames

VARIABLES
  tx,       \* frame -> where its transaction stands
  prev,     \* frame -> the latest trace it read
  seq,      \* frame -> the sequence number it reserved
  lastSeq,  \* the sequence's last value: nextval is never rolled back
  traces,   \* frames whose trace is committed
  overlap   \* history: pairs of frames whose transactions were open together

traceVars == <<tx, prev, seq, lastSeq, traces, overlap>>

TraceInit ==
  /\ tx = [f \in Frames |-> "new"]
  /\ prev = [f \in Frames |-> None]
  /\ seq = [f \in Frames |-> 0]
  /\ lastSeq = 0
  /\ traces = {}
  /\ overlap = {}

Open == {f \in Frames : tx[f] \in {"reading", "reserving", "inserting"}}

BeginTrace(f) ==
  /\ tx[f] = "new"
  /\ tx' = [tx EXCEPT ![f] = "reading"]
  /\ overlap' = overlap \cup {{f, g} : g \in Open}
  /\ UNCHANGED <<prev, seq, lastSeq, traces>>

\* Mutant of IsLatest: the query has no order.
IsAnyTrace(t) == t \in traces

\* findFirst by descending sequence number, among what is committed now.
IsLatest(t) == t \in traces /\ \A u \in traces : seq[u] <= seq[t]

ReadLatest(f) ==
  /\ tx[f] = "reading"
  /\ tx' = [tx EXCEPT ![f] = "reserving"]
  /\ \/ traces = {} /\ UNCHANGED prev
     \/ \E t \in Frames : IsLatest(t) /\ prev' = [prev EXCEPT ![f] = t]
  /\ UNCHANGED <<seq, lastSeq, traces, overlap>>

\* Mutant of ReserveSeq: sessions hand out numbers from cached blocks.
ReserveCached(f) ==
  /\ tx[f] = "reserving"
  /\ tx' = [tx EXCEPT ![f] = "inserting"]
  /\ \E n \in 1..Cardinality(Frames) \ {seq[g] : g \in Frames} : seq' = [seq EXCEPT ![f] = n]
  /\ UNCHANGED <<prev, lastSeq, traces, overlap>>

\* reserveNextTraceSequence
ReserveSeq(f) ==
  /\ tx[f] = "reserving"
  /\ tx' = [tx EXCEPT ![f] = "inserting"]
  /\ lastSeq' = lastSeq + 1
  /\ seq' = [seq EXCEPT ![f] = lastSeq + 1]
  /\ UNCHANGED <<prev, traces, overlap>>

CommitTrace(f) ==
  /\ tx[f] = "inserting"
  /\ tx' = [tx EXCEPT ![f] = "done"]
  /\ traces' = traces \cup {f}
  /\ UNCHANGED <<prev, seq, lastSeq, overlap>>

\* A statement fails, the transaction times out or the process dies: the rows
\* are rolled back, the reserved number is not.
AbortTrace(f) ==
  /\ f \in Open
  /\ tx' = [tx EXCEPT ![f] = "aborted"]
  /\ UNCHANGED <<prev, seq, lastSeq, traces, overlap>>

TraceNext == \E f \in Frames : BeginTrace(f) \/ ReadLatest(f) \/ ReserveSeq(f) \/ CommitTrace(f) \/ AbortTrace(f)

TraceSpec == TraceInit /\ [][TraceNext]_traceVars

-----------------------------------------------------------------------------
\* Types of the table, the sequence and the open transactions.
TraceTypeOK ==
  /\ tx \in [Frames -> {"new", "reading", "reserving", "inserting", "done", "aborted"}]
  /\ prev \in [Frames -> Frames \cup {None}]
  /\ seq \in [Frames -> Nat]
  /\ lastSeq \in Nat
  /\ traces \subseteq Frames
  /\ overlap \subseteq SUBSET Frames

\* A committed trace's predecessor is committed and has a smaller number, so
\* following previousTraceHash never loops and never leaves the ledger, even
\* though transactions commit in another order than they reserved.
PredecessorOlder ==
  \A f \in traces : prev[f] # None => prev[f] \in traces /\ seq[prev[f]] < seq[f]

\* The only way two traces get the same predecessor is that their transactions
\* were open together: one request at a time keeps a single chain.
ForkNeedsOverlap ==
  \A f, g \in traces : f # g /\ prev[f] = prev[g] => {f, g} \in overlap
=============================================================================
