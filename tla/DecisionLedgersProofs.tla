------------------------ MODULE DecisionLedgersProofs ------------------------
(***************************************************************************)
(* The two ledgers for any number of decisions, appends, correlations,     *)
(* retries and rollbacks: first each by itself, then the order of one      *)
(* against the other's.                                                    *)
(***************************************************************************)
EXTENDS DecisionLedgers, TLAPS

(***************************************************************************)
(* The trace ledger. Numbers are handed out in increasing order, so        *)
(* whatever a transaction read before reserving is older than itself; and  *)
(* a trace committed before another transaction read the ledger is no newer*)
(* than what it read.                                                      *)
(***************************************************************************)

\* A number is held only from ReserveSeq on; numbers are positive, distinct and at
\* most lastSeq.
SeqInv ==
  /\ \A f \in Frames : f \in traces <=> tx[f] = "done"
  /\ \A f \in Frames : seq[f] <= lastSeq
  /\ \A f \in Frames : tx[f] \in {"inserting", "done"} => 0 < seq[f]
  /\ \A f, g \in Frames : f # g /\ 0 < seq[f] => seq[f] # seq[g]
  /\ \A f \in Frames : tx[f] \in {"new", "reading", "reserving"} => seq[f] = 0

\* What a transaction read is committed, and older than any number it reserves.
ReadInv ==
  \A f \in Frames :
    /\ prev[f] # None => prev[f] \in traces
    /\ tx[f] \in {"new", "reading"} => prev[f] = None
    /\ tx[f] \in {"inserting", "done"} /\ prev[f] # None => seq[prev[f]] < seq[f]

\* A trace committed before a transaction opened is covered by what it read.
CoverInv ==
  \A f \in Frames, g \in traces :
    /\ tx[f] \in {"reserving", "inserting", "done"} /\ f # g /\ {f, g} \notin overlap =>
         \/ prev[f] # None /\ seq[g] <= seq[prev[f]]
         \/ prev[g] # None /\ seq[f] <= seq[prev[g]] /\ f \in traces

\* Transactions open now are recorded as overlapping.
OverlapInv == \A f, g \in Open : f # g => {f, g} \in overlap

TraceInv == TraceTypeOK /\ SeqInv /\ ReadInv /\ CoverInv /\ OverlapInv

LEMMA TraceTypeNext == TraceTypeOK /\ [TraceNext]_traceVars => TraceTypeOK'
<1> SUFFICES ASSUME TraceTypeOK, [TraceNext]_traceVars PROVE TraceTypeOK'
  OBVIOUS
<1> USE NoneAssumption DEF TraceTypeOK, Open
<1>1. ASSUME NEW f \in Frames, BeginTrace(f) PROVE TraceTypeOK'
  <2>1. overlap' \subseteq SUBSET Frames
    BY <1>1 DEF BeginTrace
  <2> QED
    BY <1>1, <2>1 DEF BeginTrace
<1>2. ASSUME NEW f \in Frames, ReadLatest(f) PROVE TraceTypeOK'
  BY <1>2 DEF ReadLatest
<1>3. ASSUME NEW f \in Frames, ReserveSeq(f) PROVE TraceTypeOK'
  BY <1>3 DEF ReserveSeq
<1>4. ASSUME NEW f \in Frames, CommitTrace(f) PROVE TraceTypeOK'
  BY <1>4 DEF CommitTrace
<1>5. ASSUME NEW f \in Frames, AbortTrace(f) PROVE TraceTypeOK'
  BY <1>5 DEF AbortTrace
<1>6. CASE UNCHANGED traceVars
  BY <1>6 DEF traceVars
<1> QED
  BY <1>1, <1>2, <1>3, <1>4, <1>5, <1>6 DEF TraceNext

LEMMA SeqNext == TraceTypeOK /\ SeqInv /\ [TraceNext]_traceVars => SeqInv'
<1> SUFFICES ASSUME TraceTypeOK, SeqInv, [TraceNext]_traceVars PROVE SeqInv'
  OBVIOUS
<1> USE DEF TraceTypeOK, SeqInv, Open
<1>1. ASSUME NEW f \in Frames, BeginTrace(f) \/ ReadLatest(f) PROVE SeqInv'
  BY <1>1 DEF BeginTrace, ReadLatest
<1>2. ASSUME NEW f \in Frames, ReserveSeq(f) PROVE SeqInv'
  BY <1>2 DEF ReserveSeq
<1>3. ASSUME NEW f \in Frames, CommitTrace(f) \/ AbortTrace(f) PROVE SeqInv'
  BY <1>3 DEF CommitTrace, AbortTrace
<1>4. CASE UNCHANGED traceVars
  BY <1>4 DEF traceVars
<1> QED
  BY <1>1, <1>2, <1>3, <1>4 DEF TraceNext

LEMMA ReadNext == TraceTypeOK /\ SeqInv /\ ReadInv /\ [TraceNext]_traceVars => ReadInv'
<1> SUFFICES ASSUME TraceTypeOK, SeqInv, ReadInv, [TraceNext]_traceVars PROVE ReadInv'
  OBVIOUS
<1> USE NoneAssumption DEF TraceTypeOK, SeqInv, ReadInv, Open
<1>1. ASSUME NEW f \in Frames, BeginTrace(f) PROVE ReadInv'
  BY <1>1 DEF BeginTrace
<1>2. ASSUME NEW f \in Frames, ReadLatest(f) PROVE ReadInv'
  BY <1>2 DEF ReadLatest, IsLatest
<1>3. ASSUME NEW f \in Frames, ReserveSeq(f) PROVE ReadInv'
  <2> SUFFICES ASSUME NEW g \in Frames
               PROVE  /\ (prev[g] # None => prev[g] \in traces)'
                      /\ (tx[g] \in {"new", "reading"} => prev[g] = None)'
                      /\ (tx[g] \in {"inserting", "done"} /\ prev[g] # None
                             => seq[prev[g]] < seq[g])'
    BY DEF ReadInv
  <2>1. prev[g] # None => prev[g] # f /\ seq'[prev[g]] = seq[prev[g]]
    BY <1>3 DEF ReserveSeq
  <2>2. f # g => seq'[g] = seq[g]
    BY <1>3 DEF ReserveSeq
  <2>3. seq'[f] = lastSeq + 1
    BY <1>3 DEF ReserveSeq
  <2> QED
    BY <1>3, <2>1, <2>2, <2>3 DEF ReserveSeq
<1>4. ASSUME NEW f \in Frames, CommitTrace(f) PROVE ReadInv'
  BY <1>4 DEF CommitTrace
<1>5. ASSUME NEW f \in Frames, AbortTrace(f) PROVE ReadInv'
  BY <1>5 DEF AbortTrace
<1>6. CASE UNCHANGED traceVars
  BY <1>6 DEF traceVars
<1> QED
  BY <1>1, <1>2, <1>3, <1>4, <1>5, <1>6 DEF TraceNext

\* A transaction that opens is paired with every open one.
LEMMA OverlapNext == TraceTypeOK /\ OverlapInv /\ [TraceNext]_traceVars => OverlapInv'
<1> SUFFICES ASSUME TraceTypeOK, OverlapInv, [TraceNext]_traceVars PROVE OverlapInv'
  OBVIOUS
<1> USE DEF TraceTypeOK, OverlapInv, Open
<1>1. ASSUME NEW f \in Frames, BeginTrace(f) PROVE OverlapInv'
  <2> SUFFICES ASSUME NEW g \in Open', NEW h \in Open', g # h
               PROVE  {g, h} \in overlap'
    BY DEF OverlapInv
  <2>1. \A x \in Open' : x # f => x \in Open
    BY <1>1 DEF BeginTrace
  <2>2. \A x \in Open : {f, x} \in overlap'
    BY <1>1 DEF BeginTrace
  <2>3. {g, h} = {h, g}
    OBVIOUS
  <2>4. overlap \subseteq overlap'
    BY <1>1 DEF BeginTrace
  <2>5. g # f /\ h # f => {g, h} \in overlap'
    BY <2>1, <2>4
  <2> QED
    BY <2>1, <2>2, <2>3, <2>5
<1>2. ASSUME NEW f \in Frames, ReadLatest(f) \/ ReserveSeq(f) \/ CommitTrace(f) \/ AbortTrace(f)
      PROVE OverlapInv'
  <2>1. Open' \subseteq Open /\ overlap' = overlap
    BY <1>2 DEF ReadLatest, ReserveSeq, CommitTrace, AbortTrace
  <2> QED
    BY <2>1
<1>3. CASE UNCHANGED traceVars
  BY <1>3 DEF traceVars
<1> QED
  BY <1>1, <1>2, <1>3 DEF TraceNext

\* Once a transaction has read, every earlier trace it did not overlap is at or
\* before its predecessor.
LEMMA CoverNext == TraceInv /\ [TraceNext]_traceVars => CoverInv'
<1> SUFFICES ASSUME TraceInv, [TraceNext]_traceVars PROVE CoverInv'
  OBVIOUS
<1> USE NoneAssumption DEF TraceInv, TraceTypeOK
<1>1. ASSUME NEW f \in Frames, BeginTrace(f) PROVE CoverInv'
  BY <1>1 DEF BeginTrace, CoverInv
<1>2. ASSUME NEW f \in Frames, ReadLatest(f) PROVE CoverInv'
  BY <1>2 DEF ReadLatest, IsLatest, CoverInv
<1>3. ASSUME NEW f \in Frames, ReserveSeq(f) PROVE CoverInv'
  <2>1. f \notin traces
    BY <1>3 DEF ReserveSeq, SeqInv
  <2>2. \A g \in traces : seq'[g] = seq[g]
    BY <1>3, <2>1 DEF ReserveSeq
  <2>3. \A g \in Frames : prev[g] # None => seq'[prev[g]] = seq[prev[g]]
    BY <2>2 DEF ReadInv
  <2>4. UNCHANGED <<prev, traces, overlap>>
    BY <1>3 DEF ReserveSeq
  <2>5. \A g \in Frames : tx'[g] \in {"reserving", "inserting", "done"}
                            => tx[g] \in {"reserving", "inserting", "done"}
    BY <1>3 DEF ReserveSeq
  <2> QED
    BY <2>2, <2>3, <2>4, <2>5 DEF CoverInv
<1>4. ASSUME NEW h \in Frames, CommitTrace(h) PROVE CoverInv'
  <2>1. /\ UNCHANGED <<prev, seq, overlap>> /\ traces' = traces \cup {h}
        /\ tx' = [tx EXCEPT ![h] = "done"] /\ tx[h] = "inserting" /\ h \in Open
    BY <1>4 DEF CommitTrace, Open
  <2> SUFFICES ASSUME NEW f \in Frames, NEW g \in traces',
                      tx'[f] \in {"reserving", "inserting", "done"},
                      f # g, {f, g} \notin overlap
               PROVE  \/ prev[f] # None /\ seq[g] <= seq[prev[f]]
                      \/ prev[g] # None /\ seq[f] <= seq[prev[g]] /\ f \in traces'
    BY <2>1 DEF CoverInv
  <2>2. tx[f] \in {"reserving", "inserting", "done"}
    BY <2>1
  <2>3. CASE g \in traces
    BY <2>1, <2>2, <2>3 DEF CoverInv
  <2>4. CASE g = h
    <3>1. f \notin Open
      BY <2>1, <2>4 DEF OverlapInv
    <3>2. tx[f] = "done" /\ f \in traces
      BY <3>1, <2>2 DEF Open, SeqInv
    <3>3. {g, f} = {f, g}
      OBVIOUS
    <3>4. h \notin traces
      BY <2>1 DEF SeqInv
    <3>5. prev[h] # None /\ seq[f] <= seq[prev[h]]
      BY <2>1, <2>4, <3>2, <3>3, <3>4 DEF CoverInv
    <3> QED
      BY <2>1, <2>4, <3>2, <3>5
  <2> QED
    BY <2>1, <2>3, <2>4
<1>5. ASSUME NEW f \in Frames, AbortTrace(f) PROVE CoverInv'
  BY <1>5 DEF AbortTrace, CoverInv, Open
<1>6. CASE UNCHANGED traceVars
  BY <1>6 DEF traceVars, CoverInv
<1> QED
  BY <1>1, <1>2, <1>3, <1>4, <1>5, <1>6 DEF TraceNext

\* Every predecessor is committed and older, and two traces share one only if
\* their transactions were open together.
THEOREM TraceLedgerSafe == TraceSpec => [](TraceTypeOK /\ PredecessorOlder /\ ForkNeedsOverlap)
<1>1. TraceInit => TraceInv
  BY NoneAssumption DEF TraceInit, TraceInv, TraceTypeOK, SeqInv, ReadInv, CoverInv, OverlapInv, Open
<1>2. TraceInv /\ [TraceNext]_traceVars => TraceInv'
  BY TraceTypeNext, SeqNext, ReadNext, OverlapNext, CoverNext DEF TraceInv
<1>3. TraceInv => PredecessorOlder
  BY DEF TraceInv, TraceTypeOK, SeqInv, ReadInv, PredecessorOlder
<1>4. TraceInv => ForkNeedsOverlap
  <2> SUFFICES ASSUME TraceInv, NEW f \in traces, NEW g \in traces, f # g,
                      prev[f] = prev[g], {f, g} \notin overlap
               PROVE  FALSE
    BY DEF ForkNeedsOverlap
  <2>1. f \in Frames /\ g \in Frames /\ tx[f] = "done" /\ tx[g] = "done"
    BY DEF TraceInv, TraceTypeOK, SeqInv
  <2>2. prev[f] # None
    BY <2>1 DEF TraceInv, CoverInv
  <2>3. seq[prev[f]] < seq[f] /\ seq[prev[f]] < seq[g]
    BY <2>1, <2>2 DEF TraceInv, ReadInv
  <2>4. seq[g] <= seq[prev[f]] \/ seq[f] <= seq[prev[f]]
    BY <2>1 DEF TraceInv, CoverInv
  <2>5. prev[f] \in Frames
    BY <2>1, <2>2 DEF TraceInv, TraceTypeOK
  <2> QED
    BY <2>1, <2>3, <2>4, <2>5 DEF TraceInv, TraceTypeOK
<1> QED
  BY <1>1, <1>2, <1>3, <1>4, PTL DEF TraceSpec, TraceInv

(***************************************************************************)
(* The governance ledger. The invariant behind the chain is the row lock's:*)
(* whoever has read the head under the lock still holds it, so what it read*)
(* is the head of the moment it commits.                                   *)
(***************************************************************************)

LockInv ==
  /\ \A c \in Corrs : lock[c] # NoWriter =>
       Corr[lock[c]] = c /\ pc[lock[c]] \in {"ensured", "locked"}
  /\ \A w \in Writers : pc[w] = "locked" =>
       lock[Corr[w]] = w /\ seen[w] = heads[Corr[w]]

PglInv == PglTypeOK /\ LockInv /\ ChainIntact /\ HeadIsTip

USE PglAssumption DEF Hashes, Genesis, Head, Event, Empty

\* The new events of a call are well typed and numbered from the head it read.
LEMMA StoredEvents ==
  ASSUME PglTypeOK, NEW w \in Writers
  PROVE  /\ Stored(w) \subseteq Event
         /\ \A n \in Stored(w) : /\ n.corr = Corr[w]
                                 /\ seen[w].next <= n.seq
                                 /\ n.seq < seen[w].next + Size[w]
         /\ NextHead(w) \in Head
<1> USE DEF PglTypeOK
<1>1. ASSUME NEW i \in 1..Size[w]
      PROVE  [corr |-> Corr[w], seq |-> seen[w].next + i - 1,
              prev |-> IF i = 1 THEN seen[w].last ELSE <<w, i - 1>>,
              hash |-> <<w, i>>] \in Event
  OBVIOUS
<1>2. Stored(w) \subseteq Event
  BY <1>1 DEF Stored
<1>3. NextHead(w) \in Head
  BY DEF NextHead
<1> QED
  BY <1>2, <1>3 DEF Stored

LEMMA PglTypeNext == PglTypeOK /\ [PglNext]_pglVars => PglTypeOK'
<1> SUFFICES ASSUME PglTypeOK, [PglNext]_pglVars PROVE PglTypeOK'
  OBVIOUS
<1> USE DEF PglTypeOK
<1>1. ASSUME NEW w \in Writers, EnsureHead(w) \/ LockHead(w) PROVE PglTypeOK'
  <2>1. CASE EnsureHead(w)
    BY <2>1 DEF EnsureHead
  <2>2. CASE LockHead(w)
    BY <2>2 DEF LockHead
  <2> QED
    BY <1>1, <2>1, <2>2
<1>2. ASSUME NEW w \in Writers, Append(w), ~Conflicts(w) PROVE PglTypeOK'
  <2>1. events' \subseteq Event
    BY <1>2, StoredEvents DEF Append
  <2>2. heads' \in [Corrs -> Head]
    BY <1>2, StoredEvents DEF Append
  <2>3. exists' \subseteq Corrs /\ lock' \in [Corrs -> Writers \cup {NoWriter}]
    BY <1>2 DEF Append, Release
  <2> QED
    BY <1>2, <2>1, <2>2, <2>3 DEF Append
<1>3. ASSUME NEW w \in Writers, Append(w), Conflicts(w) PROVE PglTypeOK'
  BY <1>3 DEF Append, Release
<1>4. ASSUME NEW w \in Writers, RollBack(w) PROVE PglTypeOK'
  BY <1>4 DEF RollBack, Release
<1>5. CASE UNCHANGED pglVars
  BY <1>5 DEF pglVars
<1> QED
  BY <1>1, <1>2, <1>3, <1>4, <1>5 DEF PglNext, Step

\* A head that was read under the lock stays the head until its reader is done.
LEMMA LockNext == PglTypeOK /\ LockInv /\ [PglNext]_pglVars => LockInv'
<1> SUFFICES ASSUME PglTypeOK, LockInv, [PglNext]_pglVars PROVE LockInv'
  OBVIOUS
<1> USE DEF PglTypeOK, LockInv
<1>1. ASSUME NEW w \in Writers, EnsureHead(w) PROVE LockInv'
  BY <1>1 DEF EnsureHead
<1>2. ASSUME NEW w \in Writers, LockHead(w) PROVE LockInv'
  BY <1>2 DEF LockHead
<1>3. ASSUME NEW w \in Writers, Append(w) PROVE LockInv'
  <2>1. /\ heads' \in {heads, [heads EXCEPT ![Corr[w]] = NextHead(w)]}
        /\ lock' = [lock EXCEPT ![Corr[w]] = NoWriter]
        /\ \E end \in {"done", "refused"} : pc' = [pc EXCEPT ![w] = end]
        /\ UNCHANGED seen
    BY <1>3 DEF Append, Release
  <2>2. \A x \in Writers : pc'[x] = "locked" => x # w /\ Corr[x] # Corr[w]
    BY <1>3, <2>1 DEF Append
  <2>3. \A x \in Writers : pc'[x] = "locked" =>
          lock'[Corr[x]] = x /\ seen'[x] = heads'[Corr[x]]
    BY <2>1, <2>2
  <2>4. \A c \in Corrs : lock'[c] # NoWriter =>
          Corr[lock'[c]] = c /\ pc'[lock'[c]] \in {"ensured", "locked"}
    BY <1>3, <2>1 DEF Append
  <2> QED
    BY <2>3, <2>4
<1>4. ASSUME NEW w \in Writers, RollBack(w) PROVE LockInv'
  BY <1>4 DEF RollBack, Release
<1>5. CASE UNCHANGED pglVars
  BY <1>5 DEF pglVars
<1> QED
  BY <1>1, <1>2, <1>3, <1>4, <1>5 DEF PglNext, Step

\* Numbers below the head are taken, so a call that holds the head meets none.
LEMMA NoConflict == PglInv => \A w \in Writers : pc[w] = "locked" => ~Conflicts(w)
<1> SUFFICES ASSUME PglInv, NEW w \in Writers, pc[w] = "locked", Conflicts(w) PROVE FALSE
  OBVIOUS
<1>1. PICK e \in events, n \in Stored(w) : e.corr = n.corr /\ e.seq = n.seq
  BY DEF Conflicts
<1>2. n.corr = Corr[w] /\ heads[Corr[w]].next <= n.seq /\ n \in Event
  BY StoredEvents DEF PglInv, LockInv
<1>3. e.seq < heads[e.corr].next /\ e \in Event
  BY DEF PglInv, PglTypeOK, ChainIntact
<1>4. heads[Corr[w]].next \in Nat
  BY DEF PglInv, PglTypeOK
<1> QED
  BY <1>1, <1>2, <1>3, <1>4

\* An append extends the chain of its correlation and moves the head to its end.
LEMMA ChainNext == PglInv /\ [PglNext]_pglVars => (ChainIntact /\ HeadIsTip)'
<1> SUFFICES ASSUME PglInv, [PglNext]_pglVars PROVE (ChainIntact /\ HeadIsTip)'
  OBVIOUS
<1>1. CASE UNCHANGED <<events, heads>>
  BY <1>1 DEF PglInv, ChainIntact, HeadIsTip
<1>2. ASSUME NEW w \in Writers, Append(w), ~Conflicts(w)
      PROVE  (ChainIntact /\ HeadIsTip)'
  <2> DEFINE c == Corr[w]
             h == heads[c]
  <2>1. /\ events' = events \cup Stored(w)
        /\ heads' = [heads EXCEPT ![c] = NextHead(w)]
        /\ seen[w] = h /\ c \in Corrs /\ h \in Head /\ Size[w] \in Nat \ {0}
    BY <1>2 DEF Append, PglInv, LockInv, PglTypeOK
  <2>2. heads'[c] = [next |-> h.next + Size[w], last |-> <<w, Size[w]>>]
    BY <2>1 DEF NextHead, PglInv, PglTypeOK
  <2>3. \A d \in Corrs : d # c => heads'[d] = heads[d]
    BY <2>1 DEF PglInv, PglTypeOK
  <2>4. \A e \in events : e \in Event /\ e.seq < heads[e.corr].next
    BY DEF PglInv, PglTypeOK, ChainIntact
  <2>5. \A n \in Stored(w) : n \in Event /\ n.corr = c /\ h.next <= n.seq
                               /\ n.seq < h.next + Size[w]
    BY <2>1, StoredEvents DEF PglInv
  <2>6. \A e \in events' : e.seq < heads'[e.corr].next
    BY <2>1, <2>2, <2>3, <2>4, <2>5
  <2>7. \A n, m \in Stored(w) : n.seq = m.seq => n = m
    BY <2>1 DEF Stored
  <2>8. \A e \in events, n \in Stored(w) : ~(e.corr = n.corr /\ e.seq = n.seq)
    BY <1>2 DEF Conflicts
  <2>9. \A e, f \in events' : e.corr = f.corr /\ e.seq = f.seq => e = f
    BY <2>1, <2>7, <2>8 DEF PglInv, ChainIntact
  <2>10. ASSUME NEW e \in events'
         PROVE IF e.seq = 0 THEN e.prev = Genesis
               ELSE \E f \in events' : f.corr = e.corr /\ f.seq = e.seq - 1 /\ f.hash = e.prev
    <3>1. CASE e \in events
      BY <3>1, <2>1 DEF PglInv, ChainIntact
    <3>2. CASE e \in Stored(w)
      <4>1. PICK i \in 1..Size[w] :
              e = [corr |-> c, seq |-> h.next + i - 1,
                   prev |-> IF i = 1 THEN h.last ELSE <<w, i - 1>>, hash |-> <<w, i>>]
        BY <3>2, <2>1 DEF Stored
      <4>2. CASE i = 1 /\ h.next = 0
        <5>1. h.last = Genesis
          BY <4>2, <2>1 DEF PglInv, HeadIsTip
        <5> QED
          BY <4>1, <4>2, <5>1
      <4>3. CASE i = 1 /\ h.next # 0
        <5>1. \E f \in events : f.corr = c /\ f.seq = h.next - 1 /\ f.hash = h.last
          BY <4>3, <2>1 DEF PglInv, HeadIsTip
        <5> QED
          BY <4>1, <4>3, <5>1, <2>1
      <4>4. CASE i # 1
        <5> DEFINE j == i - 1
                   f == [corr |-> c, seq |-> h.next + j - 1,
                         prev |-> IF j = 1 THEN h.last ELSE <<w, j - 1>>,
                         hash |-> <<w, j>>]
        <5>1. j \in 1..Size[w]
          BY <4>4, <2>1
        <5>2. f \in Stored(w)
          BY <5>1, <2>1 DEF Stored
        <5>3. f.corr = e.corr /\ f.seq = e.seq - 1 /\ f.hash = e.prev /\ e.seq # 0
          BY <4>1, <4>4, <2>1
        <5> QED
          BY <5>2, <5>3, <2>1
      <4> QED
        BY <4>2, <4>3, <4>4
    <3> QED
      BY <3>1, <3>2, <2>1
  <2>11. HeadIsTip'
    <3>1. \E e \in Stored(w) : e.corr = c /\ e.seq = h.next + Size[w] - 1
                                 /\ e.hash = <<w, Size[w]>>
      <4> DEFINE k == Size[w]
                 e == [corr |-> c, seq |-> h.next + k - 1,
                       prev |-> IF k = 1 THEN h.last ELSE <<w, k - 1>>,
                       hash |-> <<w, k>>]
      <4>1. k \in 1..Size[w]
        BY <2>1
      <4>2. e \in Stored(w)
        BY <4>1, <2>1 DEF Stored
      <4> QED
        BY <4>2
    <3>2. ASSUME NEW d \in Corrs
          PROVE IF heads'[d].next = 0 THEN heads'[d].last = Genesis
                ELSE \E e \in events' : e.corr = d /\ e.seq = heads'[d].next - 1
                                          /\ e.hash = heads'[d].last
      <4>1. CASE d = c
        BY <4>1, <3>1, <2>1, <2>2
      <4>2. CASE d # c
        BY <4>2, <2>1, <2>3 DEF PglInv, HeadIsTip
      <4> QED
        BY <4>1, <4>2
    <3> QED
      BY <3>2 DEF HeadIsTip
  <2> QED
    BY <2>6, <2>9, <2>10, <2>11 DEF ChainIntact
<1>3. ASSUME NEW w \in Writers,
             EnsureHead(w) \/ LockHead(w) \/ (Append(w) /\ Conflicts(w)) \/ RollBack(w)
      PROVE  UNCHANGED <<events, heads>>
  BY <1>3 DEF EnsureHead, LockHead, Append, RollBack
<1>4. CASE UNCHANGED pglVars
  BY <1>4, <1>1 DEF pglVars
<1> QED
  BY <1>1, <1>2, <1>3, <1>4 DEF PglNext, Step

\* Every correlation is one intact hash chain ending at its head, and no append
\* is refused by the unique index.
THEOREM PglLedgerSafe == PglSpec => [](PglTypeOK /\ ChainIntact /\ HeadIsTip /\ NeverRefused)
<1>1. PglInit => PglInv /\ NeverRefused
  BY DEF PglInit, PglInv, PglTypeOK, LockInv, ChainIntact, HeadIsTip, NeverRefused
<1>2. PglInv /\ NeverRefused /\ [PglNext]_pglVars => PglInv' /\ NeverRefused'
  <2>1. PglInv /\ [PglNext]_pglVars => PglInv'
    BY PglTypeNext, LockNext, ChainNext DEF PglInv
  <2>2. PglInv /\ NeverRefused /\ [PglNext]_pglVars => NeverRefused'
    BY NoConflict DEF PglInv, PglTypeOK, NeverRefused, PglNext, Step, EnsureHead, LockHead,
       Append, RollBack, pglVars
  <2> QED
    BY <2>1, <2>2
<1>3. PglInv /\ NeverRefused => PglTypeOK /\ ChainIntact /\ HeadIsTip /\ NeverRefused
  BY DEF PglInv
<1> QED
  BY <1>1, <1>2, <1>3, PTL DEF PglSpec

(***************************************************************************)
(* Both together. A step of the composition is a step of one ledger and    *)
(* leaves the other alone, so each ledger keeps its invariant. Whoever is  *)
(* in progress now is paired with everyone else in progress, and has, or   *)
(* will reserve, a newer number than any trace it is not paired with.      *)
(***************************************************************************)
HIDE PglAssumption DEF Hashes, Genesis, Head, Event, Empty

\* A lifecycle is begun only after its trace; requests in progress are paired; an
\* unpaired trace is older than a request in progress; a chain ends below its head.
FollowInv  == \A w \in Writers : Of[w] \in Frames \ traces => pc[w] = "start"
PairInv    == \A f, g \in InProgress : f # g => {f, g} \in together
OlderInv   == \A f \in traces, g \in InProgress :
                f # g /\ {f, g} \notin together => seq[g] = 0 \/ seq[f] < seq[g]
BelowInv   == \A w \in Writers : pc[w] = "done" => seen[w].next < heads[Corr[w]].next
OrderInv   == FollowInv /\ PairInv /\ OlderInv /\ BelowInv /\ OrderNeedsOverlap

LEMMA TraceSimulation == [Next]_vars => [TraceNext]_traceVars
BY DEF Next, TraceStep, AppendStep, RollBackStep, TraceNext, vars

LEMMA PglSimulation == [Next]_vars => [PglNext]_pglVars
BY DEF Next, TraceStep, AppendStep, RollBackStep, PglNext, vars

\* Nobody becomes a request in progress but by beginning.
LEMMA ProgressShrinks ==
  ASSUME TypeOK, SeqInv, FollowInv, [Next]_vars
  PROVE  \/ InProgress' \subseteq InProgress /\ together' = together
         \/ \E f \in Frames : BeginTrace(f) /\ InProgress' \subseteq InProgress \cup {f}
                                /\ together' = together \cup {{f, g} : g \in InProgress}
<1> USE DEF TypeOK, TraceTypeOK, PglTypeOK, InProgress, Lifecycles, Ended, Open
<1>1. ASSUME NEW f \in Frames, BeginTrace(f), Meet(f), UNCHANGED pglVars
      PROVE  InProgress' \subseteq InProgress \cup {f}
  BY <1>1 DEF BeginTrace, pglVars
<1>2. ASSUME NEW f \in Frames, ReadLatest(f) \/ ReserveSeq(f) \/ AbortTrace(f),
             UNCHANGED pglVars
      PROVE  InProgress' \subseteq InProgress
  BY <1>2 DEF ReadLatest, ReserveSeq, AbortTrace, pglVars
<1>3. ASSUME NEW f \in Frames, CommitTrace(f), UNCHANGED pglVars
      PROVE  InProgress' \subseteq InProgress
  BY <1>3 DEF CommitTrace, pglVars
<1>4. ASSUME NEW w \in Writers, Step(w) \/ RollBack(w), UNCHANGED traceVars
      PROVE  InProgress' \subseteq InProgress
  <2>1. \A v \in Writers : v # w => pc'[v] = pc[v]
    BY <1>4 DEF Step, EnsureHead, LockHead, Append, RollBack
  <2>2. ~Ended(w) /\ pc[w] # "done"
    BY <1>4 DEF Step, EnsureHead, LockHead, Append, RollBack
  <2>3. tx' = tx /\ traces' = traces
    BY <1>4 DEF traceVars
  <2> QED
    BY <2>1, <2>2, <2>3
<1>5. CASE UNCHANGED vars
  BY <1>5 DEF vars, traceVars, pglVars
<1> QED
  BY <1>1, <1>2, <1>3, <1>4, <1>5 DEF Next, TraceStep, AppendStep, RollBackStep, Meet

LEMMA FollowNext == TypeOK /\ FollowInv /\ [Next]_vars => FollowInv'
<1> SUFFICES ASSUME TypeOK, FollowInv, [Next]_vars PROVE FollowInv'
  OBVIOUS
<1> USE LedgersAssumption DEF TypeOK, TraceTypeOK, PglTypeOK, FollowInv
<1>1. ASSUME NEW f \in Frames, TraceStep(f) PROVE FollowInv'
  <2>1. pc' = pc /\ traces \subseteq traces'
    BY <1>1 DEF TraceStep, BeginTrace, ReadLatest, ReserveSeq, CommitTrace, AbortTrace, pglVars
  <2> QED
    BY <2>1
<1>2. ASSUME NEW w \in Writers, AppendStep(w) \/ RollBackStep(w) PROVE FollowInv'
  <2>1. traces' = traces /\ Follows(w)
    BY <1>2 DEF AppendStep, RollBackStep, traceVars
  <2>2. \A v \in Writers : v # w => pc'[v] = pc[v]
    BY <1>2 DEF AppendStep, RollBackStep, Step, EnsureHead, LockHead, Append, RollBack
  <2>3. Of[w] \notin Frames \ traces
    BY <2>1, NoneAssumption DEF Follows
  <2> QED
    BY <2>1, <2>2, <2>3
<1>3. CASE UNCHANGED vars
  BY <1>3 DEF vars, traceVars, pglVars
<1> QED
  BY <1>1, <1>2, <1>3 DEF Next

LEMMA PairNext == TypeOK /\ SeqInv /\ FollowInv /\ PairInv /\ [Next]_vars => PairInv'
<1> SUFFICES ASSUME TypeOK, SeqInv, FollowInv, PairInv, [Next]_vars,
                    NEW f \in InProgress', NEW g \in InProgress', f # g
             PROVE  {f, g} \in together'
  BY DEF PairInv
<1>1. CASE InProgress' \subseteq InProgress /\ together' = together
  BY <1>1 DEF PairInv
<1>2. ASSUME NEW h \in Frames, InProgress' \subseteq InProgress \cup {h},
             together' = together \cup {{h, x} : x \in InProgress}
      PROVE  {f, g} \in together'
  <2>1. {f, g} = {g, f}
    OBVIOUS
  <2> QED
    BY <1>2, <2>1 DEF PairInv
<1> QED
  BY <1>1, <1>2, ProgressShrinks

\* A trace that commits was in progress, hence paired with who still is; a number
\* that is reserved is newer than every trace's.
LEMMA OlderNext ==
  TypeOK /\ SeqInv /\ FollowInv /\ PairInv /\ OlderInv /\ [Next]_vars => OlderInv'
<1> SUFFICES ASSUME TypeOK, SeqInv, FollowInv, PairInv, OlderInv, [Next]_vars,
                    NEW f \in traces', NEW g \in InProgress', f # g,
                    {f, g} \notin together'
             PROVE  seq'[g] = 0 \/ seq'[f] < seq'[g]
  BY DEF OlderInv
<1> USE DEF TypeOK, TraceTypeOK
<1>1. together \subseteq together'
  BY ProgressShrinks
<1>2. f \in Frames /\ g \in Frames
  BY DEF InProgress, Open, Next, TraceStep, BeginTrace, ReadLatest, ReserveSeq, CommitTrace,
         AbortTrace, AppendStep, RollBackStep, traceVars, vars
<1>3. CASE UNCHANGED <<seq, traces>>
  <2>1. CASE g \in InProgress
    BY <1>1, <1>3, <2>1 DEF OlderInv
  <2>2. CASE g \notin InProgress
    <3>1. BeginTrace(g)
      BY <2>2, ProgressShrinks
    <3> QED
      BY <1>2, <3>1 DEF BeginTrace, SeqInv
  <2> QED
    BY <2>1, <2>2
<1>4. ASSUME NEW h \in Frames, ReserveSeq(h), UNCHANGED pglVars, together' = together
      PROVE  seq'[g] = 0 \/ seq'[f] < seq'[g]
  <2>1. traces' = traces /\ h \notin traces /\ seq'[f] = seq[f]
    BY <1>2, <1>4 DEF ReserveSeq, SeqInv
  <2>2. CASE g = h
    BY <1>2, <1>4, <2>1, <2>2 DEF ReserveSeq, SeqInv
  <2>3. CASE g # h
    <3>1. seq'[g] = seq[g] /\ g \in InProgress
      BY <1>2, <1>4, <2>3 DEF ReserveSeq, InProgress, Open, Lifecycles, Ended, pglVars
    <3> QED
      BY <1>1, <2>1, <3>1 DEF OlderInv
  <2> QED
    BY <2>2, <2>3
<1>5. ASSUME NEW h \in Frames, CommitTrace(h), UNCHANGED pglVars, together' = together
      PROVE  seq'[g] = 0 \/ seq'[f] < seq'[g]
  <2>1. seq' = seq /\ traces' = traces \cup {h} /\ h \in InProgress
    BY <1>5 DEF CommitTrace, InProgress, Open
  <2>2. g \in InProgress
    <3>1. ~(\E x \in Frames : BeginTrace(x))
      BY <1>5 DEF CommitTrace, BeginTrace, TraceTypeOK
    <3> QED
      BY <3>1, ProgressShrinks
  <2>3. CASE f = h
    BY <1>1, <2>1, <2>2, <2>3 DEF PairInv
  <2>4. CASE f # h
    BY <1>1, <2>1, <2>2, <2>4 DEF OlderInv
  <2> QED
    BY <2>3, <2>4
<1>6. ASSUME NEW h \in Frames, TraceStep(h) PROVE seq'[g] = 0 \/ seq'[f] < seq'[g]
  <2>1. BeginTrace(h) \/ ReadLatest(h) \/ AbortTrace(h) => UNCHANGED <<seq, traces>>
    BY DEF BeginTrace, ReadLatest, AbortTrace
  <2> QED
    BY <1>3, <1>4, <1>5, <1>6, <2>1 DEF TraceStep
<1>7. ASSUME ~\E h \in Frames : TraceStep(h) PROVE UNCHANGED <<seq, traces>>
  BY <1>7 DEF Next, AppendStep, RollBackStep, traceVars, vars
<1> QED
  BY <1>3, <1>6, <1>7

\* An append starts where the head was and leaves the head behind it; whoever of
\* the same correlation is done started lower.
LEMMA OrderNext ==
  TypeOK /\ PglInv /\ SeqInv /\ OrderInv /\ [Next]_vars => (BelowInv /\ OrderNeedsOverlap)'
<1> SUFFICES ASSUME TypeOK, PglInv, SeqInv, OrderInv, [Next]_vars
             PROVE  (BelowInv /\ OrderNeedsOverlap)'
  OBVIOUS
<1> USE LedgersAssumption, PglAssumption, NoneAssumption
    DEF TypeOK, TraceTypeOK, PglTypeOK, Head, OrderInv
<1>1. together \subseteq together'
  BY ProgressShrinks
<1>2. \A w \in Writers : pc[w] = "done" /\ Of[w] # None => Of[w] \in traces
  BY DEF FollowInv
<1>3. \A f \in traces : seq'[f] = seq[f]
  BY DEF Next, TraceStep, BeginTrace, ReadLatest, ReserveSeq, CommitTrace, AbortTrace,
         AppendStep, RollBackStep, traceVars, vars, SeqInv
<1>4. ASSUME \A w \in Writers : pc'[w] = "done" <=> pc[w] = "done",
             \A w \in Writers : pc[w] = "done" => seen'[w] = seen[w],
             heads' = heads
      PROVE  (BelowInv /\ OrderNeedsOverlap)'
  BY <1>1, <1>2, <1>3, <1>4 DEF BelowInv, OrderNeedsOverlap
<1>5. ASSUME NEW w \in Writers, AppendStep(w), Append(w), ~Conflicts(w)
      PROVE  (BelowInv /\ OrderNeedsOverlap)'
  <2>1. /\ pc[w] = "locked" /\ pc' = [pc EXCEPT ![w] = "done"] /\ seen' = seen
        /\ heads' = [heads EXCEPT ![Corr[w]] = NextHead(w)]
        /\ seen[w] = heads[Corr[w]]
        /\ seq' = seq /\ traces' = traces /\ together' = together /\ Follows(w)
    BY <1>5 DEF AppendStep, Append, PglInv, LockInv, traceVars
  <2>2. heads'[Corr[w]].next = seen[w].next + Size[w]
    BY <2>1 DEF NextHead
  <2>3. \A v \in Writers : pc[v] = "done" /\ Corr[v] = Corr[w] => seen[v].next < seen[w].next
    BY <2>1 DEF BelowInv
  <2>4. BelowInv'
    BY <2>1, <2>2, <2>3 DEF BelowInv
  <2>5. ASSUME NEW v \in Writers, pc[v] = "done", Of[v] # None, Of[w] # None,
               Of[v] # Of[w], seq[Of[w]] < seq[Of[v]]
        PROVE  {Of[v], Of[w]} \in together
    <3>1. Of[w] \in traces /\ Of[v] \in traces
      BY <1>2, <2>1, <2>5 DEF Follows
    <3>2. Of[w] \in InProgress
      BY <2>1, <2>5, <3>1 DEF InProgress, Follows, Lifecycles, Ended
    <3>3. seq[Of[w]] > 0
      BY <3>1 DEF SeqInv
    <3> QED
      BY <2>5, <3>1, <3>2, <3>3 DEF OlderInv
  <2>6. OrderNeedsOverlap'
    <3> SUFFICES ASSUME NEW u \in Writers, NEW v \in Writers,
                        pc'[u] = "done", pc'[v] = "done", Corr[u] = Corr[v],
                        Of[u] # None, Of[v] # None, Of[u] # Of[v],
                        seen'[u].next < seen'[v].next, seq'[Of[v]] < seq'[Of[u]]
                 PROVE  {Of[u], Of[v]} \in together'
      BY DEF OrderNeedsOverlap
    <3>1. CASE u # w /\ v # w
      BY <2>1, <3>1 DEF OrderNeedsOverlap
    <3>2. CASE u # w /\ v = w
      BY <2>1, <2>5, <3>2
    <3>3. CASE u = w /\ v # w
      BY <2>1, <2>3, <3>3
    <3> QED
      BY <3>1, <3>2, <3>3
  <2> QED
    BY <2>4, <2>6
<1>6. ASSUME NEW w \in Writers,
             EnsureHead(w) \/ LockHead(w) \/ (Append(w) /\ Conflicts(w)) \/ RollBack(w)
      PROVE  (BelowInv /\ OrderNeedsOverlap)'
  BY <1>4, <1>6 DEF EnsureHead, LockHead, Append, RollBack
<1>7. ASSUME UNCHANGED pglVars PROVE (BelowInv /\ OrderNeedsOverlap)'
  BY <1>4, <1>7 DEF pglVars
<1> QED
  BY <1>5, <1>6, <1>7 DEF Next, TraceStep, AppendStep, RollBackStep, Step, vars

\* What each ledger promises holds in the composition, and the governance chains
\* order decisions as the trace ledger does, but for requests that overlapped.
THEOREM LedgersSafe ==
  Spec => [](TypeOK /\ PredecessorOlder /\ ForkNeedsOverlap /\ ChainIntact /\ NeverRefused
               /\ OrderNeedsOverlap)
<1>1. Spec => [](TraceTypeOK /\ PredecessorOlder /\ ForkNeedsOverlap)
  <2>1. Spec => TraceSpec
    BY TraceSimulation, PTL DEF Spec, Init, TraceSpec
  <2> QED
    BY <2>1, TraceLedgerSafe, PTL
<1>2. Spec => [](PglTypeOK /\ ChainIntact /\ HeadIsTip /\ NeverRefused)
  <2>1. Spec => PglSpec
    BY PglSimulation, PTL DEF Spec, Init, PglSpec
  <2> QED
    BY <2>1, PglLedgerSafe, PTL
<1> DEFINE IInv == TypeOK /\ SeqInv /\ PglInv /\ OrderInv
<1>3. Init => IInv
  <2>1. Init => TraceTypeOK /\ SeqInv
    BY NoneAssumption DEF Init, TraceInit, TraceTypeOK, SeqInv
  <2>2. Init => PglInv
    BY PglAssumption DEF Init, PglInit, PglInv, PglTypeOK, LockInv, ChainIntact, HeadIsTip,
       Empty, Head, Genesis, Hashes
  <2>3. Init => OrderInv
    BY DEF Init, TraceInit, PglInit, OrderInv, FollowInv, PairInv, OlderInv, BelowInv,
       OrderNeedsOverlap, InProgress, Open
  <2> QED
    BY <2>1, <2>2, <2>3 DEF TypeOK, PglInv, Init
<1>4. IInv /\ [Next]_vars => IInv'
  <2> SUFFICES ASSUME IInv, [Next]_vars PROVE IInv'
    OBVIOUS
  <2>1. (TraceTypeOK /\ SeqInv)'
    BY TraceSimulation, TraceTypeNext, SeqNext DEF TypeOK
  <2>2. PglInv'
    BY PglSimulation, PglTypeNext, LockNext, ChainNext DEF PglInv
  <2>3. OrderInv'
    BY FollowNext, PairNext, OlderNext, OrderNext DEF OrderInv
  <2>4. together' \subseteq SUBSET Frames
    <3>1. InProgress \subseteq Frames
      BY DEF TypeOK, TraceTypeOK, InProgress, Open
    <3> QED
      BY <3>1, ProgressShrinks DEF OrderInv, TypeOK
  <2> QED
    BY <2>1, <2>2, <2>3, <2>4 DEF TypeOK, PglInv
<1>5. Spec => [](TypeOK /\ OrderNeedsOverlap)
  <2>1. IInv => TypeOK /\ OrderNeedsOverlap
    BY DEF OrderInv
  <2> QED
    BY <1>3, <1>4, <2>1, PTL DEF Spec
<1> QED
  BY <1>1, <1>2, <1>5, PTL

\* The unique index on (correlation, sequence) refuses no append of a decision.
COROLLARY AppendsNeverRefused == Spec => []NeverRefused
BY LedgersSafe, PTL
=============================================================================
