------------------------ MODULE DoctrineControlProofs ------------------------
(***************************************************************************)
(* The doctrine control plane for any number of operators, calls, readers, *)
(* proposals and failures, under either schema.  The argument: calls that  *)
(* write versions hold the lock from their reads on, so what they read is  *)
(* still so when they write, but for a bootstrap, which can only have put  *)
(* version 1 into an empty table.  If it did so after they read the number *)
(* the unique number refuses them; if before, the index on ACTIVE rows     *)
(* does, where there is one, and else two versions are ACTIVE.             *)
(***************************************************************************)
EXTENDS DoctrineControl, SequenceTheorems, TLAPS

Locking == {"approve", "rollback"}

\* A transaction has read and not yet committed.
Open(c) == pc[c] \in {"number", "write"}

\* What a call with an open transaction knows.
JobInv ==
  \A c \in Calls : Open(c) =>
    /\ job[c].kind # "none"
    /\ pc[c] = "number" => job[c].kind \in Locking
    /\ job[c].kind \in Locking => lock = c /\ job[c].by \in Operators
    /\ job[c].kind \in {"approve", "reject"} =>
         job[c].on \in Proposals /\ proposals[job[c].on].status # "absent"
    /\ job[c].kind = "approve" => proposals[job[c].on].proposer # job[c].by
    /\ job[c].kind = "rollback" => job[c].on \in DOMAIN versions /\ job[c].supersede
    /\ job[c].kind = "bootstrap" =>
         job[c].by = Nobody /\ job[c].number = 1 /\ ~job[c].supersede

\* A bootstrap came in after the call had read that no row is ACTIVE.
Beside(c) == versions = <<Provisioned>> /\ ~job[c].supersede

\* What it read of the versions is still so, or a bootstrap came in between.
ReadInv ==
  \A c \in Calls : Open(c) /\ job[c].kind \in Locking =>
    /\ (job[c].supersede <=> versions # <<>>) \/ Beside(c)
    /\ pc[c] = "write" =>
         job[c].number = Len(versions) + 1 \/ (job[c].number = 1 /\ Beside(c))

\* Settings that came into force were proposed.
KnownInv ==
  \A n \in DOMAIN versions :
    versions[n].settings # Default => proposals[versions[n].settings].status # "absent"

\* Until a commit overtakes one, readers fill what is in force.
FillInv == ~disturbed =>
  \A r \in Readers : reader[r].pc = "fill" => reader[r].version \in InForce

Inv ==
  /\ TypeOK /\ JobInv /\ ReadInv /\ KnownInv /\ FillInv
  /\ ActiveIsLatest /\ TwoPersons /\ ApprovedIsEnacted /\ CacheCoherent

-----------------------------------------------------------------------------
LEMMA TableType ==
  ASSUME NEW V, NEW n \in Nat, NEW f \in [1..n -> V]
  PROVE  f \in Seq(V) /\ Len(f) = n /\ DOMAIN f = 1..n
<1>1. f \in Seq(V)
  BY SeqDef
<1>2. Len(f) \in Nat /\ DOMAIN f = 1..Len(f)
  BY <1>1, LenProperties
<1> QED
  BY <1>1, <1>2

\* Superseding rewrites statuses and nothing else.
LEMMA SupersededTable ==
  ASSUME versions \in Seq(Version), NEW j \in Job
  PROVE  /\ Superseded(j) \in Seq(Version)
         /\ Len(Superseded(j)) = Len(versions)
         /\ \A n \in 1..Len(versions) :
              /\ j.supersede => Superseded(j)[n] = [versions[n] EXCEPT !.status = "SUPERSEDED"]
              /\ ~j.supersede => Superseded(j)[n] = versions[n]
<1>1. Len(versions) \in Nat /\ DOMAIN versions = 1..Len(versions)
  BY LenProperties
<1>2. \A n \in 1..Len(versions) : versions[n] \in Version
  BY <1>1, ElementOfSeq
<1>3. Superseded(j) \in [1..Len(versions) -> Version]
  BY <1>1, <1>2 DEF Superseded, Version, Job
<1> QED
  BY <1>1, <1>3, TableType DEF Superseded

LEMMA NewVersionType ==
  ASSUME TypeOK, JobInv, NEW c \in Calls, pc[c] = "write", job[c].kind # "reject"
  PROVE  /\ NewVersion(job[c]) \in Version
         /\ NewVersion(job[c]).status = "ACTIVE"
<1>1. job[c] \in Job /\ job[c].kind \in {"approve", "rollback", "bootstrap"}
  BY DEF TypeOK, JobInv, Open, Job
<1>2. CASE job[c].kind = "approve"
  <2>1. proposals[job[c].on].proposer \in Person /\ job[c].on \in Proposals
    BY <1>2 DEF TypeOK, JobInv, Open, Proposal
  <2> QED
    BY <1>1, <1>2, <2>1 DEF NewVersion, Version, Job
<1>3. CASE job[c].kind = "rollback"
  <2>1. versions[job[c].on] \in Version
    BY <1>3, ElementOfSeq, LenProperties DEF TypeOK, JobInv, Open
  <2> QED
    BY <1>1, <1>3, <2>1 DEF NewVersion, Version, Job
<1>4. CASE job[c].kind = "bootstrap"
  BY <1>1, <1>4 DEF NewVersion, Version, Job
<1> QED
  BY <1>1, <1>2, <1>3, <1>4

\* The version table after an activation.
LEMMA Activated ==
  ASSUME TypeOK, JobInv, NEW c \in Calls, Activate(c)
  PROVE  /\ versions' \in Seq(Version)
         /\ Len(versions') = Len(versions) + 1
         /\ Len(versions) \in Nat
         /\ DOMAIN versions = 1..Len(versions)
         /\ DOMAIN versions' = 1..(Len(versions) + 1)
         /\ versions'[Len(versions) + 1] = NewVersion(job[c])
         /\ \A n \in 1..Len(versions) :
              /\ versions[n] \in Version
              /\ job[c].supersede => versions'[n] = [versions[n] EXCEPT !.status = "SUPERSEDED"]
              /\ ~job[c].supersede => versions'[n] = versions[n]
         /\ job[c].number = Len(versions) + 1
<1> DEFINE T == Superseded(job[c])
           v == NewVersion(job[c])
<1>1. versions \in Seq(Version) /\ job[c] \in Job /\ pc[c] = "write" /\ job[c].kind # "reject"
  BY DEF TypeOK, Activate
<1>2. v \in Version
  BY <1>1, NewVersionType
<1>3. /\ T \in Seq(Version) /\ Len(T) = Len(versions)
      /\ \A n \in 1..Len(versions) :
           /\ job[c].supersede => T[n] = [versions[n] EXCEPT !.status = "SUPERSEDED"]
           /\ ~job[c].supersede => T[n] = versions[n]
  BY <1>1, SupersededTable
<1>4. Len(versions) \in Nat /\ DOMAIN versions = 1..Len(versions)
  BY <1>1, LenProperties
<1>5. \A n \in 1..Len(versions) : versions[n] \in Version
  BY <1>1, <1>4, ElementOfSeq
<1>6. versions' = Append(T, v) /\ job[c].number = Len(T) + 1
  BY DEF Activate, Accepts
<1>7. /\ Append(T, v) \in Seq(Version)
      /\ Len(Append(T, v)) = Len(T) + 1
      /\ \A i \in 1..Len(T) : Append(T, v)[i] = T[i]
      /\ Append(T, v)[Len(T) + 1] = v
  BY <1>2, <1>3, AppendProperties
<1>8. DOMAIN versions' = 1..Len(versions')
  BY <1>6, <1>7, LenProperties
<1> HIDE DEF T, v
<1>9. versions'[Len(versions) + 1] = v /\ \A n \in 1..Len(versions) : versions'[n] = T[n]
  BY <1>3, <1>6, <1>7
<1> QED
  BY <1>3, <1>4, <1>5, <1>6, <1>7, <1>8, <1>9 DEF v

-----------------------------------------------------------------------------
LEMMA InitInv == Init => Inv
<1> SUFFICES ASSUME Init PROVE Inv
  OBVIOUS
<1> USE DoctrineAssumption DEF Init
<1>1. Provisioned \in Version
  BY DEF Provisioned, Version, Person
<1>2. versions \in Seq(Version) /\ Len(versions) \in Nat
  <2>1. <<Provisioned>> \in Seq(Version) /\ Len(<<Provisioned>>) = 1
    BY <1>1
  <2>2. <<>> \in Seq(Version) /\ Len(<<>>) = 0
    OBVIOUS
  <2> QED
    BY <2>1, <2>2
<1>3. TypeOK
  <2>1. proposals \in [Proposals -> Proposal]
    BY DEF Proposal, Person
  <2>2. job \in [Calls -> Job]
    BY DEF NoJob, Job, Person
  <2>3. cache \in 0..Len(versions)
    BY <1>2
  <2>4. reader \in [Readers -> [pc : {"idle", "query", "fill"}, version : 0..Len(versions)]]
    BY <1>2
  <2>5. hazards \in 0..MaxHazards
    OBVIOUS
  <2> QED
    BY <1>2, <2>1, <2>2, <2>3, <2>4, <2>5 DEF TypeOK
<1>4. JobInv /\ ReadInv /\ FillInv /\ CacheCoherent /\ ApprovedIsEnacted
  BY DEF JobInv, ReadInv, Open, FillInv, CacheCoherent, ApprovedIsEnacted
<1>5. CASE versions = <<>>
  BY <1>3, <1>4, <1>5 DEF Inv, KnownInv, ActiveIsLatest, TwoPersons, Active
<1>6. CASE versions = <<Provisioned>>
  <2>1. DOMAIN versions = {1} /\ Len(versions) = 1 /\ versions[1] = Provisioned
    BY <1>6
  <2> QED
    BY <1>3, <1>4, <2>1
    DEF Inv, KnownInv, ActiveIsLatest, TwoPersons, Active, Provisioned
<1> QED
  BY <1>5, <1>6

-----------------------------------------------------------------------------
LEMMA SchemaFixed == [Next]_vars => UNCHANGED migrated
BY DEF Next, vars, tables, CreateProposal, Approve, Reject, Rollback, Bootstrap, Start,
  ReadNumber, Activate, Abort, Undone, Refuse, Invalidate, Crash, Miss, Query, Fill, Expire

\* The tables change in three ways only.
LEMMA TableSteps ==
  ASSUME [Next]_vars
  PROVE  \/ \E p \in Proposals, o \in Operators : CreateProposal(p, o)
         \/ \E c \in Calls : Activate(c) \/ Refuse(c)
         \/ UNCHANGED <<proposals, versions>>
<1>1. CASE \E c \in Calls, o \in Operators, p \in Proposals : Approve(c, o, p) \/ Reject(c, o, p)
  BY <1>1 DEF Approve, Reject, Start, tables
<1>2. CASE \E c \in Calls, o \in Operators, n \in DOMAIN versions : Rollback(c, o, n)
  BY <1>2 DEF Rollback, Start, tables
<1>3. CASE \E c \in Calls :
             Bootstrap(c) \/ ReadNumber(c) \/ Abort(c) \/ Invalidate(c) \/ Crash(c)
  BY <1>3 DEF Bootstrap, Start, ReadNumber, Abort, Undone, Invalidate, Crash, tables
<1>4. CASE (\E r \in Readers : Miss(r) \/ Query(r) \/ Fill(r)) \/ Expire
  BY <1>4 DEF Miss, Query, Fill, Expire, tables
<1>5. CASE UNCHANGED vars
  BY <1>5 DEF vars, tables
<1> QED
  BY <1>1, <1>2, <1>3, <1>4, <1>5 DEF Next

LEMMA TypeNext == TypeOK /\ JobInv /\ [Next]_vars => TypeOK'
<1> SUFFICES ASSUME TypeOK, JobInv, [Next]_vars PROVE TypeOK'
  OBVIOUS
<1> USE DoctrineAssumption
<1>0. versions \in Seq(Version) /\ Len(versions) \in Nat /\ DOMAIN versions = 1..Len(versions)
  BY LenProperties DEF TypeOK
<1>1. ASSUME NEW p \in Proposals, NEW o \in Operators, CreateProposal(p, o) PROVE TypeOK'
  <2>1. [status |-> "PENDING_APPROVAL", proposer |-> o, approver |-> Nobody] \in Proposal
    BY DEF Proposal, Person
  <2> QED
    BY <1>1, <2>1 DEF TypeOK, CreateProposal, calls
<1>2. ASSUME NEW c \in Calls, NEW kind \in {"approve", "reject", "rollback", "bootstrap"},
             NEW o \in Person, NEW on \in Nat, NEW next \in {"number", "write"},
             Start(c, kind, o, on, next),
             lock' = c \/ lock' = lock, hazards' \in 0..MaxHazards
      PROVE  TypeOK'
  <2>1. [kind |-> kind, by |-> o, on |-> on,
         number |-> 1, supersede |-> Active # {}] \in Job
    BY DEF Job
  <2> QED
    BY <1>2, <2>1 DEF TypeOK, Start, tables
<1>3. ASSUME NEW c \in Calls, NEW o \in Operators, NEW p \in Proposals,
             Approve(c, o, p) \/ Reject(c, o, p)
      PROVE  TypeOK'
  BY <1>2, <1>3 DEF Approve, Reject, Acquire, TypeOK, Proposals, Person
<1>3a. ASSUME NEW c \in Calls, ReadNumber(c) PROVE TypeOK'
  <2> DEFINE j == [job[c] EXCEPT !.number = Len(versions) + 1]
  <2>1. job[c] \in Job /\ Len(versions) + 1 \in Nat
    BY <1>0 DEF TypeOK
  <2>2. j \in Job
    BY <2>1 DEF Job
  <2>3. job' = [job EXCEPT ![c] = j]
    BY <1>3a DEF ReadNumber
  <2> HIDE DEF j
  <2>4. job' \in [Calls -> Job]
    BY <2>2, <2>3 DEF TypeOK
  <2> QED
    BY <1>3a, <2>4 DEF ReadNumber, TypeOK, tables
<1>4. ASSUME NEW c \in Calls, NEW o \in Operators, NEW n \in DOMAIN versions, Rollback(c, o, n)
      PROVE  TypeOK'
  BY <1>0, <1>2, <1>4 DEF Rollback, Hazard, Acquire, TypeOK, Person
<1>5. ASSUME NEW c \in Calls, Bootstrap(c) PROVE TypeOK'
  BY <1>2, <1>5 DEF Bootstrap, TypeOK, Person
<1>6. ASSUME NEW c \in Calls, Activate(c) PROVE TypeOK'
  <2>1. versions' \in Seq(Version) /\ Len(versions') = Len(versions) + 1
    BY <1>6, Activated
  <2>2. proposals' \in [Proposals -> Proposal]
    <3>1. job[c].by \in Person
      BY DEF TypeOK, Job
    <3>2. CASE job[c].kind = "approve"
      <4>1. job[c].on \in Proposals
        BY <1>6, <3>2 DEF JobInv, Open, Activate
      <4> QED
        <5> DEFINE p == proposals[job[c].on]
                   q == [p EXCEPT !.status = "APPROVED", !.approver = job[c].by]
        <5>1. p \in Proposal
          BY <4>1 DEF TypeOK
        <5>2. q \in Proposal
          BY <3>1, <5>1 DEF Proposal
        <5>3. proposals' = [proposals EXCEPT ![job[c].on] = q]
          BY <1>6, <3>2 DEF Activate, Approved
        <5> QED
          BY <5>2, <5>3 DEF TypeOK
    <3>3. CASE job[c].kind # "approve"
      BY <1>6, <3>3 DEF TypeOK, Activate
    <3> QED
      BY <3>2, <3>3
  <2>3. cache' \in 0..Len(versions')
        /\ reader' \in [Readers -> [pc : {"idle", "query", "fill"}, version : 0..Len(versions')]]
    <3>1. 0..Len(versions) \subseteq 0..Len(versions')
      BY <1>0, <2>1
    <3>2. cache \in 0..Len(versions')
      BY <3>1 DEF TypeOK
    <3>3. reader \in [Readers -> [pc : {"idle", "query", "fill"}, version : 0..Len(versions')]]
      BY <3>1 DEF TypeOK
    <3> QED
      BY <1>6, <3>2, <3>3 DEF Activate
  <2>4. job' \in [Calls -> Job] /\ lock' \in Calls \cup {Free}
    BY <1>6 DEF Activate, Release, TypeOK, NoJob, Job, Person
  <2>5. /\ pc' \in [Calls -> {"idle", "number", "write", "invalidate"}]
        /\ disturbed' \in BOOLEAN
        /\ hazards' \in 0..MaxHazards
        /\ migrated' \in BOOLEAN
    BY <1>6 DEF Activate, Enacts, TypeOK
  <2> QED
    BY <2>1, <2>2, <2>3, <2>4, <2>5 DEF TypeOK
<1>7. NoJob \in Job
  BY DEF NoJob, Job, Person
<1>8. ASSUME NEW c \in Calls, Abort(c) PROVE TypeOK'
  BY <1>7, <1>8 DEF Abort, Hazard, Release, Undone, TypeOK, tables
<1>9. ASSUME NEW c \in Calls, Refuse(c) PROVE TypeOK'
  <2>1. job[c].on \in Proposals /\ job[c].by \in Person
    BY <1>9 DEF Refuse, JobInv, Open, TypeOK, Job
  <2>2. proposals' \in [Proposals -> Proposal]
    BY <1>9, <2>1 DEF Refuse, TypeOK, Proposal
  <2> QED
    BY <1>7, <1>9, <2>2 DEF Refuse, Release, TypeOK
<1>10. ASSUME NEW c \in Calls, Invalidate(c) PROVE TypeOK'
  <2>1. cache' \in 0..Len(versions) /\ hazards' \in 0..MaxHazards /\ disturbed' \in BOOLEAN
    <3>1. CASE cache' = 0 /\ UNCHANGED <<hazards, disturbed>>
      BY <1>0, <3>1 DEF TypeOK
    <3>2. CASE Hazard /\ disturbed' = TRUE /\ UNCHANGED cache
      BY <3>2 DEF Hazard, TypeOK
    <3> QED
      BY <1>10, <3>1, <3>2 DEF Invalidate
  <2> QED
    BY <1>10, <2>1 DEF Invalidate, TypeOK, tables
<1>11. ASSUME NEW c \in Calls, Crash(c) PROVE TypeOK'
  <2>1. hazards' \in 0..MaxHazards /\ disturbed' \in BOOLEAN
    BY <1>11 DEF Crash, Hazard, TypeOK
  <2> QED
    BY <1>7, <1>11, <2>1 DEF Crash, Release, TypeOK, tables
<1>12. ASSUME NEW r \in Readers, Miss(r) \/ Query(r) \/ Fill(r) PROVE TypeOK'
  <2> DEFINE R == [pc : {"idle", "query", "fill"}, version : 0..Len(versions)]
  <2>1. reader \in [Readers -> R] /\ reader[r].version \in 0..Len(versions)
    BY DEF TypeOK
  <2>2. [reader[r] EXCEPT !.pc = "query"] \in R /\ [reader[r] EXCEPT !.pc = "idle"] \in R
    BY <2>1
  <2>3. \A n \in InForce : [pc |-> "fill", version |-> n] \in R
    BY <1>0 DEF InForce, Active
  <2>4. [pc |-> "idle", version |-> 0] \in R
    BY <1>0
  <2>5. \E x \in R : reader' = [reader EXCEPT ![r] = x]
    BY <1>12, <2>2, <2>3, <2>4 DEF Miss, Query, Fill
  <2>6. reader' \in [Readers -> R]
    BY <2>1, <2>5
  <2>7. cache' \in 0..Len(versions) /\ hazards' \in 0..MaxHazards
    BY <1>12, <2>1 DEF Miss, Query, Fill, Hazard, TypeOK
  <2> QED
    BY <1>12, <2>6, <2>7 DEF Miss, Query, Fill, TypeOK, tables, calls
<1>13. CASE Expire
  BY <1>0, <1>13 DEF Expire, TypeOK, tables, calls
<1>14. CASE UNCHANGED vars
  BY <1>14 DEF vars, tables, calls, TypeOK
<1> QED
  BY <1>1, <1>3, <1>3a, <1>4, <1>5, <1>6, <1>8, <1>9, <1>10, <1>11, <1>12, <1>13,
     <1>14 DEF Next

-----------------------------------------------------------------------------
LEMMA JobNext == Inv /\ TypeOK' /\ [Next]_vars => JobInv'
<1> SUFFICES ASSUME Inv, TypeOK', [Next]_vars PROVE JobInv'
  OBVIOUS
<1> USE DoctrineAssumption
<1>0. /\ TypeOK /\ JobInv /\ ReadInv /\ ActiveIsLatest
      /\ Len(versions) \in Nat /\ DOMAIN versions = 1..Len(versions)
  BY LenProperties DEF Inv, TypeOK
<1>00. Active # {} <=> versions # <<>>
  BY <1>0 DEF ActiveIsLatest
<1> USE DEF Locking, Open
<1>1. ASSUME NEW p \in Proposals, NEW o \in Operators, CreateProposal(p, o) PROVE JobInv'
  BY <1>0, <1>1 DEF JobInv, CreateProposal, TypeOK, calls
<1>2. ASSUME NEW c \in Calls, NEW o \in Operators, NEW p \in Proposals,
             Approve(c, o, p) \/ Reject(c, o, p)
      PROVE  JobInv'
  BY <1>0, <1>2 DEF JobInv, Approve, Reject, Acquire, Start, TypeOK, tables
<1>3. ASSUME NEW c \in Calls, NEW o \in Operators, NEW n \in DOMAIN versions, Rollback(c, o, n)
      PROVE  JobInv'
  <2>1. n \in Nat /\ Active # {}
    BY <1>0, <1>00
  <2>2. /\ job'[c] = [kind |-> "rollback", by |-> o, on |-> n, number |-> 1, supersede |-> TRUE]
        /\ lock' = c /\ pc[c] = "idle"
    BY <1>0, <1>3, <2>1 DEF Rollback, Acquire, Start, TypeOK
  <2>3. \A d \in Calls : d # c => pc'[d] = pc[d] /\ job'[d] = job[d] /\ lock # d
    BY <1>0, <1>3 DEF Rollback, Acquire, Start, TypeOK
  <2>4. UNCHANGED <<proposals, versions>>
    BY <1>3 DEF Rollback, Start, tables
  <2> QED
    BY <1>0, <2>2, <2>3, <2>4 DEF JobInv
<1>3a. ASSUME NEW c \in Calls, ReadNumber(c) PROVE JobInv'
  <2>1. /\ job'[c].kind = job[c].kind /\ job'[c].by = job[c].by /\ job'[c].on = job[c].on
        /\ job'[c].supersede = job[c].supersede
        /\ pc[c] = "number" /\ pc'[c] = "write"
    BY <1>0, <1>3a DEF ReadNumber, TypeOK, Job
  <2>2. \A d \in Calls : d # c => pc'[d] = pc[d] /\ job'[d] = job[d]
    BY <1>0, <1>3a DEF ReadNumber, TypeOK
  <2>3. UNCHANGED <<proposals, versions, lock>>
    BY <1>3a DEF ReadNumber, tables
  <2> QED
    BY <1>0, <2>1, <2>2, <2>3 DEF JobInv
<1>4. ASSUME NEW c \in Calls, Bootstrap(c) PROVE JobInv'
  <2>2. job'[c] = [kind |-> "bootstrap", by |-> Nobody, on |-> 0, number |-> 1, supersede |-> FALSE]
    <3>1. job' = [job EXCEPT ![c] = [kind |-> "bootstrap", by |-> Nobody, on |-> 0,
                    number |-> 1, supersede |-> Active # {}]]
      BY <1>4 DEF Bootstrap, Start
    <3>2. (Active # {}) = FALSE
      BY <1>4 DEF Bootstrap
    <3>3. job' = [job EXCEPT ![c] = [kind |-> "bootstrap", by |-> Nobody, on |-> 0,
                    number |-> 1, supersede |-> FALSE]]
      BY <3>1, <3>2, Zenon
    <3> QED
      BY <1>0, <3>3 DEF TypeOK
  <2>5. pc'[c] = "write"
    BY <1>0, <1>4 DEF Bootstrap, Start, TypeOK
  <2>3. \A d \in Calls : d # c => pc'[d] = pc[d] /\ job'[d] = job[d]
    BY <1>0, <1>4 DEF Bootstrap, Start, TypeOK
  <2>4. UNCHANGED <<proposals, versions, lock>>
    BY <1>4 DEF Bootstrap, Start, tables
  <2> QED
    BY <1>0, <2>2, <2>3, <2>4, <2>5 DEF JobInv
<1>5. ASSUME NEW c \in Calls, Activate(c) PROVE JobInv'
  <2>1. DOMAIN versions \subseteq DOMAIN versions'
    BY <1>0, <1>5, Activated
  <2>2. \A p \in Proposals : /\ proposals'[p].proposer = proposals[p].proposer
                             /\ proposals[p].status # "absent" => proposals'[p].status # "absent"
    BY <1>0, <1>5 DEF Activate, Approved, TypeOK, Proposal
  <2>3. \A d \in Calls : Open(d)' => d # c /\ pc'[d] = pc[d] /\ job'[d] = job[d]
                                        /\ (lock = d => lock' = d)
    BY <1>0, <1>5 DEF Activate, Enacts, Release, TypeOK
  <2> QED
    BY <1>0, <2>1, <2>2, <2>3 DEF JobInv
<1>6. ASSUME NEW c \in Calls, Refuse(c) PROVE JobInv'
  <2>1. \A p \in Proposals : /\ proposals'[p].proposer = proposals[p].proposer
                             /\ proposals[p].status # "absent" => proposals'[p].status # "absent"
    BY <1>0, <1>6 DEF Refuse, TypeOK, Proposal
  <2>2. \A d \in Calls : Open(d)' => d # c /\ pc'[d] = pc[d] /\ job'[d] = job[d]
                                        /\ (lock = d => lock' = d)
    BY <1>0, <1>6 DEF Refuse, Release, TypeOK
  <2>3. UNCHANGED versions
    BY <1>6 DEF Refuse
  <2> QED
    BY <1>0, <2>1, <2>2, <2>3 DEF JobInv
<1>7. ASSUME NEW c \in Calls, Abort(c) \/ Invalidate(c) \/ Crash(c) PROVE JobInv'
  <2>1. \A d \in Calls : Open(d)' => pc'[d] = pc[d] /\ job'[d] = job[d]
                                        /\ (lock = d => lock' = d)
    BY <1>0, <1>7 DEF Abort, Invalidate, Crash, Release, TypeOK
  <2>2. UNCHANGED <<proposals, versions>>
    BY <1>7 DEF Abort, Undone, Invalidate, Crash, tables
  <2> QED
    BY <1>0, <2>1, <2>2 DEF JobInv
<1>8. CASE (\E r \in Readers : Miss(r) \/ Query(r) \/ Fill(r)) \/ Expire \/ UNCHANGED vars
  <2>1. UNCHANGED <<proposals, versions, lock, pc, job>>
    BY <1>8 DEF Miss, Query, Fill, Expire, vars, tables, calls
  <2> QED
    BY <1>0, <2>1 DEF JobInv
<1> QED
  BY <1>1, <1>2, <1>3, <1>3a, <1>4, <1>5, <1>6, <1>7, <1>8 DEF Next

\* Only a bootstrap can commit while another call holds the lock.
LEMMA ReadNext == Inv /\ TypeOK' /\ [Next]_vars => ReadInv'
<1> SUFFICES ASSUME Inv, TypeOK', [Next]_vars PROVE ReadInv'
  OBVIOUS
<1> USE DoctrineAssumption
<1>0. /\ TypeOK /\ JobInv /\ ReadInv /\ ActiveIsLatest
      /\ versions \in Seq(Version)
      /\ Len(versions) \in Nat /\ DOMAIN versions = 1..Len(versions)
  BY LenProperties DEF Inv, TypeOK
<1> USE DEF Locking, Open, Beside
<1>1. ASSUME NEW c \in Calls, NEW kind, NEW o, NEW on, NEW next, Start(c, kind, o, on, next),
             next = "number" \/ kind \notin Locking
      PROVE  ReadInv'
  <2>1. Active # {} <=> versions # <<>>
    BY <1>0 DEF ActiveIsLatest
  <2>2. /\ job'[c].kind = kind /\ (job'[c].supersede <=> versions # <<>>)
        /\ pc'[c] = next
    BY <1>0, <1>1, <2>1 DEF Start, TypeOK
  <2>3. \A d \in Calls : d # c => pc'[d] = pc[d] /\ job'[d] = job[d]
    BY <1>0, <1>1 DEF Start, TypeOK
  <2>4. UNCHANGED versions
    BY <1>1 DEF Start, tables
  <2> QED
    BY <1>0, <1>1, <2>2, <2>3, <2>4 DEF ReadInv
<1>1a. ASSUME NEW c \in Calls, ReadNumber(c) PROVE ReadInv'
  <2>1. /\ job'[c].kind = job[c].kind /\ job'[c].supersede = job[c].supersede
        /\ job'[c].number = Len(versions) + 1 /\ pc[c] = "number"
    BY <1>0, <1>1a DEF ReadNumber, TypeOK, Job
  <2>2. \A d \in Calls : d # c => pc'[d] = pc[d] /\ job'[d] = job[d]
    BY <1>0, <1>1a DEF ReadNumber, TypeOK
  <2>3. UNCHANGED versions
    BY <1>1a DEF ReadNumber, tables
  <2> QED
    BY <1>0, <2>1, <2>2, <2>3 DEF ReadInv
<1>2. ASSUME NEW c \in Calls, Activate(c) PROVE ReadInv'
  <2> SUFFICES ASSUME NEW d \in Calls, Open(d)', job'[d].kind \in Locking
               PROVE  /\ Beside(d)'
                      /\ pc'[d] = "write" => job'[d].number = 1
    BY DEF ReadInv
  <2>1. /\ d # c /\ Open(d) /\ pc'[d] = pc[d] /\ job[d] = job'[d]
        /\ job[c] \in Job /\ pc[c] = "write"
    BY <1>0, <1>2 DEF Activate, Enacts, Release, TypeOK
  <2>2. job[c].kind = "bootstrap"
    BY <1>0, <1>2, <2>1 DEF JobInv, Activate
  <2>3. job[c].number = 1 /\ job[c].by = Nobody
    BY <1>0, <2>1, <2>2 DEF JobInv
  <2>4. /\ Len(versions) = 0 /\ versions' \in Seq(Version) /\ Len(versions') = 1
        /\ versions'[1] = NewVersion(job[c])
    <3>1. /\ versions' \in Seq(Version) /\ Len(versions') = Len(versions) + 1
          /\ versions'[Len(versions) + 1] = NewVersion(job[c])
          /\ job[c].number = Len(versions) + 1
      BY <1>0, <1>2, Activated
    <3> QED
      BY <1>0, <2>3, <3>1
  <2>5. NewVersion(job[c]) = Provisioned
    BY <2>2, <2>3 DEF NewVersion, Provisioned
  <2>6. versions' = <<Provisioned>>
    BY <2>4, <2>5
  <2>7. versions = <<>>
    BY <1>0, <2>4
  <2>8. ~job[d].supersede /\ (pc[d] = "write" => job[d].number = 1)
    <3>1. versions # <<Provisioned>>
      BY <2>7
    <3> QED
      BY <1>0, <2>1, <2>4, <2>7, <3>1 DEF ReadInv
  <2> QED
    BY <2>1, <2>6, <2>8
<1>3. ASSUME NEW c \in Calls, Refuse(c) \/ Abort(c) \/ Invalidate(c) \/ Crash(c) PROVE ReadInv'
  <2>1. \A d \in Calls : Open(d)' => pc'[d] = pc[d] /\ job'[d] = job[d]
    BY <1>0, <1>3 DEF Refuse, Abort, Invalidate, Crash, Release, TypeOK
  <2>2. UNCHANGED versions
    BY <1>3 DEF Refuse, Abort, Undone, Invalidate, Crash, tables
  <2> QED
    BY <1>0, <2>1, <2>2 DEF ReadInv
<1>4. CASE \/ \E p \in Proposals, o \in Operators : CreateProposal(p, o)
           \/ \E r \in Readers : Miss(r) \/ Query(r) \/ Fill(r)
           \/ Expire
           \/ UNCHANGED vars
  <2>1. UNCHANGED <<versions, pc, job>>
    BY <1>4 DEF CreateProposal, Miss, Query, Fill, Expire, vars, tables, calls
  <2> QED
    BY <1>0, <2>1 DEF ReadInv
<1> QED
  BY <1>1, <1>1a, <1>2, <1>3, <1>4 DEF Next, Approve, Reject, Rollback, Bootstrap

-----------------------------------------------------------------------------
\* What a call that writes versions has superseded: all of them, or none, the
\* second only beside a bootstrap's version 1, where no index forbids it.
LEMMA ActivatedOver ==
  ASSUME Inv, NEW c \in Calls, Activate(c)
  PROVE  \/ job[c].supersede <=> versions # <<>>
         \/ ~migrated /\ versions = <<Provisioned>> /\ ~job[c].supersede /\ job[c].kind = "approve"
<1>0. /\ TypeOK /\ JobInv /\ ReadInv /\ pc[c] = "write" /\ job[c] \in Job
      /\ job[c].kind \in {"approve", "rollback", "bootstrap"}
      /\ versions \in Seq(Version) /\ Len(versions) \in Nat /\ DOMAIN versions = 1..Len(versions)
  BY LenProperties DEF Inv, TypeOK, Activate
<1>1. job[c].number = Len(versions) + 1
  BY <1>0, Activated
<1>2. CASE job[c].kind = "bootstrap"
  <2>1. Len(versions) = 0 /\ ~job[c].supersede
    BY <1>0, <1>1, <1>2 DEF JobInv, Open
  <2> QED
    BY <1>0, <2>1
<1>3. CASE job[c].kind = "rollback"
  <2>1. job[c].supersede
    BY <1>0, <1>3 DEF JobInv, Open
  <2> QED
    BY <1>0, <1>3, <2>1 DEF ReadInv, Open, Locking, Beside
<1>4. CASE job[c].kind = "approve"
  <2>1. CASE job[c].supersede <=> versions # <<>>
    BY <2>1
  <2>2. CASE Beside(c)
    <3>1. versions = <<Provisioned>> /\ ~job[c].supersede
      BY <2>2 DEF Beside
    <3>2. DOMAIN versions = {1} /\ versions[1].status = "ACTIVE"
      BY <3>1 DEF Provisioned
    <3>3. Superseded(job[c])[1].status = "ACTIVE" /\ 1 \in DOMAIN Superseded(job[c])
      BY <3>1, <3>2 DEF Superseded
    <3>4. ~migrated
      BY <3>3 DEF Activate, Accepts
    <3> QED
      BY <1>4, <3>1, <3>4
  <2> QED
    BY <1>0, <1>4, <2>1, <2>2 DEF ReadInv, Open, Locking
<1> QED
  BY <1>0, <1>2, <1>3, <1>4

\* The newest version alone is ACTIVE, but for the stated exception.
LEMMA ActiveNext == Inv /\ [Next]_vars => ActiveIsLatest'
<1> SUFFICES ASSUME Inv, [Next]_vars PROVE ActiveIsLatest'
  OBVIOUS
<1>0. /\ TypeOK /\ JobInv /\ ReadInv /\ ActiveIsLatest
      /\ versions \in Seq(Version)
      /\ Len(versions) \in Nat /\ DOMAIN versions = 1..Len(versions)
  BY LenProperties DEF Inv, TypeOK
<1>1. ASSUME NEW c \in Calls, Activate(c) PROVE ActiveIsLatest'
  <2>1. pc[c] = "write" /\ job[c] \in Job /\ job[c].kind \in {"approve", "rollback", "bootstrap"}
    BY <1>0, <1>1 DEF Activate, TypeOK
  <2>2. /\ versions' \in Seq(Version) /\ Len(versions') = Len(versions) + 1
        /\ DOMAIN versions' = 1..(Len(versions) + 1)
        /\ versions'[Len(versions) + 1] = NewVersion(job[c])
    BY <1>0, <1>1, Activated
  <2>3. NewVersion(job[c]).status = "ACTIVE"
    BY <1>0, <2>1, NewVersionType
  <2>4. versions' # <<>>
    BY <1>0, <2>2
  <2>5. CASE job[c].supersede <=> versions # <<>>
    <3>1. \A n \in 1..Len(versions) : versions'[n].status = "SUPERSEDED"
      <4> TAKE n \in 1..Len(versions)
      <4>1. job[c].supersede
        BY <1>0, <2>5
      <4>2. /\ versions'[n] = [versions[n] EXCEPT !.status = "SUPERSEDED"]
            /\ versions[n] \in Version
        BY <1>0, <1>1, <4>1, Activated
      <4> QED
        BY <4>2 DEF Version
    <3>2. Active' = {Len(versions) + 1}
      BY <1>0, <2>2, <2>3, <3>1 DEF Active
    <3> QED
      BY <2>2, <2>4, <3>2 DEF ActiveIsLatest
  <2>6. CASE ~migrated /\ versions = <<Provisioned>> /\ ~job[c].supersede
    <3>1. Len(versions) = 1 /\ versions[1] = Provisioned
      BY <2>6
    <3>2. versions'[1] = Provisioned
      <4>1. \A n \in 1..Len(versions) : ~job[c].supersede => versions'[n] = versions[n]
        BY <1>0, <1>1, Activated
      <4> QED
        BY <2>6, <3>1, <4>1
    <3>3. Active' = {1, 2}
      BY <2>2, <2>3, <3>1, <3>2 DEF Active, Provisioned
    <3>4. migrated' = migrated
      BY <1>1 DEF Activate
    <3> QED
      BY <2>2, <2>6, <3>1, <3>2, <3>3, <3>4 DEF ActiveIsLatest
  <2> QED
    BY <1>1, <2>5, <2>6, ActivatedOver
<1>2. CASE \/ \E p \in Proposals, o \in Operators : CreateProposal(p, o)
           \/ \E c \in Calls : Refuse(c)
           \/ UNCHANGED <<proposals, versions>>
  <2>1. UNCHANGED versions
    BY <1>2 DEF CreateProposal, Refuse
  <2> QED
    BY <1>0, <2>1, SchemaFixed DEF ActiveIsLatest, Active
<1> QED
  BY <1>1, <1>2, TableSteps

\* What an activation leaves of the older rows.
LEMMA OlderRows ==
  ASSUME TypeOK, JobInv, NEW c \in Calls, Activate(c), NEW n \in 1..Len(versions)
  PROVE  /\ versions'[n].settings = versions[n].settings
         /\ versions'[n].source = versions[n].source
         /\ versions'[n].proposedBy = versions[n].proposedBy
         /\ versions'[n].approvedBy = versions[n].approvedBy
         /\ versions[n] \in Version
<1>1. /\ versions[n] \in Version
      /\ job[c].supersede => versions'[n] = [versions[n] EXCEPT !.status = "SUPERSEDED"]
      /\ ~job[c].supersede => versions'[n] = versions[n]
  BY Activated
<1> QED
  BY <1>1 DEF Version

LEMMA KnownNext == Inv /\ [Next]_vars => (KnownInv /\ TwoPersons /\ ApprovedIsEnacted)'
<1> SUFFICES ASSUME Inv, [Next]_vars PROVE (KnownInv /\ TwoPersons /\ ApprovedIsEnacted)'
  OBVIOUS
<1> USE DoctrineAssumption
<1>0. /\ TypeOK /\ JobInv /\ KnownInv /\ TwoPersons /\ ApprovedIsEnacted
      /\ versions \in Seq(Version)
      /\ Len(versions) \in Nat /\ DOMAIN versions = 1..Len(versions)
  BY LenProperties DEF Inv, TypeOK
<1>a. \A n \in 1..Len(versions) : versions[n] \in Version
  BY <1>0, ElementOfSeq
<1>1. ASSUME NEW c \in Calls, Activate(c) PROVE (KnownInv /\ TwoPersons /\ ApprovedIsEnacted)'
  <2> DEFINE L == Len(versions) + 1
             new == NewVersion(job[c])
  <2>1. pc[c] = "write" /\ job[c] \in Job /\ job[c].kind \in {"approve", "rollback", "bootstrap"}
    BY <1>0, <1>1 DEF Activate, TypeOK
  <2>2. DOMAIN versions' = 1..L /\ versions'[L] = new
    BY <1>0, <1>1, Activated
  <2>3. \A n \in 1..Len(versions) :
          /\ versions'[n].settings = versions[n].settings
          /\ versions'[n].source = versions[n].source
          /\ versions'[n].proposedBy = versions[n].proposedBy
          /\ versions'[n].approvedBy = versions[n].approvedBy
    BY <1>0, <1>1, OlderRows
  <2>4. \A p \in Proposals : /\ proposals'[p].proposer = proposals[p].proposer
                             /\ proposals[p].status # "absent" => proposals'[p].status # "absent"
    BY <1>0, <1>1 DEF Activate, Approved, TypeOK, Proposal
  <2>5. \A p \in Proposals : proposals'[p].status = "APPROVED" =>
          proposals[p].status = "APPROVED" \/ (job[c].kind = "approve" /\ p = job[c].on)
    BY <1>0, <1>1 DEF Activate, Approved, TypeOK, Proposal
  <2>6. CASE job[c].kind = "approve"
    <3>1. /\ job[c].on \in Proposals /\ proposals[job[c].on].status # "absent"
          /\ proposals[job[c].on].proposer # job[c].by /\ job[c].by \in Operators
      BY <1>0, <2>1, <2>6 DEF JobInv, Open, Locking
    <3>2. /\ new.settings = job[c].on /\ new.source = job[c].on /\ new.approvedBy = job[c].by
          /\ new.proposedBy = proposals[job[c].on].proposer
      BY <2>6 DEF NewVersion
    <3> QED
      BY <1>0, <1>a, <2>2, <2>3, <2>4, <2>5, <3>1, <3>2, SMTT(20)
      DEF KnownInv, TwoPersons, ApprovedIsEnacted, Version
  <2>7. CASE job[c].kind = "rollback"
    <3>1. job[c].on \in 1..Len(versions)
      BY <1>0, <2>1, <2>7 DEF JobInv, Open
    <3>2. new.settings = versions[job[c].on].settings
      BY <2>7 DEF NewVersion
    <3>3. (KnownInv /\ ApprovedIsEnacted)'
      BY <1>0, <1>a, <2>2, <2>3, <2>4, <2>5, <2>7, <3>1, <3>2
      DEF KnownInv, ApprovedIsEnacted, Version
    <3>4. ASSUME NEW n \in 1..Len(versions), versions[n].settings # Default
          PROVE  \E m \in 1..n : /\ versions'[m].settings = versions[n].settings
                                 /\ versions'[m].proposedBy = proposals'[versions[n].settings].proposer
                                 /\ versions'[m].approvedBy \in Operators \ {versions'[m].proposedBy}
      <4>1. PICK m \in 1..n : /\ versions[m].settings = versions[n].settings
                              /\ versions[m].proposedBy = proposals[versions[n].settings].proposer
                              /\ versions[m].approvedBy \in Operators \ {versions[m].proposedBy}
        BY <1>0, <3>4 DEF TwoPersons
      <4>2. m \in 1..Len(versions) /\ versions[n].settings \in Proposals
        BY <1>0, <1>a, <3>4 DEF Version
      <4> QED
        BY <2>3, <2>4, <4>1, <4>2
    <3>5. TwoPersons'
      <4> SUFFICES ASSUME NEW n \in 1..L, versions'[n].settings # Default
                   PROVE  \E m \in 1..n :
                            /\ versions'[m].settings = versions'[n].settings
                            /\ versions'[m].proposedBy = proposals'[versions'[n].settings].proposer
                            /\ versions'[m].approvedBy \in Operators \ {versions'[m].proposedBy}
        BY <2>2 DEF TwoPersons
      <4>1. CASE n \in 1..Len(versions)
        BY <2>3, <3>4, <4>1
      <4>2. CASE n = L
        <5>1. versions'[n].settings = versions[job[c].on].settings /\ job[c].on \in 1..n
          BY <1>0, <2>2, <3>1, <3>2, <4>2
        <5>2. PICK m \in 1..job[c].on :
                /\ versions'[m].settings = versions'[n].settings
                /\ versions'[m].proposedBy = proposals'[versions'[n].settings].proposer
                /\ versions'[m].approvedBy \in Operators \ {versions'[m].proposedBy}
          BY <3>1, <3>4, <5>1
        <5>3. m \in 1..n
          BY <1>0, <3>1, <4>2
        <5> QED
          BY <5>2, <5>3
      <4> QED
        BY <1>0, <4>1, <4>2
    <3> QED
      BY <3>3, <3>5
  <2>8. CASE job[c].kind = "bootstrap"
    <3>1. new.settings = Default
      BY <2>8 DEF NewVersion
    <3> QED
      BY <1>0, <1>a, <2>2, <2>3, <2>4, <2>5, <2>8, <3>1, SMTT(20)
      DEF KnownInv, TwoPersons, ApprovedIsEnacted, Version
  <2> QED
    BY <2>1, <2>6, <2>7, <2>8
<1>2. ASSUME NEW p \in Proposals, NEW o \in Operators, CreateProposal(p, o)
      PROVE  (KnownInv /\ TwoPersons /\ ApprovedIsEnacted)'
  <2>1. /\ UNCHANGED versions
        /\ proposals[p].status = "absent"
        /\ proposals'[p].status = "PENDING_APPROVAL"
        /\ \A q \in Proposals : q # p => proposals'[q] = proposals[q]
    BY <1>0, <1>2 DEF CreateProposal, TypeOK
  <2>2. \A n \in 1..Len(versions) : versions[n].settings # Default =>
          versions[n].settings \in Proposals \ {p}
    BY <1>0, <1>a, <2>1 DEF KnownInv, Version
  <2> QED
    BY <1>0, <2>1, <2>2 DEF KnownInv, TwoPersons, ApprovedIsEnacted
<1>3. ASSUME NEW c \in Calls, Refuse(c) PROVE (KnownInv /\ TwoPersons /\ ApprovedIsEnacted)'
  <2>1. UNCHANGED versions
    BY <1>3 DEF Refuse
  <2>2. \A p \in Proposals :
          /\ proposals'[p].proposer = proposals[p].proposer
          /\ proposals[p].status # "absent" => proposals'[p].status # "absent"
          /\ proposals'[p].status = "APPROVED" => proposals[p].status = "APPROVED"
    BY <1>0, <1>3 DEF Refuse, TypeOK, Proposal
  <2> QED
    BY <1>0, <1>a, <2>1, <2>2 DEF KnownInv, TwoPersons, ApprovedIsEnacted, Version
<1>4. CASE UNCHANGED <<proposals, versions>>
  BY <1>0, <1>4 DEF KnownInv, TwoPersons, ApprovedIsEnacted
<1> QED
  BY <1>1, <1>2, <1>3, <1>4, TableSteps

\* The cached copy: every commit owes an invalidation, and sets `disturbed` if
\* a reader could still fill what it supersedes.
LEMMA CacheNext == Inv /\ TypeOK' /\ ActiveIsLatest' /\ [Next]_vars => (FillInv /\ CacheCoherent)'
<1> SUFFICES ASSUME Inv, TypeOK', ActiveIsLatest', [Next]_vars PROVE (FillInv /\ CacheCoherent)'
  OBVIOUS
<1>0. TypeOK /\ FillInv /\ CacheCoherent
  BY DEF Inv
<1> USE DEF FillInv, CacheCoherent
<1>1. ASSUME NEW c \in Calls, Activate(c) PROVE (FillInv /\ CacheCoherent)'
  BY <1>0, <1>1 DEF Activate, Enacts, TypeOK
<1>2. ASSUME NEW c \in Calls, NEW kind, NEW o, NEW on, NEW next,
             Start(c, kind, o, on, next) \/ ReadNumber(c)
      PROVE (FillInv /\ CacheCoherent)'
  BY <1>0, <1>2 DEF Start, ReadNumber, TypeOK, InForce, Active, tables
<1>3. ASSUME NEW c \in Calls, Abort(c) \/ Refuse(c) PROVE (FillInv /\ CacheCoherent)'
  BY <1>0, <1>3 DEF Abort, Undone, Refuse, TypeOK, InForce, Active, tables
<1>4. ASSUME NEW c \in Calls, Invalidate(c) \/ Crash(c) PROVE (FillInv /\ CacheCoherent)'
  BY <1>0, <1>4 DEF Invalidate, Crash, TypeOK, InForce, Active, tables
<1>5. ASSUME NEW r \in Readers, Miss(r) \/ Query(r) \/ Fill(r) PROVE (FillInv /\ CacheCoherent)'
  <2>1. UNCHANGED <<versions, pc, disturbed>> /\ InForce' = InForce
    BY <1>5 DEF Miss, Query, Fill, InForce, Active, tables, calls
  <2>2. CASE Miss(r)
    BY <1>0, <2>1, <2>2 DEF Miss, TypeOK
  <2>3. CASE Query(r)
    <3>1. \A s \in Readers : reader'[s].pc = "fill" =>
            reader'[s] = reader[s] \/ reader'[s].version \in InForce
      <4>1. CASE reader' = [reader EXCEPT ![r].pc = "idle"]
        BY <1>0, <4>1 DEF TypeOK
      <4>2. CASE \E n \in InForce : reader' = [reader EXCEPT ![r] = [pc |-> "fill", version |-> n]]
        BY <1>0, <4>2 DEF TypeOK
      <4> QED
        BY <2>3, <4>1, <4>2 DEF Query
    <3>2. cache' = cache
      BY <2>3 DEF Query
    <3> QED
      BY <1>0, <2>1, <3>1, <3>2
  <2>4. CASE Fill(r)
    <3>1. cache' \in {cache, reader[r].version} /\ reader[r].pc = "fill"
      BY <2>4 DEF Fill
    <3>2. \A s \in Readers : reader'[s].pc = "fill" => reader'[s] = reader[s]
      BY <1>0, <2>4 DEF Fill, TypeOK
    <3> QED
      BY <1>0, <2>1, <3>1, <3>2
  <2> QED
    BY <1>5, <2>2, <2>3, <2>4
<1>6. CASE \/ \E p \in Proposals, o \in Operators : CreateProposal(p, o)
           \/ Expire
           \/ UNCHANGED vars
  BY <1>0, <1>6 DEF CreateProposal, Expire, InForce, Active, vars, tables, calls
<1> QED
  BY <1>1, <1>2, <1>3, <1>4, <1>5, <1>6 DEF Next, Approve, Reject, Rollback, Bootstrap

-----------------------------------------------------------------------------
LEMMA InvImplies == Inv => LockedReadsHold
<1> SUFFICES ASSUME Inv PROVE LockedReadsHold
  OBVIOUS
<1> SUFFICES ASSUME NEW c \in Calls, pc[c] = "write", job[c].kind \in {"approve", "rollback"}
             PROVE  \/ job[c].number = Len(versions) + 1 /\ (job[c].supersede <=> versions # <<>>)
                    \/ versions = <<Provisioned>> /\ ~job[c].supersede /\ job[c].number \in {1, 2}
  BY DEF LockedReadsHold
<1>1. /\ (job[c].supersede <=> versions # <<>>) \/ Beside(c)
      /\ job[c].number = Len(versions) + 1 \/ (job[c].number = 1 /\ Beside(c))
  BY DEF Inv, ReadInv, Locking, Open
<1>2. CASE Beside(c)
  <2>1. Len(versions) = 1 /\ versions = <<Provisioned>> /\ ~job[c].supersede
    BY <1>2 DEF Beside
  <2> QED
    BY <1>1, <2>1
<1> QED
  BY <1>1, <1>2

LEMMA InvInductive == Spec => []Inv
<1>1. Init => Inv
  BY InitInv
<1>2. Inv /\ [Next]_vars => Inv'
  <2> SUFFICES ASSUME Inv, [Next]_vars PROVE Inv'
    OBVIOUS
  <2>1. TypeOK'
    BY TypeNext DEF Inv
  <2>2. JobInv' /\ ReadInv' /\ ActiveIsLatest' /\ (KnownInv /\ TwoPersons /\ ApprovedIsEnacted)'
    BY <2>1, JobNext, ReadNext, ActiveNext, KnownNext
  <2>3. (FillInv /\ CacheCoherent)'
    BY <2>1, <2>2, CacheNext
  <2> QED
    BY <2>1, <2>2, <2>3 DEF Inv
<1> QED
  BY <1>1, <1>2, PTL DEF Spec

\* Whatever approvers, readers and failures do: the newest version alone is
\* ACTIVE, but for a bootstrap's version 1 under a schema without the partial
\* index; what comes into force is the default or two persons agreed to it;
\* every APPROVED proposal has its version; calls that hold the lock read what
\* they overwrite, but for that version 1; and the Redis copy is stale only for
\* a stated reason.
THEOREM DoctrineSafe ==
  Spec => [](TypeOK /\ ActiveIsLatest /\ LockedReadsHold /\ TwoPersons /\ ApprovedIsEnacted
             /\ CacheCoherent)
<1>1. Inv => /\ TypeOK /\ ActiveIsLatest /\ LockedReadsHold /\ TwoPersons
             /\ ApprovedIsEnacted /\ CacheCoherent
  BY InvImplies DEF Inv
<1> QED
  BY <1>1, InvInductive, PTL

-----------------------------------------------------------------------------
history == [n \in DOMAIN versions |-> versions[n].settings]

LEMMA AppendSettings ==
  ASSUME NEW V, NEW L \in Nat, NEW h \in [1..L -> V], NEW g \in [1..(L + 1) -> V], NEW s \in V,
         \A n \in 1..L : g[n] = h[n], g[L + 1] = s
  PROVE  g = Append(h, s)
<1>1. h \in Seq(V) /\ Len(h) = L
  BY TableType
<1>2. /\ Append(h, s) \in Seq(V) /\ Len(Append(h, s)) = L + 1
      /\ \A i \in 1..L : Append(h, s)[i] = h[i]
      /\ Append(h, s)[L + 1] = s
  BY <1>1, AppendProperties
<1>3. Append(h, s) \in [1..(L + 1) -> V]
  BY <1>2, LenProperties, ElementOfSeq
<1>4. \A i \in 1..(L + 1) : g[i] = Append(h, s)[i]
  BY <1>2
<1> QED
  BY <1>3, <1>4

LEMMA AuthorityInit == Init => Authority!Init
<1> SUFFICES ASSUME Init PROVE Authority!Init
  OBVIOUS
<1>1. CASE versions = <<>>
  <2>1. history = <<>> /\ Active = {} /\ DOMAIN history = {}
    BY <1>1 DEF history, Active
  <2> QED
    BY <2>1 DEF Init, Authority!Init, history
<1>2. CASE versions = <<Provisioned>>
  <2>1. DOMAIN versions = {1} /\ versions[1].settings = Default /\ versions[1].status = "ACTIVE"
    BY <1>2 DEF Provisioned
  <2>2. history = <<Default>> /\ Active = {1} /\ DOMAIN history = {1}
    BY <2>1 DEF history, Active
  <2> QED
    BY <2>2 DEF Init, Authority!Init, history
<1> QED
  BY <1>1, <1>2 DEF Init

LEMMA AuthorityNext == Inv /\ Inv' /\ [Next]_vars => [Authority!Next]_(Authority!vars)
<1> SUFFICES ASSUME Inv, Inv', [Next]_vars PROVE [Authority!Next]_(Authority!vars)
  OBVIOUS
<1> USE DoctrineAssumption
<1>0. /\ TypeOK /\ JobInv /\ ActiveIsLatest'
      /\ versions \in Seq(Version)
      /\ Len(versions) \in Nat /\ DOMAIN versions = 1..Len(versions)
  BY LenProperties DEF Inv, TypeOK
<1>a. \A n \in 1..Len(versions) : versions[n] \in Version
  BY <1>0, ElementOfSeq
<1>3. migrated' = migrated
  BY SchemaFixed
<1>1. ASSUME NEW c \in Calls, Activate(c) PROVE Authority!Next
  <2> DEFINE L == Len(versions)
             V == Proposals \cup {Default}
             new == NewVersion(job[c])
  <2>1. pc[c] = "write" /\ job[c] \in Job /\ job[c].kind \in {"approve", "rollback", "bootstrap"}
    BY <1>0, <1>1 DEF Activate, TypeOK
  <2>2. /\ DOMAIN versions' = 1..(L + 1) /\ versions'[L + 1] = new /\ Len(versions') = L + 1
        /\ job[c].number = L + 1
    BY <1>0, <1>1, Activated
  <2>3. \A n \in 1..L : versions'[n].settings = versions[n].settings
    BY <1>0, <1>1, OlderRows
  <2>4. new.settings \in V
    BY <1>0, <2>1, NewVersionType DEF Version
  <2>5. history \in [1..L -> V] /\ \A n \in 1..L : history[n] = versions[n].settings
    BY <1>0, <1>a DEF history, Version
  <2>6. /\ history' \in [1..(L + 1) -> V]
        /\ \A n \in 1..L : history'[n] = history[n]
        /\ history'[L + 1] = new.settings
    BY <1>0, <2>2, <2>3, <2>4, <2>5 DEF history
  <2>7. history' = Append(history, new.settings)
    BY <1>0, <2>4, <2>5, <2>6, AppendSettings
  <2>8. Len(history) = L
    BY <1>0, <2>5, TableType
  <2>9. CASE job[c].supersede <=> versions # <<>>
    <3>1. \A n \in 1..L : versions'[n].status = "SUPERSEDED"
      <4> TAKE n \in 1..L
      <4>1. versions'[n] = [versions[n] EXCEPT !.status = "SUPERSEDED"]
        BY <1>0, <1>1, <2>9, Activated
      <4> QED
        BY <1>a, <4>1 DEF Version
    <3>2. new.status = "ACTIVE"
      BY <1>0, <2>1, NewVersionType
    <3>3. Active' = {Len(history) + 1}
      BY <1>0, <2>2, <2>8, <3>1, <3>2 DEF Active
    <3>4. CASE job[c].kind = "approve"
      <4>1. new.settings \in Proposals
        BY <1>0, <2>1, <3>4 DEF JobInv, Open, NewVersion
      <4> QED
        BY <1>3, <2>7, <3>3, <4>1 DEF Authority!Next, Authority!Enact, history
    <3>5. CASE job[c].kind = "rollback"
      <4>1. job[c].on \in 1..L /\ new.settings = history[job[c].on]
        BY <1>0, <2>1, <2>5, <3>5 DEF JobInv, Open, NewVersion
      <4>2. DOMAIN history = 1..L
        BY <2>5
      <4> QED
        BY <1>3, <2>7, <3>3, <4>1, <4>2 DEF Authority!Next, Authority!Enact, history
    <3>6. CASE job[c].kind = "bootstrap"
      <4>1. L = 0 /\ new.settings = Default
        BY <1>0, <2>1, <2>2, <3>6 DEF JobInv, Open, NewVersion
      <4>2. history = <<>>
        BY <2>5, <4>1
      <4> QED
        BY <1>3, <2>7, <3>3, <4>1, <4>2 DEF Authority!Next, Authority!Enact, history
    <3> QED
      BY <2>1, <3>4, <3>5, <3>6
  <2>10. CASE ~migrated /\ versions = <<Provisioned>> /\ ~job[c].supersede /\ job[c].kind = "approve"
    <3>1. L = 1 /\ DOMAIN versions = {1} /\ versions[1] = Provisioned
      BY <2>10
    <3>2. history = <<Default>>
      BY <3>1 DEF history, Provisioned
    <3>3. versions'[1].status = "ACTIVE" /\ versions'[2].status = "ACTIVE"
      <4>1. versions'[1] = versions[1]
        BY <1>0, <1>1, <2>10, <3>1, Activated
      <4>2. versions'[2].status = "ACTIVE"
        BY <1>0, <2>1, <2>2, <3>1, NewVersionType
      <4> QED
        BY <3>1, <4>1, <4>2 DEF Provisioned
    <3>4. Active' = {1, 2}
      BY <2>2, <3>1, <3>3 DEF Active
    <3>5. new.settings \in Proposals
      BY <1>0, <2>1, <2>10 DEF JobInv, Open, NewVersion
    <3> QED
      BY <1>3, <2>7, <2>10, <3>2, <3>4, <3>5 DEF Authority!Next, Authority!EnactBeside, history
  <2> QED
    BY <1>1, <2>9, <2>10, ActivatedOver
<1>2. CASE \/ \E p \in Proposals, o \in Operators : CreateProposal(p, o)
           \/ \E c \in Calls : Refuse(c)
           \/ UNCHANGED <<proposals, versions>>
  BY <1>2, <1>3 DEF CreateProposal, Refuse, Active, Authority!vars
<1> QED
  BY <1>1, <1>2, TableSteps

\* Whatever the calls do, the version table is a history that only grows, of
\* which the last entry alone is ACTIVE, and into which nothing comes but
\* proposed settings, restored ones and, first, the default.  Without the
\* partial index one proposal may come in beside the default it follows.
THEOREM ControlImplementsAuthority == Spec => ImplementsAuthority
<1> QED
  BY InvInductive, AuthorityInit, AuthorityNext, PTL DEF Spec, ImplementsAuthority, Authority!Spec

\* An approved proposal has its version: the transaction leaves no half of it.
COROLLARY ApprovalsEnacted == Spec => []ApprovedIsEnacted
BY DoctrineSafe, PTL

\* Once every commit has invalidated it the Redis copy is the version in force,
\* unless an invalidation was lost or a commit overtook a fill.
COROLLARY CacheStaysCoherent == Spec => []CacheCoherent
BY DoctrineSafe, PTL
=============================================================================
