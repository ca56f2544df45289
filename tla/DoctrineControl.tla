--------------------------- MODULE DoctrineControl ---------------------------
(***************************************************************************)
(* The doctrine of one organization (lib/doctrine/service.ts): proposals   *)
(* and their approval, rejection and rollback, the bootstrap of a first    *)
(* version, and the Redis copy of the version in force that decisions read *)
(* through.                                                                *)
(*                                                                         *)
(* Approvals and rollbacks hold a transaction-scoped advisory lock from    *)
(* their first statement; rejections and the bootstrap do not take it, so  *)
(* they run between the steps of a transaction: its read of the ACTIVE     *)
(* row, its read of the next number, its commit.  The settings of a        *)
(* proposal are its number, the default's are 0.  A refused request (404,  *)
(* 409, 403) changes nothing and is a disabled action; so is a cache hit.  *)
(* Audit events are written in the same transactions and left out.  The    *)
(* schema is the migrations' or that of `prisma db push` (TESTING.md),     *)
(* which lacks the CHECKs and the partial index: only there do rollbacks   *)
(* reach the table.                                                        *)
(***************************************************************************)
EXTENDS Integers, Sequences

CONSTANTS
  Operators,     \* authenticated operators of the organization
  Calls,         \* approve, reject, rollback or bootstrap calls at one time
  Readers,       \* calls of getActiveDoctrine at one time
  MaxProposals,  \* bound: proposals created
  MaxHazards     \* bound: rollbacks, failures and crashes together

Nobody    == "nobody"
Free      == "free"
Proposals == 1..MaxProposals
Default   == 0
None      == 0
Person    == Operators \cup {Nobody}
Proposal  == [status : {"absent", "PENDING_APPROVAL", "APPROVED", "REJECTED"},
              proposer : Person, approver : Person]
Version   == [status : {"ACTIVE", "SUPERSEDED"}, settings : Proposals \cup {Default},
              source : Proposals \cup {None}, proposedBy : Person, approvedBy : Person]
Job       == [kind : {"none", "approve", "reject", "rollback", "bootstrap"}, by : Person,
              on : Nat, number : Nat, supersede : BOOLEAN]
NoJob     == [kind |-> "none", by |-> Nobody, on |-> 0, number |-> 0, supersede |-> FALSE]

ASSUME DoctrineAssumption ==
  /\ MaxProposals \in Nat
  /\ MaxHazards \in Nat
  /\ Free \notin Calls /\ Nobody \notin Operators

VARIABLES
  proposals,  \* the DoctrineProposal table
  versions,   \* the DoctrineVersion table, by version number
  migrated,   \* the schema has the migrations' CHECKs and partial index
  lock,       \* the call that holds pg_advisory_xact_lock, or Free
  pc,         \* call -> its next step: "number", "write", "invalidate", or "idle"
  job,        \* call -> what it was asked and what it read
  cache,      \* version number of the Redis copy, 0 if there is none
  reader,     \* reader -> [pc, version]: "idle", "query" (missed) or "fill"
  hazards,    \* how many of MaxHazards have happened
  disturbed   \* history: an invalidation was lost, or a commit overtook a fill

tables == <<proposals, versions, migrated>>
calls  == <<lock, pc, job>>
vars   == <<tables, calls, cache, reader, hazards, disturbed>>

Hazard == hazards < MaxHazards /\ hazards' = hazards + 1

Active == {n \in DOMAIN versions : versions[n].status = "ACTIVE"}

\* What getActiveDoctrine finds: the newest of the ACTIVE rows.
InForce == {n \in Active : \A m \in Active : m <= n}

-----------------------------------------------------------------------------
\* An organization is provisioned with version 1, or predates doctrines.
Provisioned == [status |-> "ACTIVE", settings |-> Default, source |-> None,
                proposedBy |-> Nobody, approvedBy |-> Nobody]

Init ==
  /\ proposals = [p \in Proposals |->
       [status |-> "absent", proposer |-> Nobody, approver |-> Nobody]]
  /\ versions \in {<<>>, <<Provisioned>>}
  /\ migrated \in BOOLEAN
  /\ lock = Free
  /\ pc = [c \in Calls |-> "idle"]
  /\ job = [c \in Calls |-> NoJob]
  /\ cache = 0
  /\ reader = [r \in Readers |-> [pc |-> "idle", version |-> 0]]
  /\ hazards = 0
  /\ disturbed = FALSE

CreateProposal(p, o) ==
  /\ proposals[p].status = "absent"
  /\ \A q \in Proposals : q < p => proposals[q].status # "absent"
  /\ proposals' = [proposals EXCEPT ![p] =
       [status |-> "PENDING_APPROVAL", proposer |-> o, approver |-> Nobody]]
  /\ UNCHANGED <<versions, migrated, calls, cache, reader, hazards, disturbed>>

-----------------------------------------------------------------------------
\* What the calls read, up to the ACTIVE row.  The bootstrap writes number 1.
Start(c, kind, o, on, next) ==
  /\ pc[c] = "idle"
  /\ pc' = [pc EXCEPT ![c] = next]
  /\ job' = [job EXCEPT ![c] = [kind |-> kind, by |-> o, on |-> on,
       number |-> 1, supersede |-> Active # {}]]
  /\ UNCHANGED <<tables, cache, reader, disturbed>>

Acquire(c) == lock = Free /\ lock' = c

\* Mutant of Approve: the proposer may approve.
ApproveOwn(c, o, p) ==
  /\ proposals[p].status = "PENDING_APPROVAL"
  /\ Acquire(c)
  /\ Start(c, "approve", o, p, "number")
  /\ UNCHANGED hazards

Approve(c, o, p) ==
  /\ proposals[p].status = "PENDING_APPROVAL"
  /\ proposals[p].proposer # o
  /\ Acquire(c)
  /\ Start(c, "approve", o, p, "number")
  /\ UNCHANGED hazards

Reject(c, o, p) ==
  /\ proposals[p].status = "PENDING_APPROVAL"
  /\ Start(c, "reject", o, p, "write")
  /\ UNCHANGED <<lock, hazards>>

\* Any version of the organization can be restored.
Rollback(c, o, n) ==
  /\ Hazard
  /\ n \in DOMAIN versions
  /\ Acquire(c)
  /\ Start(c, "rollback", o, n, "number")

\* nextDoctrineVersionNumber: a statement of its own, after the updateMany.
ReadNumber(c) ==
  /\ pc[c] = "number"
  /\ pc' = [pc EXCEPT ![c] = "write"]
  /\ job' = [job EXCEPT ![c].number = Len(versions) + 1]
  /\ UNCHANGED <<tables, lock, cache, reader, hazards, disturbed>>

\* ensureActiveDoctrineForOrg: on every request that falls back to this
\* organization; it returns at once when a version is in force.
Bootstrap(c) ==
  /\ Active = {}
  /\ Start(c, "bootstrap", Nobody, 0, "write")
  /\ UNCHANGED <<lock, hazards>>

-----------------------------------------------------------------------------
\* What the calls write.
\* The end of a call's transaction.
Release(c) ==
  /\ lock' = IF lock = c THEN Free ELSE lock
  /\ job' = [job EXCEPT ![c] = NoJob]

\* The row a call inserts.
NewVersion(j) ==
  [status     |-> "ACTIVE",
   settings   |-> CASE j.kind = "approve"  -> j.on
                    [] j.kind = "rollback" -> versions[j.on].settings
                    [] OTHER               -> Default,
   source     |-> IF j.kind = "approve" THEN j.on ELSE None,
   proposedBy |-> IF j.kind = "approve" THEN proposals[j.on].proposer ELSE j.by,
   approvedBy |-> j.by]

\* Mutant of Superseded: the version in force is left ACTIVE.
SupersededNone(j) == versions

\* updateMany of the ACTIVE rows, made only if the call saw one.
Superseded(j) ==
  [n \in DOMAIN versions |->
     IF j.supersede THEN [versions[n] EXCEPT !.status = "SUPERSEDED"] ELSE versions[n]]

\* The unique version number, the unique source proposal, the one-ACTIVE
\* index and the CHECK that the approver of a version is not its proposer.
Accepts(old, j) ==
  /\ j.number = Len(old) + 1
  /\ j.kind = "approve" => \A n \in DOMAIN old : old[n].source # j.on
  /\ migrated =>
       /\ \A n \in DOMAIN old : old[n].status # "ACTIVE"
       /\ NewVersion(j).approvedBy = Nobody \/ NewVersion(j).approvedBy # NewVersion(j).proposedBy

\* Mutant of Enacts: nothing tells the cache.
EnactsSilently(c) ==
  /\ pc' = [pc EXCEPT ![c] = "idle"]
  /\ disturbed' = (disturbed \/ \E r \in Readers : reader[r].pc = "fill")

\* A commit of a version, seen by a reader between its query and its fill.
Enacts(c) ==
  /\ pc' = [pc EXCEPT ![c] = "invalidate"]
  /\ disturbed' = (disturbed \/ \E r \in Readers : reader[r].pc = "fill")

Approved(p, j) == [proposals EXCEPT ![p].status = "APPROVED", ![p].approver = j.by]

\* The version and, for an approval, the proposal, in one transaction.
Activate(c) ==
  /\ pc[c] = "write"
  /\ job[c].kind \in {"approve", "rollback", "bootstrap"}
  /\ Accepts(Superseded(job[c]), job[c])
  /\ versions' = Append(Superseded(job[c]), NewVersion(job[c]))
  /\ proposals' = IF job[c].kind = "approve" THEN Approved(job[c].on, job[c]) ELSE proposals
  /\ Enacts(c)
  /\ Release(c)
  /\ UNCHANGED <<migrated, cache, reader, hazards>>

\* Mutant of Undone: the proposal's update survives the failed transaction.
UndoneHalf(c) ==
  /\ proposals' = IF job[c].kind = "approve" THEN Approved(job[c].on, job[c]) ELSE proposals
  /\ UNCHANGED <<versions, migrated, cache, reader, disturbed>>

\* An aborted transaction leaves no trace.
Undone(c) == UNCHANGED <<tables, cache, reader, disturbed>>

\* A statement fails: a constraint refuses the row, or the database is away.
\* The bootstrap then looks again, and goes on if a version is in force.
Abort(c) ==
  /\ pc[c] \in {"number", "write"}
  /\ \/ /\ pc[c] = "write" /\ job[c].kind # "reject"
        /\ ~Accepts(Superseded(job[c]), job[c])
        /\ UNCHANGED hazards
     \/ Hazard
  /\ pc' = [pc EXCEPT ![c] =
       IF job[c].kind = "bootstrap" /\ Active # {} THEN "invalidate" ELSE "idle"]
  /\ Release(c)
  /\ Undone(c)

\* The update names the proposal's id only, not the status it read.
Refuse(c) ==
  /\ pc[c] = "write"
  /\ job[c].kind = "reject"
  /\ proposals' = [proposals EXCEPT ![job[c].on].status = "REJECTED",
                                    ![job[c].on].approver = job[c].by]
  /\ pc' = [pc EXCEPT ![c] = "invalidate"]
  /\ Release(c)
  /\ UNCHANGED <<versions, migrated, cache, reader, hazards, disturbed>>

\* invalidateDoctrineCache, after the commit; its failure is swallowed.
Invalidate(c) ==
  /\ pc[c] = "invalidate"
  /\ pc' = [pc EXCEPT ![c] = "idle"]
  /\ \/ cache' = 0 /\ UNCHANGED <<hazards, disturbed>>
     \/ Hazard /\ disturbed' = TRUE /\ UNCHANGED cache
  /\ UNCHANGED <<tables, lock, job, reader>>

\* The process of a call dies; its transaction, if open, is rolled back.
Crash(c) ==
  /\ Hazard
  /\ pc[c] # "idle"
  /\ pc' = [pc EXCEPT ![c] = "idle"]
  /\ disturbed' = (disturbed \/ pc[c] = "invalidate")
  /\ Release(c)
  /\ UNCHANGED <<tables, cache, reader>>

-----------------------------------------------------------------------------
\* getActiveDoctrine: a miss, or a Redis error, goes to the database.
Miss(r) ==
  /\ reader[r].pc = "idle"
  /\ \/ cache = 0 /\ UNCHANGED hazards
     \/ cache # 0 /\ Hazard
  /\ reader' = [reader EXCEPT ![r].pc = "query"]
  /\ UNCHANGED <<tables, calls, cache, disturbed>>

\* Without a version in force the request fails with 503.
Query(r) ==
  /\ reader[r].pc = "query"
  /\ \/ Active = {} /\ reader' = [reader EXCEPT ![r].pc = "idle"]
     \/ \E n \in InForce :
          reader' = [reader EXCEPT ![r] = [pc |-> "fill", version |-> n]]
  /\ UNCHANGED <<tables, calls, cache, hazards, disturbed>>

Fill(r) ==
  /\ reader[r].pc = "fill"
  /\ reader' = [reader EXCEPT ![r] = [pc |-> "idle", version |-> 0]]
  /\ \/ cache' = reader[r].version /\ UNCHANGED hazards
     \/ Hazard /\ UNCHANGED cache
  /\ UNCHANGED <<tables, calls, disturbed>>

\* Mutant of Expire: the key is set without EX.
ExpireNever == FALSE /\ UNCHANGED vars

\* EX DOCTRINE_CACHE_TTL_SEC.
Expire ==
  /\ cache # 0
  /\ cache' = 0
  /\ UNCHANGED <<tables, calls, reader, hazards, disturbed>>

-----------------------------------------------------------------------------
Next ==
  \/ \E p \in Proposals, o \in Operators : CreateProposal(p, o)
  \/ \E c \in Calls, o \in Operators, p \in Proposals : Approve(c, o, p) \/ Reject(c, o, p)
  \/ \E c \in Calls, o \in Operators, n \in DOMAIN versions : Rollback(c, o, n)
  \/ \E c \in Calls :
       \/ Bootstrap(c) \/ ReadNumber(c) \/ Activate(c) \/ Abort(c)
       \/ Refuse(c) \/ Invalidate(c) \/ Crash(c)
  \/ \E r \in Readers : Miss(r) \/ Query(r) \/ Fill(r)
  \/ Expire

Spec == Init /\ [][Next]_vars

\* Redis drops a key when its time is up; calls and readers run to their end.
Fairness ==
  /\ WF_vars(Expire)
  /\ \A c \in Calls :
       WF_vars(ReadNumber(c) \/ Activate(c) \/ Abort(c) \/ Refuse(c) \/ Invalidate(c))
  /\ \A r \in Readers : WF_vars(Query(r) \/ Fill(r))

FairSpec == Spec /\ Fairness

-----------------------------------------------------------------------------
\* Every variable has its type.
TypeOK ==
  /\ proposals \in [Proposals -> Proposal]
  /\ versions \in Seq(Version)
  /\ migrated \in BOOLEAN
  /\ lock \in Calls \cup {Free}
  /\ pc \in [Calls -> {"idle", "number", "write", "invalidate"}]
  /\ job \in [Calls -> Job]
  /\ cache \in 0..Len(versions)
  /\ reader \in [Readers -> [pc : {"idle", "query", "fill"}, version : 0..Len(versions)]]
  /\ hazards \in 0..MaxHazards
  /\ disturbed \in BOOLEAN

\* Exactly the newest version is ACTIVE: supersede and insert are one
\* transaction.  Without the partial index there is one exception: a bootstrap
\* that commits between an approval's two reads leaves its version 1 ACTIVE
\* beside the approval's version 2.
ActiveIsLatest ==
  \/ Active = IF versions = <<>> THEN {} ELSE {Len(versions)}
  \/ ~migrated /\ Len(versions) = 2 /\ versions[1] = Provisioned /\ Active = {1, 2}

\* What a call holding the lock read of the versions is still so when it
\* writes, but for a version 1 that a bootstrap put under it, either before
\* it read the number or after: the lock spares two approvers a conflict.
LockedReadsHold ==
  \A c \in Calls : pc[c] = "write" /\ job[c].kind \in {"approve", "rollback"} =>
    \/ job[c].number = Len(versions) + 1 /\ (job[c].supersede <=> versions # <<>>)
    \/ versions = <<Provisioned>> /\ ~job[c].supersede /\ job[c].number \in {1, 2}

\* Two-person rule, through rollbacks too: settings that ever came into force
\* are the default, or were proposed by one operator and decided by another
\* in a version of this organization.
TwoPersons ==
  \A n \in DOMAIN versions :
    \/ versions[n].settings = Default
    \/ \E m \in 1..n :
         /\ versions[m].settings = versions[n].settings
         /\ versions[m].proposedBy = proposals[versions[n].settings].proposer
         /\ versions[m].approvedBy \in Operators \ {versions[m].proposedBy}

\* A proposal marked APPROVED has its version, whatever failed meanwhile.
ApprovedIsEnacted ==
  \A p \in Proposals : proposals[p].status = "APPROVED" =>
    \E n \in DOMAIN versions : versions[n].source = p

\* The Redis copy is the version in force (the newest ACTIVE one) once every commit has invalidated
\* it, unless an invalidation was lost or a commit overtook a reader between
\* its query and its fill.
CacheCoherent ==
  ~disturbed /\ (\A c \in Calls : pc[c] # "invalidate") => cache \in InForce \cup {0}

\* However it became stale, the copy does not stay so: its expiry bounds it.
EventuallyFresh == <>[](cache \in InForce \cup {0})

\* The version table is the growing history of DoctrineAuthority, and the
\* rows marked in force there are the ACTIVE ones.
Authority == INSTANCE DoctrineAuthority WITH
  Settings <- Proposals,
  history  <- [n \in DOMAIN versions |-> versions[n].settings],
  marked   <- Active,
  unique   <- migrated

ImplementsAuthority == Authority!Spec

\* doctrine-service.test.ts: a rollback of a known version creates a new
\* active version.
RollbackTakesEffect ==
  [][\A c \in Calls : pc[c] = "write" /\ job[c].kind = "rollback" /\ pc'[c] # "write" =>
       versions' # versions /\ versions'[Len(versions')].settings = versions[job[c].on].settings]_vars
=============================================================================
