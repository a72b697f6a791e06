-------------------------- MODULE BrokerPolicyProofs --------------------------
(***************************************************************************)
(* Proofs about BrokerPolicy for every value of its constants.             *)
(***************************************************************************)
EXTENDS BrokerPolicy, TLAPS

-----------------------------------------------------------------------------
(* Type correctness.  TypeOK is inductive; the lemmas say what the helpers *)
(* of the actions do to the queue and to the registry.                     *)

JobOK(j) == j \in Job /\ HasTarget(j)

QueueOK ==
    /\ jobs \in [Slots -> Job] /\ turn \in {0} \cup Slots
    /\ \A s \in Slots : HasTarget(jobs[s])

StoreOK == db \in Registry /\ expired \subseteq Certs

LEMMA EmptyType == Empty \in Registry
  BY DEF Empty, Registry, CertStates

LEMMA NewJobType ==
  ASSUME NEW op \in Ops, NEW pc \in Pcs, NEW x \in Devices \cup {0}, NEW c \in Certs \cup {0},
         NEW d \in Registry,
         pc \in {"index", "listed"} => op \in {"revoke", "license"} /\ c \in Certs,
         pc \in {"gencrl", "publish"} => op = "timer"
  PROVE  JobOK(NewJob(op, pc, x, c, d))
  BY DEF NewJob, Job, JobOK, HasTarget, Aims, SomeTarget

LEMMA NoJobType == JobOK(NoJob)
  BY EmptyType, NewJobType DEF NoJob, Ops, Pcs

LEMMA SyncingType ==
  ASSUME NEW j \in Job, j.again => j.op = "archive",
         NEW d \in Registry, NEW f \in BOOLEAN, NEW e \in BOOLEAN
  PROVE  JobOK(Syncing(j, d, f, e))
<1>1. Allowed(d) \in SUBSET Devices /\ Trusted(d) \in SUBSET Certs
  BY DEF Allowed, Trusted
<1>2. (IF j.again THEN d ELSE Empty) \in Registry
  BY EmptyType
<1>3. Syncing(j, d, f, e) \in Job
  BY <1>1, <1>2 DEF Syncing, Job, Pcs
<1>4. /\ Syncing(j, d, f, e).pc = "compare"
      /\ Syncing(j, d, f, e).op = j.op /\ Syncing(j, d, f, e).again = j.again
  BY DEF Syncing, Job
<1> QED
  BY <1>3, <1>4 DEF JobOK, HasTarget, Aims

LEMMA PutType ==
  ASSUME QueueOK, NEW s \in Slots, NEW j, JobOK(j), jobs' = [jobs EXCEPT ![s] = j]
  PROVE  jobs' \in [Slots -> Job] /\ \A r \in Slots : HasTarget(jobs'[r])
  BY DEF QueueOK, JobOK

LEMMA GoToType ==
  ASSUME QueueOK, NEW s \in Slots, NEW j, JobOK(j), GoTo(s, j)
  PROVE  QueueOK'
  BY PutType DEF QueueOK, GoTo

LEMMA BeginType ==
  ASSUME QueueOK, NEW s \in Slots, NEW j, JobOK(j), Begin(s, j)
  PROVE  QueueOK'
  BY PutType DEF QueueOK, Begin

LEMMA FinishType ==
  ASSUME QueueOK, NEW s \in Slots, Finish(s)
  PROVE  QueueOK'
  BY PutType, NoJobType DEF QueueOK, Finish

LEMMA JobOf ==
  ASSUME QueueOK, NEW s \in Slots
  PROVE  JobOK(jobs[s]) /\ jobs[s] \in Job
  BY DEF QueueOK, JobOK

\* A job that only moves its program counter.
LEMMA MoveType ==
  ASSUME QueueOK, NEW s \in Slots, NEW p \in Pcs,
         p \in {"index", "listed"} \/ (p \in {"gencrl", "publish"} /\ jobs[s].op # "timer") =>
             SomeTarget(jobs[s]),
         GoTo(s, [jobs[s] EXCEPT !.pc = p])
  PROVE  QueueOK'
<1> DEFINE k == [jobs[s] EXCEPT !.pc = p]
<1>1. JobOK(jobs[s]) /\ jobs[s] \in Job
  BY JobOf
<1>2. k \in Job
  BY <1>1 DEF Job
<1>3. k.pc = p /\ k.op = jobs[s].op /\ k.again = jobs[s].again /\ k.todo = jobs[s].todo
      /\ k.cert = jobs[s].cert
  BY <1>1 DEF Job
<1>4. SomeTarget(k) = SomeTarget(jobs[s])
  BY <1>3 DEF SomeTarget
<1>5. JobOK(k)
  <2> HIDE DEF k
  <2> QED
    BY <1>1, <1>2, <1>3, <1>4 DEF HasTarget, Aims, JobOK
<1> QED
  BY <1>5, GoToType

LEMMA SyncedType ==
  ASSUME QueueOK, db \in Registry, NEW s \in Slots, Synced(s)
  PROVE  QueueOK'
<1> DEFINE j == jobs[s]
<1>1. JobOK(j) /\ j \in Job
  BY JobOf
<1>2. CASE ~j.again
  BY <1>2, FinishType DEF Synced
<1>3. CASE j.again /\ j.todo = {}
  <2> DEFINE k == [j EXCEPT !.again = FALSE]
  <2>1. k \in Job /\ ~k.again
    BY <1>1 DEF Job
  <2>2. GoTo(s, Syncing(k, db, TRUE, TRUE))
    BY <1>3 DEF Synced
  <2>3. JobOK(Syncing(k, db, TRUE, TRUE))
    BY <2>1, SyncingType
  <2> QED
    BY <2>2, <2>3, GoToType
<1>4. CASE j.again /\ j.todo # {}
  <2>1. j.op = "archive"
    BY <1>1, <1>4 DEF JobOK, HasTarget
  <2>2. SomeTarget(j)
    BY <2>1, <1>1, <1>4 DEF SomeTarget, Job
  <2>3. GoTo(s, [j EXCEPT !.pc = "index"])
    BY <1>4 DEF Synced
  <2> QED
    BY <2>2, <2>3, MoveType DEF Pcs
<1> QED
  BY <1>2, <1>3, <1>4

-----------------------------------------------------------------------------
(* The registry. *)

LEMMA CertSet ==
  ASSUME NEW d \in Registry, NEW c, NEW v \in CertStates
  PROVE  [d EXCEPT !.cert[c] = v] \in Registry
  BY DEF Registry

LEMMA RetiredType ==
  ASSUME NEW d \in Registry, NEW c, NEW x, NEW b \in BOOLEAN
  PROVE  [d EXCEPT !.cert[c] = AsRevoked(@), !.enabled[x] = b] \in Registry
  BY DEF Registry, AsRevoked, CertStates

LEMMA BuriedType ==
  ASSUME NEW d \in Registry, NEW x
  PROVE  Buried(d, x) \in Registry
  BY DEF Registry, Buried, CertStates

LEMMA SaveAndSyncType ==
  ASSUME QueueOK, NEW s \in Slots, NEW j \in Job, j.again => j.op = "archive",
         NEW d \in Registry, NEW e \in BOOLEAN, SaveAndSync(s, j, d, e)
  PROVE  QueueOK' /\ db' \in Registry
  BY SyncingType, GoToType DEF SaveAndSync

LEMMA RevokedByOwnerType ==
  ASSUME QueueOK, NEW s \in Slots, NEW ok \in BOOLEAN, RevokedByOwner(s, ok)
  PROVE  QueueOK' /\ db' \in Registry
<1> DEFINE j == jobs[s]
           b == j.doc.enabled[j.device] /\ j.op = "license" /\ ok
           d == [j.doc EXCEPT !.cert[j.cert] = AsRevoked(@), !.enabled[j.device] = b]
<1>1. JobOK(j) /\ j \in Job
  BY JobOf
<1>2. j.doc \in Registry /\ (j.again => j.op = "archive")
  BY <1>1 DEF Job, JobOK, HasTarget
<1>3. b \in BOOLEAN
  OBVIOUS
<1>4. d \in Registry
  <2> HIDE DEF b
  <2> QED
    BY <1>2, <1>3, RetiredType
<1>5. SaveAndSync(s, j, d, TRUE)
  BY DEF RevokedByOwner
<1> HIDE DEF d
<1> QED
  BY <1>1, <1>2, <1>4, <1>5, SaveAndSyncType

\* A loop that goes on with the certificates that are left.
LEMMA LoopType ==
  ASSUME NEW j \in Job, JobOK(j), j.op \in {"archive", "delete", "purge"},
         NEW rest \in SUBSET Certs, rest # {}, NEW d \in Registry
  PROVE  JobOK([j EXCEPT !.pc = "index", !.todo = rest, !.doc = d])
<1> DEFINE k == [j EXCEPT !.pc = "index", !.todo = rest, !.doc = d]
<1>1. k \in Job /\ k.op = j.op /\ k.again = j.again /\ k.todo = rest
  BY DEF Job, Pcs
<1> HIDE DEF k
<1>2. SomeTarget(k)
  BY <1>1 DEF SomeTarget
<1> QED
  BY <1>1, <1>2 DEF JobOK, HasTarget, Aims, k

LEMMA RevokedForArchiveType ==
  ASSUME QueueOK, db \in Registry, NEW s \in Slots, NEW ok \in BOOLEAN,
         RevokedForArchive(s, ok)
  PROVE  QueueOK' /\ db' \in Registry
<1> DEFINE j == jobs[s]
           d == [j.doc EXCEPT !.cert[Target(j)] = "retired"]
           rest == j.todo \ {Target(j)}
           last == [j EXCEPT !.todo = {}, !.again = FALSE]
<1>1. JobOK(j) /\ j \in Job
  BY JobOf
<1>2. j.doc \in Registry /\ rest \in SUBSET Certs
  BY <1>1 DEF Job
<1>3. d \in Registry
  BY <1>2, CertSet DEF CertStates
<1>4. j.op = "archive"
  BY DEF RevokedForArchive
<1>5. last \in Job /\ ~last.again
  BY <1>1 DEF Job
<1>6. CASE ~ok /\ Finish(s) /\ UNCHANGED db
  BY <1>6, FinishType
<1>7. CASE ok /\ rest = {}
  <2>1. db' = d /\ GoTo(s, Syncing(last, d, TRUE, TRUE))
    BY <1>7 DEF RevokedForArchive
  <2> HIDE DEF d, last
  <2>2. JobOK(Syncing(last, d, TRUE, TRUE))
    BY <1>3, <1>5, SyncingType
  <2> QED
    BY <2>1, <2>2, <1>3, GoToType
<1>8. CASE ok /\ rest # {}
  <2>1. db' = d /\ GoTo(s, [j EXCEPT !.pc = "index", !.todo = rest, !.doc = d])
    BY <1>8 DEF RevokedForArchive
  <2> HIDE DEF d, rest
  <2>2. JobOK([j EXCEPT !.pc = "index", !.todo = rest, !.doc = d])
    BY <1>1, <1>2, <1>3, <1>4, <1>8, LoopType
  <2> QED
    BY <2>1, <2>2, <1>3, GoToType
<1> QED
  BY <1>6, <1>7, <1>8 DEF RevokedForArchive

LEMMA RevokedForDeleteType ==
  ASSUME QueueOK, db \in Registry, NEW s \in Slots, RevokedForDelete(s)
  PROVE  QueueOK' /\ db' \in Registry
<1> DEFINE j == jobs[s]
           rest == j.todo \ {Target(j)}
           last == [j EXCEPT !.todo = {}]
<1>1. JobOK(j) /\ j \in Job
  BY JobOf
<1>2. j.doc \in Registry /\ rest \in SUBSET Certs /\ j.defer \in BOOLEAN
  BY <1>1 DEF Job
<1>3. j.op \in {"delete", "purge"}
  BY DEF RevokedForDelete
<1>4. CASE rest = {}
  <2>1. SaveAndSync(s, last, Buried(j.doc, j.device), j.defer)
    BY <1>4 DEF RevokedForDelete
  <2>2. last \in Job /\ (last.again => last.op = "archive")
    BY <1>1 DEF Job, JobOK, HasTarget, Aims
  <2> HIDE DEF last
  <2> QED
    BY <2>1, <2>2, <1>2, BuriedType, SaveAndSyncType
<1>5. CASE rest # {}
  <2>1. GoTo(s, [j EXCEPT !.pc = "index", !.todo = rest]) /\ UNCHANGED db
    BY <1>5 DEF RevokedForDelete
  <2> DEFINE k == [j EXCEPT !.pc = "index", !.todo = rest]
  <2>2. k \in Job /\ k.op = j.op /\ k.again = j.again /\ k.todo = rest
    BY <1>1, <1>2 DEF Job, Pcs
  <2>3. JobOK(k)
    <3> HIDE DEF k, rest
    <3>1. SomeTarget(k)
      BY <2>2, <1>2, <1>3, <1>5 DEF SomeTarget
    <3> QED
      BY <2>2, <3>1, <1>1 DEF JobOK, HasTarget, Aims
  <2> QED
    BY <2>1, <2>3, GoToType
<1> QED
  BY <1>4, <1>5

LEMMA RevokedType ==
  ASSUME QueueOK, StoreOK, NEW s \in Slots, NEW ok \in BOOLEAN, Revoked(s, ok)
  PROVE  QueueOK' /\ StoreOK'
<1>1. expired' = expired
  BY DEF Revoked
<1>2. QueueOK' /\ db' \in Registry
  BY RevokedByOwnerType, RevokedForArchiveType, RevokedForDeleteType DEF Revoked, StoreOK
<1> QED
  BY <1>1, <1>2 DEF StoreOK

-----------------------------------------------------------------------------
(* One lemma per kind of action. *)

LEMMA Parts ==
  ASSUME TypeOK
  PROVE  QueueOK /\ StoreOK
  BY DEF TypeOK, QueueOK, StoreOK

LEMMA SyncStepType ==
  ASSUME TypeOK, NEW s \in Slots,
         Compare(s) \/ WriteAcl(s) \/ WritePolicy(s) \/ Submit(s) \/ SubmitPending(s)
            \/ ClearPending(s)
  PROVE  TypeOK'
<1>1. QueueOK /\ StoreOK /\ db \in Registry
  BY Parts DEF StoreOK
<1>2. jobs[s] \in Job
  BY <1>1, JobOf
<1>3. jobs[s].want \in SUBSET Devices /\ jobs[s].trusted \in SUBSET Certs
  BY <1>2 DEF Job
<1>4. ASSUME NEW p \in {"acl", "policy", "submit", "clear"},
             GoTo(s, [jobs[s] EXCEPT !.pc = p])
      PROVE  QueueOK'
  BY <1>1, <1>4, MoveType DEF Pcs
<1>5. ASSUME Synced(s) PROVE QueueOK'
  BY <1>1, <1>5, SyncedType
<1>6. CASE Compare(s)
  <2>1. QueueOK'
    BY <1>4, <1>5, <1>6 DEF Compare
  <2> QED
    BY <2>1, <1>6 DEF TypeOK, ghosts, QueueOK, Compare, store, ca, files, revisions, supervisor
<1>7. CASE WriteAcl(s)
  <2>1. QueueOK'
    BY <1>4, <1>7 DEF WriteAcl
  <2> QED
    BY <2>1, <1>3, <1>7 DEF TypeOK, ghosts, QueueOK, WriteAcl, store, ca, revisions, supervisor
<1>8. CASE WritePolicy(s)
  <2>1. QueueOK'
    BY <1>4, <1>8 DEF WritePolicy
  <2> QED
    BY <2>1, <1>3, <1>8 DEF TypeOK, ghosts, QueueOK, WritePolicy, store, ca, revisions, supervisor
<1>9. CASE Submit(s)
  <2>1. QueueOK'
    BY <1>4, <1>5, <1>9 DEF Submit
  <2> QED
    BY <2>1, <1>9 DEF TypeOK, ghosts, QueueOK, Submit, NewRevision, store, ca, files, supervisor
<1>10. CASE SubmitPending(s)
  <2>1. QueueOK'
    BY <1>4, <1>10 DEF SubmitPending
  <2> QED
    BY <2>1, <1>10
    DEF TypeOK, ghosts, QueueOK, SubmitPending, NewRevision, revisions, store, ca, files, supervisor
<1>11. CASE ClearPending(s)
  <2>1. QueueOK'
    BY <1>5, <1>11 DEF ClearPending
  <2> QED
    BY <2>1, <1>11 DEF TypeOK, ghosts, QueueOK, ClearPending, store, ca, files, supervisor
<1> QED
  BY <1>6, <1>7, <1>8, <1>9, <1>10, <1>11

LEMMA RevokeStepType ==
  ASSUME TypeOK, NEW s \in Slots,
         RevokeInIndex(s) \/ GenerateCrl(s) \/ PublishCrl(s) \/ LookUpCrl(s)
  PROVE  TypeOK'
<1>1. QueueOK /\ StoreOK /\ db \in Registry
  BY Parts DEF StoreOK
<1>2. JobOK(jobs[s]) /\ jobs[s] \in Job
  BY <1>1, JobOf
<1>3. ASSUME NEW ok \in BOOLEAN, Revoked(s, ok)
      PROVE  QueueOK' /\ StoreOK'
  BY <1>1, <1>3, RevokedType
<1>4. ASSUME UNCHANGED store PROVE StoreOK'
  BY <1>1, <1>4 DEF StoreOK, store
<1>5. ASSUME NEW p \in {"gencrl", "publish"}, GoTo(s, [jobs[s] EXCEPT !.pc = p]),
             jobs[s].pc \in {"index", "gencrl"}
      PROVE  QueueOK'
  BY <1>1, <1>2, <1>5, MoveType DEF Pcs, JobOK, HasTarget, Aims
<1>6. CASE RevokeInIndex(s)
  <2>1. Target(jobs[s]) \in Certs
    <3>1. SomeTarget(jobs[s])
      BY <1>2, <1>6 DEF JobOK, HasTarget, Aims, RevokeInIndex
    <3> QED
      BY <3>1, <1>2 DEF SomeTarget, Target, Job
  <2>2. QueueOK' /\ StoreOK'
    BY <1>3, <1>4, <1>5, <1>6 DEF RevokeInIndex, store
  <2> QED
    BY <2>1, <2>2, <1>6
    DEF TypeOK, ghosts, QueueOK, StoreOK, RevokeInIndex, files, revisions, supervisor
<1>7. CASE GenerateCrl(s)
  <2>1. QueueOK' /\ StoreOK'
    BY <1>1, <1>3, <1>4, <1>5, <1>7, FinishType DEF GenerateCrl, store
  <2>2. jobs[s].op # "timer" => Target(jobs[s]) \in Certs
    BY <1>2, <1>7 DEF GenerateCrl, JobOK, HasTarget, Aims, SomeTarget, Target, Job
  <2> QED
    BY <2>1, <2>2, <1>7 DEF TypeOK, ghosts, QueueOK, StoreOK, GenerateCrl, files, revisions, supervisor
<1>8. CASE PublishCrl(s)
  <2>1. jobs[s].again => jobs[s].op = "archive"
    BY <1>2 DEF JobOK, HasTarget, Aims
  <2>2. JobOK(Syncing(jobs[s], db, TRUE, FALSE))
    BY <2>1, <1>1, <1>2, SyncingType
  <2>3. ASSUME GoTo(s, Syncing(jobs[s], db, TRUE, FALSE)) PROVE QueueOK'
    BY <2>2, <2>3, <1>1, GoToType
  <2>4. QueueOK' /\ StoreOK'
    BY <2>3, <1>1, <1>3, <1>4, <1>8, FinishType DEF PublishCrl
  <2> QED
    BY <2>4, <1>8 DEF TypeOK, ghosts, QueueOK, StoreOK, PublishCrl, ca, revisions, supervisor
<1>9. CASE LookUpCrl(s)
  <2>1. jobs[s].pc = "listed"
    BY <1>9 DEF LookUpCrl
  <2>2. ASSUME GoTo(s, [jobs[s] EXCEPT !.pc = "index"]) PROVE QueueOK'
    <3>1. SomeTarget(jobs[s])
      BY <2>1, <1>2 DEF JobOK, HasTarget, Aims
    <3> QED
      BY <3>1, <2>2, <1>1, MoveType DEF Pcs
  <2>3. QueueOK' /\ StoreOK'
    BY <2>2, <1>3, <1>4, <1>9 DEF LookUpCrl
  <2> QED
    BY <2>3, <1>9 DEF TypeOK, ghosts, QueueOK, StoreOK, LookUpCrl, ca, files, revisions, supervisor
<1> QED
  BY <1>6, <1>7, <1>8, <1>9

LEMMA SignType ==
  ASSUME TypeOK, NEW s \in Slots, Sign(s)
  PROVE  TypeOK'
<1> DEFINE j == jobs[s]
           d == [j.doc EXCEPT !.cert[j.cert] = "active"]
<1>1. QueueOK /\ StoreOK /\ db \in Registry
  BY Parts DEF StoreOK
<1>2. JobOK(j) /\ j \in Job
  BY <1>1, JobOf
<1>3. d \in Registry
  BY <1>2, CertSet DEF Job, CertStates
<1>4. (db' = d /\ GoTo(s, Syncing(j, d, FALSE, TRUE))) \/ (Finish(s) /\ UNCHANGED db)
  BY DEF Sign
<1>5. QueueOK' /\ db' \in Registry
  <2> HIDE DEF d
  <2>1. JobOK(Syncing(j, d, FALSE, TRUE))
    BY <1>2, <1>3, SyncingType DEF JobOK, HasTarget, Aims
  <2> QED
    BY <2>1, <1>1, <1>3, <1>4, GoToType, FinishType
<1> QED
  BY <1>5 DEF TypeOK, ghosts, QueueOK, Sign, Untouched, ca, files, revisions, supervisor

\* Requests that begin with one job and leave the document alone.
LEMMA BeginOnlyType ==
  ASSUME TypeOK, NEW s \in Slots, NEW j, JobOK(j), Begin(s, j), UNCHANGED <<Untouched, db>>
  PROVE  TypeOK'
<1>1. QueueOK'
  BY Parts, BeginType
<1> QED
  BY <1>1 DEF TypeOK, ghosts, QueueOK, Untouched, ca, files, revisions, supervisor

\* Requests that save a document and go on with a job.
LEMMA SaveAndBeginType ==
  ASSUME TypeOK, NEW s \in Slots, NEW j, JobOK(j), NEW d \in Registry,
         Begin(s, j), db' = d, UNCHANGED Untouched
  PROVE  TypeOK'
<1>1. QueueOK'
  BY Parts, BeginType
<1> QED
  BY <1>1 DEF TypeOK, ghosts, QueueOK, Untouched, ca, files, revisions, supervisor

LEMMA TimerType ==
  ASSUME TypeOK, NEW s \in Slots, RefreshAcl(s) \/ RefreshPki(s)
  PROVE  TypeOK'
<1> DEFINE j == NewJob("timer", "compare", 0, 0, Empty)
           k == NewJob("timer", "gencrl", 0, 0, Empty)
<1>1. j \in Job /\ k \in Job /\ ~j.again /\ JobOK(k)
  BY EmptyType, NewJobType DEF Ops, Pcs, JobOK, NewJob
<1>2. JobOK(Syncing(j, db, FALSE, FALSE))
  <2> HIDE DEF j
  <2> QED
    BY <1>1, Parts, SyncingType DEF StoreOK
<1> HIDE DEF j, k
<1>3. CASE RefreshAcl(s)
  BY <1>2, <1>3, BeginOnlyType DEF RefreshAcl, j
<1>4. CASE RefreshPki(s)
  BY <1>1, <1>4, BeginOnlyType DEF RefreshPki, k
<1> QED
  BY <1>3, <1>4

LEMMA CertRequestType ==
  ASSUME TypeOK, PolicyAssumption, NEW s \in Slots, NEW c \in Certs,
         Issue(s, c) \/ Revoke(s, c) \/ RemoveLicense(s, c)
  PROVE  TypeOK'
<1>1. Holder[c] \in Devices \cup {0} /\ db \in Registry
  BY Parts DEF PolicyAssumption, StoreOK
<1>2. /\ JobOK(NewJob("issue", "sign", Holder[c], c, db))
      /\ JobOK(NewJob("revoke", "index", Holder[c], c, db))
      /\ JobOK(NewJob("license", "listed", Holder[c], c, db))
  BY <1>1, NewJobType DEF Ops, Pcs
<1> QED
  BY <1>2, BeginOnlyType DEF Issue, Revoke, RemoveLicense

LEMMA ChangeType ==
  ASSUME TypeOK, NEW s \in Slots, NEW d \in Registry, Change(s, d)
  PROVE  TypeOK'
<1> DEFINE j == NewJob("access", "compare", 0, 0, Empty)
<1>1. j \in Job /\ ~j.again
  BY EmptyType, NewJobType DEF Ops, Pcs, JobOK, NewJob
<1>2. JobOK(Syncing(j, d, TRUE, TRUE))
  <2> HIDE DEF j
  <2> QED
    BY <1>1, SyncingType
<1> QED
  BY <1>2, SaveAndBeginType DEF Change

LEMMA AccessType ==
  ASSUME TypeOK, NEW s \in Slots, NEW x \in Devices,
         Authorize(s, x) \/ Block(s, x) \/ Restore(s, x)
  PROVE  TypeOK'
<1>1. db \in Registry
  BY Parts DEF StoreOK
<1>2. /\ [db EXCEPT !.enabled[x] = TRUE] \in Registry
      /\ [db EXCEPT !.enabled[x] = FALSE] \in Registry
      /\ [db EXCEPT !.status[x] = "active", !.enabled[x] = FALSE] \in Registry
  BY <1>1 DEF Registry
<1> QED
  BY <1>2, ChangeType DEF Authorize, Block, Restore

LEMMA ArchiveType ==
  ASSUME TypeOK, NEW s \in Slots, NEW x \in Devices, Archive(s, x)
  PROVE  TypeOK'
<1> DEFINE d == [status |-> [db.status EXCEPT ![x] = "archived"],
                 enabled |-> [db.enabled EXCEPT ![x] = FALSE],
                 cert |-> [c \in Certs |-> IF c \in Listed(db, x, {"active"}) THEN "blocked"
                                           ELSE db.cert[c]]]
           new == NewJob("archive", "compare", x, 0, d)
           j == [new EXCEPT !.todo = Listed(d, x, {"blocked", "retired"}), !.again = TRUE]
<1>1. db \in Registry
  BY Parts DEF StoreOK
<1>2. d \in Registry
  BY <1>1 DEF Registry, CertStates
<1>3. Begin(s, Syncing(j, d, TRUE, TRUE)) /\ db' = d /\ UNCHANGED Untouched
  BY DEF Archive
<1>4. Listed(d, x, {"blocked", "retired"}) \in SUBSET Certs
  BY DEF Listed
<1> HIDE DEF d
<1>5. new \in Job /\ new.op = "archive"
  BY <1>2, NewJobType DEF Ops, Pcs, JobOK, NewJob
<1>6. j \in Job /\ j.op = "archive"
  <2> HIDE DEF new
  <2> QED
    BY <1>4, <1>5 DEF Job
<1>7. JobOK(Syncing(j, d, TRUE, TRUE))
  <2> HIDE DEF j
  <2> QED
    BY <1>2, <1>6, SyncingType
<1> HIDE DEF j
<1> QED
  BY <1>2, <1>3, <1>7, SaveAndBeginType

LEMMA DeleteAsType ==
  ASSUME TypeOK, NEW s \in Slots, NEW x \in Devices, NEW op \in {"delete", "purge"},
         DeleteAs(op, s, x, db)
  PROVE  TypeOK'
<1> DEFINE new == NewJob(op, "index", x, 0, db)
           todo == Listed(db, x, {"active"})
           j == [new EXCEPT !.todo = todo, !.defer = op = "delete"]
<1>1. db \in Registry /\ Buried(db, x) \in Registry
  BY Parts, BuriedType DEF StoreOK
<1>2. todo \in SUBSET Certs
  BY DEF Listed
<1>3. UNCHANGED Untouched /\
      IF j.todo = {}
      THEN Begin(s, Syncing(j, Buried(db, x), TRUE, j.defer)) /\ db' = Buried(db, x)
      ELSE Begin(s, j) /\ UNCHANGED db
  BY DEF DeleteAs
<1>4. new \in Job /\ new.op = op /\ ~new.again /\ new.pc = "index"
  BY <1>1 DEF NewJob, Job, Ops, Pcs
<1> HIDE DEF todo, new
<1>5. (op = "delete") \in BOOLEAN
  OBVIOUS
<1>6. j \in Job /\ j.op = op /\ ~j.again /\ j.todo = todo /\ j.defer \in BOOLEAN
  BY <1>2, <1>4, <1>5 DEF Job
<1> HIDE DEF j
<1>7. CASE j.todo = {}
  <2>1. JobOK(Syncing(j, Buried(db, x), TRUE, j.defer))
    BY <1>1, <1>6, SyncingType
  <2> QED
    BY <2>1, <1>1, <1>3, <1>7, SaveAndBeginType
<1>8. CASE j.todo # {}
  <2>1. SomeTarget(j)
    BY <1>2, <1>6, <1>8 DEF SomeTarget
  <2>2. JobOK(j)
    BY <2>1, <1>6 DEF JobOK, HasTarget, Aims
  <2> QED
    BY <2>2, <1>3, <1>8, BeginOnlyType
<1> QED
  BY <1>7, <1>8

LEMMA ApplyType ==
  ASSUME TypeOK, NEW s \in Slots, Apply(s)
  PROVE  TypeOK'
<1>1. JobOK(NewJob("apply", "pending", 0, 0, Empty))
  BY EmptyType, NewJobType DEF Ops, Pcs
<1> QED
  BY <1>1, BeginOnlyType DEF Apply

LEMMA RegisterType ==
  ASSUME TypeOK, NEW x \in Devices, Register(x)
  PROVE  TypeOK'
<1>1. db' \in Registry
  BY Parts DEF StoreOK, Register, Registry
<1> QED
  BY <1>1 DEF TypeOK, ghosts, Register, Untouched, ca, files, revisions, supervisor, queue

LEMMA SupervisorType ==
  ASSUME TypeOK, PolicyAssumption, SupervisorStep \/ MosquittoEnds
  PROVE  TypeOK'
<1> USE DEF TypeOK, ghosts, Elsewhere, store, ca, files, queue
<1>1. CASE SupervisorStart
  BY <1>1 DEF SupervisorStart
<1>2. CASE MosquittoLoads
  BY <1>2 DEF MosquittoLoads
<1>3. CASE SupervisorRecord
  BY <1>3 DEF SupervisorRecord
<1>4. CASE SupervisorNotices
  BY <1>4 DEF SupervisorNotices, Stopped
<1>5. CASE MosquittoEnds
  <2>1. mishaps' \in 0..MaxMishaps
    BY <1>5 DEF MosquittoEnds, PolicyAssumption
  <2>2. Stopped
    BY <1>5 DEF MosquittoEnds
  <2> QED
    BY <2>1, <2>2 DEF Stopped
<1> QED
  BY <1>1, <1>2, <1>3, <1>4, <1>5 DEF SupervisorStep

LEMMA MishapType ==
  ASSUME TypeOK, PolicyAssumption,
         AdminDies \/ (\E c \in Expiring : Expire(c)) \/ (\E s \in Slots : Disconnect(s))
  PROVE  TypeOK'
<1> USE DEF store, ca, files, revisions, supervisor, queue
<1>1. CASE AdminDies
  BY <1>1, NoJobType DEF AdminDies, TypeOK, PolicyAssumption, JobOK
<1>2. ASSUME NEW c \in Expiring, Expire(c) PROVE TypeOK'
  BY <1>2, PolicyAssumption DEF Expire, TypeOK, ghosts
<1>3. ASSUME NEW s \in Slots, Disconnect(s) PROVE TypeOK'
  BY <1>3 DEF Disconnect, TypeOK, PolicyAssumption
<1> QED
  BY <1>1, <1>2, <1>3

\* The variables of a registry, its jobs and the broker keep their types whatever requests,
\* timers, failing commands, expiries and deaths occur, and a job about to revoke has a
\* certificate to revoke.
THEOREM PolicyTypeCorrect == Spec => []TypeOK
<1>1. Init => TypeOK
  <2> SUFFICES ASSUME Init PROVE TypeOK
    OBVIOUS
  <2>1. db \in Registry
    BY EmptyType DEF Init
  <2>2. jobs \in [Slots -> Job] /\ \A s \in Slots : HasTarget(jobs[s])
    BY NoJobType DEF Init, JobOK
  <2>3. mishaps \in 0..MaxMishaps
    BY PolicyAssumption DEF Init, PolicyAssumption
  <2> QED
    BY <2>1, <2>2, <2>3 DEF Init, TypeOK
<1>2. TypeOK /\ [Next]_vars => TypeOK'
  <2> SUFFICES ASSUME TypeOK, [Next]_vars PROVE TypeOK'
    OBVIOUS
  <2>1. CASE UNCHANGED vars
    BY <2>1 DEF TypeOK, ghosts, vars, store, ca, files, revisions, queue, supervisor
  <2>2. ASSUME NEW x \in Devices, Register(x) PROVE TypeOK'
    BY <2>2, RegisterType
  <2>3. ASSUME NEW s \in Slots, Request(s) PROVE TypeOK'
    BY <2>3, AccessType, ArchiveType, DeleteAsType, CertRequestType, ApplyType, TimerType,
       PolicyAssumption
    DEF Request, Delete, Purge
  <2>4. ASSUME NEW s \in Slots, RefreshPki(s) PROVE TypeOK'
    BY <2>4, TimerType
  <2>5. ASSUME NEW s \in Slots, JobStep(s) PROVE TypeOK'
    BY <2>5, SyncStepType, RevokeStepType, SignType DEF JobStep
  <2>6. ASSUME AdminDies \/ (\E c \in Expiring : Expire(c)) \/ (\E s \in Slots : Disconnect(s))
        PROVE  TypeOK'
    BY <2>6, MishapType, PolicyAssumption
  <2>7. ASSUME SupervisorStep \/ MosquittoEnds PROVE TypeOK'
    BY <2>7, SupervisorType, PolicyAssumption
  <2> QED
    BY <2>1, <2>2, <2>3, <2>4, <2>5, <2>6, <2>7 DEF Next
<1> QED
  BY <1>1, <1>2, PTL DEF Spec

-----------------------------------------------------------------------------
(* While no client leaves, the queue lets one job run at a time, so the    *)
(* document a handler loaded is still the stored one when it saves it, and *)
(* until something dies, whatever openssl's index calls revoked while the  *)
(* registry calls it active is what the running job is revoking.  This     *)
(* invariant, Alone, carries RegistryAgreesWithIndex through every outcome *)
(* of an openssl command.                                                  *)

Revoking == {"listed", "index", "gencrl", "publish"}
Removals == {"delete", "purge"}
Loops == {"archive"} \cup Removals

Undoing(j, c) ==
    /\ j.pc \in Revoking
    /\ \/ j.op \in {"revoke", "license"} /\ j.cert = c
       \/ j.op \in Removals /\ j.device = Holder[c]

\* The revocations that are accounted for; a death gives up on them.
Counted == IF mishaps = 0 THEN index ELSE {}

Explained(i, d, j) ==
    \A c \in i : d.cert[c] # "none" /\ (d.cert[c] = "active" => Undoing(j, c))

\* What a job knows of the registry while it runs alone.
FreshDoc(j, d) ==
    j.again \/ (j.pc \in Revoking \cup {"sign"} /\ j.op # "timer") => j.doc = d
Signing(j, d) ==
    j.pc = "sign" => j.op = "issue" /\ j.cert \in Certs /\ d.cert[j.cert] = "none"
Targets(j, d) ==
    /\ j.pc = "listed" => j.op = "license"
    /\ j.pc = "index" => j.op \in {"revoke", "license"} \/ (j.op \in Loops /\ j.todo # {})
    /\ j.op \in {"revoke", "license"} /\ j.pc \in Revoking => d.cert[j.cert] # "none"
    /\ j.op = "archive" => \A c \in j.todo : d.cert[c] \in {"blocked", "retired"}
    /\ j.op \in Removals /\ j.pc \in Revoking =>
           \A c \in j.todo : d.cert[c] = "active" /\ Holder[c] = j.device
Knows(j, d) == FreshDoc(j, d) /\ Signing(j, d) /\ Targets(j, d)

Alone ==
    /\ \A s \in Slots : jobs[s].pc # "idle" => turn = s
    /\ turn = 0 => Explained(Counted, db, NoJob)
    /\ turn # 0 => Knows(jobs[turn], db) /\ Explained(Counted, db, jobs[turn])

-----------------------------------------------------------------------------
(* The queue: what a step must establish when its job moves, ends, begins. *)

LEMMA Mover ==
  ASSUME TypeOK, Alone, NEW s \in Slots, jobs[s].pc # "idle"
  PROVE  /\ turn = s /\ Knows(jobs[s], db) /\ Explained(Counted, db, jobs[s])
         /\ JobOK(jobs[s]) /\ jobs[s] \in Job
         /\ Counted \subseteq Certs /\ db \in Registry
<1>1. turn = s /\ turn # 0
  BY PolicyAssumption DEF PolicyAssumption, Alone
<1> QED
  BY <1>1, Parts, JobOf DEF Alone, TypeOK, Counted

LEMMA AloneGoTo ==
  ASSUME TypeOK, Alone, NEW s \in Slots, jobs[s].pc # "idle", NEW k, GoTo(s, k),
         Knows(k, db'), Explained(Counted', db', k)
  PROVE  Alone'
<1>1. turn = s /\ turn' = s /\ s # 0
  BY Mover, PolicyAssumption DEF PolicyAssumption, GoTo
<1>2. jobs'[s] = k /\ \A r \in Slots : r # s => jobs'[r] = jobs[r]
  BY DEF TypeOK, GoTo
<1>3. \A r \in Slots : jobs'[r].pc # "idle" => turn' = r
  BY <1>1, <1>2 DEF Alone
<1> QED
  BY <1>1, <1>2, <1>3 DEF Alone

LEMMA AloneFinish ==
  ASSUME TypeOK, Alone, NEW s \in Slots, jobs[s].pc # "idle", Finish(s),
         Explained(Counted', db', NoJob)
  PROVE  Alone'
<1>1. turn = s /\ turn' = 0
  BY Mover DEF Finish
<1>2. jobs'[s].pc = "idle" /\ \A r \in Slots : r # s => jobs'[r] = jobs[r]
  BY DEF TypeOK, Finish, NoJob, NewJob
<1> QED
  BY <1>1, <1>2 DEF Alone

LEMMA AloneBegin ==
  ASSUME TypeOK, Alone, NEW s \in Slots, NEW k, Begin(s, k),
         Knows(k, db'), Explained(Counted', db', k)
  PROVE  Alone'
<1>1. turn = 0 /\ turn' = s /\ s # 0
  BY PolicyAssumption DEF PolicyAssumption, Begin
<1>2. jobs'[s] = k /\ \A r \in Slots : r # s => jobs'[r] = jobs[r]
  BY DEF TypeOK, Begin
<1>3. \A r \in Slots : jobs[r].pc = "idle"
  BY <1>1, PolicyAssumption DEF Alone, PolicyAssumption
<1> QED
  BY <1>1, <1>2, <1>3 DEF Alone

LEMMA AloneKeep ==
  ASSUME Alone, UNCHANGED <<jobs, turn, db, Counted>>
  PROVE  Alone'
  BY DEF Alone

\* A job that is not revoking explains nothing, so any other explains as much.
LEMMA ExplainedByAny ==
  ASSUME NEW i, NEW d, NEW j,
         j.pc \notin Revoking \/ j.op \notin {"revoke", "license"} \cup Removals,
         Explained(i, d, j), NEW k
  PROVE  Explained(i, d, k)
  BY DEF Explained, Undoing

LEMMA NothingToExplain ==
  ASSUME turn = 0, Alone, NEW k
  PROVE  Explained(Counted, db, k)
<1>1. NoJob.pc \notin Revoking
  BY DEF NoJob, NewJob, Revoking
<1> QED
  BY <1>1, ExplainedByAny DEF Alone

LEMMA SyncKnows ==
  ASSUME NEW j \in Job, NEW d, NEW f, NEW e,
         j.op = "archive" => \A c \in j.todo : d.cert[c] \in {"blocked", "retired"}
  PROVE  Knows(Syncing(j, d, f, e), d)
<1> DEFINE k == Syncing(j, d, f, e)
<1>1. /\ k.pc = "compare" /\ k.op = j.op /\ k.todo = j.todo /\ k.again = j.again
      /\ k.again => k.doc = d
  BY DEF Syncing, Job
<1> HIDE DEF k
<1> QED
  BY <1>1 DEF Knows, FreshDoc, Signing, Targets, Revoking, k

\* A job that goes on syncing.
LEMMA AloneMove ==
  ASSUME TypeOK, Alone, NEW s \in Slots, jobs[s].pc \notin Revoking \cup {"sign", "idle"},
         NEW p \in {"acl", "policy", "submit", "clear"},
         GoTo(s, [jobs[s] EXCEPT !.pc = p]), UNCHANGED <<db, Counted>>
  PROVE  Alone'
<1> DEFINE j == jobs[s]
           k == [j EXCEPT !.pc = p]
<1>1. Knows(j, db) /\ Explained(Counted, db, j) /\ j \in Job
  BY Mover
<1>2. /\ k.pc = p /\ k.op = j.op /\ k.todo = j.todo /\ k.again = j.again /\ k.doc = j.doc
  BY <1>1 DEF Job
<1> HIDE DEF k
<1>3. Knows(k, db)
  BY <1>1, <1>2 DEF Knows, FreshDoc, Signing, Targets, Revoking
<1>4. Explained(Counted, db, k)
  BY <1>1, ExplainedByAny
<1> QED
  BY <1>3, <1>4, AloneGoTo DEF k

LEMMA AloneSynced ==
  ASSUME TypeOK, Alone, NEW s \in Slots, jobs[s].pc \notin Revoking \cup {"sign", "idle"},
         Synced(s), UNCHANGED <<db, Counted>>
  PROVE  Alone'
<1> DEFINE j == jobs[s]
<1>1. Knows(j, db) /\ Explained(Counted, db, j) /\ j \in Job /\ JobOK(j)
  BY Mover
<1>2. \A k : Explained(Counted, db, k)
  BY <1>1, ExplainedByAny
<1>3. CASE ~j.again
  BY <1>2, <1>3, AloneFinish DEF Synced
<1>4. CASE j.again /\ j.todo = {}
  <2> DEFINE k == [j EXCEPT !.again = FALSE]
  <2>1. k \in Job /\ k.todo = {}
    BY <1>1, <1>4 DEF Job
  <2>2. GoTo(s, Syncing(k, db, TRUE, TRUE))
    BY <1>4 DEF Synced
  <2> HIDE DEF k
  <2>3. Knows(Syncing(k, db, TRUE, TRUE), db)
    BY <2>1, SyncKnows
  <2> QED
    BY <2>2, <2>3, <1>2, AloneGoTo
<1>5. CASE j.again /\ j.todo # {}
  <2> DEFINE k == [j EXCEPT !.pc = "index"]
  <2>1. j.op = "archive"
    BY <1>1, <1>5 DEF JobOK, HasTarget
  <2>2. k.pc = "index" /\ k.op = j.op /\ k.todo = j.todo /\ k.again = j.again /\ k.doc = j.doc
    BY <1>1 DEF Job
  <2>3. GoTo(s, k)
    BY <1>5 DEF Synced
  <2> HIDE DEF k
  <2>4. Knows(k, db)
    BY <2>1, <2>2, <1>1, <1>5 DEF Knows, FreshDoc, Signing, Targets, Loops, Removals
  <2> QED
    BY <2>3, <2>4, <1>2, AloneGoTo
<1> QED
  BY <1>3, <1>4, <1>5

-----------------------------------------------------------------------------
(* What the handlers do with the outcome of a revocation. *)

\* A save that goes on with a forced sync.
LEMMA AloneSaveAndSync ==
  ASSUME TypeOK, Alone, NEW s \in Slots, jobs[s].pc # "idle", NEW j \in Job, NEW d, NEW e,
         j.op = "archive" => \A c \in j.todo : d.cert[c] \in {"blocked", "retired"},
         SaveAndSync(s, j, d, e), \A k : Explained(Counted', d, k)
  PROVE  Alone'
<1>1. db' = d /\ GoTo(s, Syncing(j, d, TRUE, e))
  BY DEF SaveAndSync
<1>2. Knows(Syncing(j, d, TRUE, e), d)
  BY SyncKnows
<1> QED
  BY <1>1, <1>2, AloneGoTo

LEMMA AloneByOwner ==
  ASSUME TypeOK, Alone, NEW s \in Slots, jobs[s].pc \in Revoking, NEW ok \in BOOLEAN,
         RevokedByOwner(s, ok), UNCHANGED Counted
  PROVE  Alone'
<1> DEFINE j == jobs[s]
           b == j.doc.enabled[j.device] /\ j.op = "license" /\ ok
           d == [j.doc EXCEPT !.cert[j.cert] = AsRevoked(@), !.enabled[j.device] = b]
<1>1. /\ Knows(j, db) /\ Explained(Counted, db, j) /\ j \in Job
      /\ Counted \subseteq Certs /\ db \in Registry /\ j.pc # "idle"
  BY Mover DEF Revoking
<1>2. j.op \in {"revoke", "license"} /\ SaveAndSync(s, j, d, TRUE)
  BY DEF RevokedByOwner
<1>3. j.doc = db
  BY <1>1, <1>2 DEF Knows, FreshDoc
<1>4. \A c \in Certs : d.cert[c] = IF c = j.cert THEN AsRevoked(db.cert[c]) ELSE db.cert[c]
  <2> HIDE DEF b
  <2> QED
    BY <1>1, <1>3 DEF Registry
<1>5. ASSUME NEW k PROVE Explained(Counted, d, k)
  <2> HIDE DEF d
  <2> SUFFICES ASSUME NEW c \in Counted PROVE d.cert[c] \notin {"none", "active"}
    BY DEF Explained
  <2>1. CASE c = j.cert
    BY <2>1, <1>1, <1>4 DEF AsRevoked
  <2>2. CASE c # j.cert
    <3>1. ~Undoing(j, c)
      BY <2>2, <1>2 DEF Undoing, Removals
    <3> QED
      BY <2>2, <3>1, <1>1, <1>4 DEF Explained
  <2> QED
    BY <2>1, <2>2
<1> HIDE DEF d
<1> QED
  BY <1>1, <1>2, <1>5, AloneSaveAndSync

LEMMA AloneForArchive ==
  ASSUME TypeOK, Alone, NEW s \in Slots, jobs[s].pc \in Revoking, NEW ok \in BOOLEAN,
         RevokedForArchive(s, ok), UNCHANGED Counted
  PROVE  Alone'
<1> DEFINE j == jobs[s]
           x == Target(j)
           d == [j.doc EXCEPT !.cert[x] = "retired"]
           rest == j.todo \ {x}
           last == [j EXCEPT !.todo = {}, !.again = FALSE]
           next == [j EXCEPT !.pc = "index", !.todo = rest, !.doc = d]
<1>1. /\ Knows(j, db) /\ Explained(Counted, db, j) /\ j \in Job
      /\ Counted \subseteq Certs /\ db \in Registry /\ j.pc # "idle"
  BY Mover DEF Revoking
<1>2. j.op = "archive"
  BY DEF RevokedForArchive
<1>3. j.doc = db /\ \A c \in j.todo : db.cert[c] \in {"blocked", "retired"}
  BY <1>1, <1>2 DEF Knows, FreshDoc, Targets
<1>4. \A c \in Certs : d.cert[c] = IF c = x THEN "retired" ELSE db.cert[c]
  <2> HIDE DEF x
  <2> QED
    BY <1>1, <1>3 DEF Registry
<1>5. \A k : Explained(Counted, db, k)
  BY <1>1, <1>2, ExplainedByAny DEF Removals
<1>6. \A k : Explained(Counted, d, k)
  <2> HIDE DEF d
  <2>1. \A c \in Counted : db.cert[c] \notin {"none", "active"}
    BY <1>1, <1>2 DEF Explained, Undoing, Removals
  <2> QED
    BY <2>1, <1>1, <1>4 DEF Explained
<1>7. CASE ~ok /\ Finish(s) /\ UNCHANGED db
  BY <1>1, <1>5, <1>7, AloneFinish
<1>8. CASE ok /\ rest = {}
  <2>1. db' = d /\ GoTo(s, Syncing(last, d, TRUE, TRUE))
    BY <1>8 DEF RevokedForArchive
  <2>2. last \in Job /\ last.todo = {}
    BY <1>1 DEF Job
  <2> HIDE DEF last, d
  <2>3. Knows(Syncing(last, d, TRUE, TRUE), d)
    BY <2>2, SyncKnows
  <2> QED
    BY <2>1, <2>3, <1>1, <1>6, AloneGoTo
<1>9. CASE ok /\ rest # {}
  <2>1. db' = d /\ GoTo(s, next)
    BY <1>9 DEF RevokedForArchive
  <2>2. next.pc = "index" /\ next.op = j.op /\ next.todo = rest /\ next.doc = d
    BY <1>1 DEF Job
  <2>3. \A c \in rest : d.cert[c] \in {"blocked", "retired"}
    <3> HIDE DEF d
    <3> QED
      BY <1>1, <1>3, <1>4 DEF Job
  <2> HIDE DEF next, d, rest
  <2>4. Knows(next, d)
    BY <2>2, <2>3, <1>2, <1>9 DEF Knows, FreshDoc, Signing, Targets, Loops, Removals
  <2> QED
    BY <2>1, <2>4, <1>1, <1>6, AloneGoTo
<1> QED
  BY <1>7, <1>8, <1>9 DEF RevokedForArchive

LEMMA AloneForDelete ==
  ASSUME TypeOK, Alone, NEW s \in Slots, jobs[s].pc \in Revoking,
         RevokedForDelete(s), UNCHANGED Counted
  PROVE  Alone'
<1> DEFINE j == jobs[s]
           rest == j.todo \ {Target(j)}
           last == [j EXCEPT !.todo = {}]
           next == [j EXCEPT !.pc = "index", !.todo = rest]
           d == Buried(j.doc, j.device)
<1>1. /\ Knows(j, db) /\ Explained(Counted, db, j) /\ j \in Job
      /\ Counted \subseteq Certs /\ db \in Registry /\ j.pc # "idle"
  BY Mover DEF Revoking
<1>2. j.op \in Removals
  BY DEF RevokedForDelete, Removals
<1>3. j.doc = db
  BY <1>1, <1>2 DEF Knows, FreshDoc, Removals
<1>4. CASE rest = {}
  <2>1. SaveAndSync(s, last, d, j.defer)
    BY <1>4 DEF RevokedForDelete
  <2>2. last \in Job /\ last.op = j.op
    BY <1>1 DEF Job
  <2>3. \A c \in Certs : d.cert[c] = IF Holder[c] = j.device /\ db.cert[c] # "none"
                                     THEN "gone" ELSE db.cert[c]
    BY <1>3 DEF Buried
  <2>4. ASSUME NEW k PROVE Explained(Counted, d, k)
    <3> HIDE DEF d
    <3> SUFFICES ASSUME NEW c \in Counted PROVE d.cert[c] \notin {"none", "active"}
      BY DEF Explained
    <3>1. Undoing(j, c) => Holder[c] = j.device
      BY <1>2 DEF Undoing, Removals
    <3> QED
      BY <3>1, <2>3, <1>1 DEF Explained
  <2> HIDE DEF last, d
  <2> QED
    BY <2>1, <2>2, <2>4, <1>1, <1>2, AloneSaveAndSync DEF Removals
<1>5. CASE rest # {}
  <2>1. GoTo(s, next) /\ UNCHANGED db
    BY <1>5 DEF RevokedForDelete
  <2>2. /\ next.pc = "index" /\ next.op = j.op /\ next.todo = rest /\ next.doc = j.doc
        /\ next.device = j.device
    BY <1>1 DEF Job
  <2> HIDE DEF next
  <2>3. Knows(next, db)
    BY <2>2, <1>1, <1>2, <1>3, <1>5
    DEF Knows, FreshDoc, Signing, Targets, Loops, Removals, Revoking
  <2>4. Explained(Counted, db, next)
    BY <2>2, <1>1, <1>2 DEF Explained, Undoing, Revoking, Removals
  <2> QED
    BY <2>1, <2>3, <2>4, <1>1, AloneGoTo
<1> QED
  BY <1>4, <1>5

LEMMA AloneRevoked ==
  ASSUME TypeOK, Alone, NEW s \in Slots, jobs[s].pc \in Revoking, NEW ok \in BOOLEAN,
         Revoked(s, ok), UNCHANGED Counted
  PROVE  Alone'
  BY AloneByOwner, AloneForArchive, AloneForDelete DEF Revoked

-----------------------------------------------------------------------------
(* The steps of a job. *)

LEMMA AloneSyncStep ==
  ASSUME TypeOK, Alone, NEW s \in Slots,
         Compare(s) \/ WriteAcl(s) \/ WritePolicy(s) \/ Submit(s) \/ SubmitPending(s)
            \/ ClearPending(s)
  PROVE  Alone'
<1>1. UNCHANGED <<db, Counted>>
  BY DEF Compare, WriteAcl, WritePolicy, Submit, SubmitPending, ClearPending, store, ca, Counted
<1>2. jobs[s].pc \notin Revoking \cup {"sign", "idle"}
  BY DEF Compare, WriteAcl, WritePolicy, Submit, SubmitPending, ClearPending, Revoking
<1>3. \/ Synced(s)
      \/ \E p \in {"acl", "policy", "submit", "clear"} : GoTo(s, [jobs[s] EXCEPT !.pc = p])
  BY DEF Compare, WriteAcl, WritePolicy, Submit, SubmitPending, ClearPending
<1> QED
  BY <1>1, <1>2, <1>3, AloneSynced, AloneMove

\* A revocation that moves on to the next openssl command or file.
LEMMA AloneRevoking ==
  ASSUME TypeOK, Alone, NEW s \in Slots, jobs[s].pc \in Revoking, UNCHANGED db,
         NEW p \in {"index", "gencrl", "publish"}, GoTo(s, [jobs[s] EXCEPT !.pc = p]),
         p = "index" => jobs[s].op = "license",
         \A c \in Counted' : db.cert[c] # "none" /\
             (db.cert[c] = "active" =>
                 \/ jobs[s].op \in {"revoke", "license"} /\ jobs[s].cert = c
                 \/ jobs[s].op \in Removals /\ jobs[s].device = Holder[c])
  PROVE  Alone'
<1> DEFINE j == jobs[s]
           k == [j EXCEPT !.pc = p]
<1>1. Knows(j, db) /\ j \in Job /\ j.pc # "idle"
  BY Mover DEF Revoking
<1>2. /\ k.pc = p /\ k.op = j.op /\ k.todo = j.todo /\ k.again = j.again /\ k.doc = j.doc
      /\ k.cert = j.cert /\ k.device = j.device
  BY <1>1 DEF Job
<1> HIDE DEF k
<1>3. Knows(k, db)
  BY <1>1, <1>2 DEF Knows, FreshDoc, Signing, Targets, Revoking, Removals
<1>4. Explained(Counted', db, k)
  BY <1>2 DEF Explained, Undoing, Revoking
<1> QED
  BY <1>1, <1>3, <1>4, AloneGoTo DEF k

LEMMA AloneRevokeInIndex ==
  ASSUME TypeOK, Alone, NEW s \in Slots, RevokeInIndex(s)
  PROVE  Alone'
<1> DEFINE j == jobs[s]
           x == Target(j)
<1>1. j.pc = "index"
  BY DEF RevokeInIndex
<1>2. Knows(j, db) /\ Explained(Counted, db, j) /\ JobOK(j) /\ j \in Job
  BY <1>1, Mover
<1>3. CASE Counted' \subseteq Counted \cup {x} /\ GoTo(s, [j EXCEPT !.pc = "gencrl"]) /\ UNCHANGED store
  <2>1. j.op \in {"revoke", "license"} \/ (j.op \in Loops /\ j.todo # {})
    BY <1>1, <1>2 DEF Knows, Targets
  <2>2. CASE j.op \in {"revoke", "license"}
    <3>1. x = j.cert /\ db.cert[x] # "none"
      BY <2>2, <1>1, <1>2 DEF Knows, Targets, Target, Revoking
    <3>2. \A c \in Counted \cup {x} : db.cert[c] # "none" /\
             (db.cert[c] = "active" => j.cert = c)
      BY <3>1, <2>2, <1>2 DEF Explained, Undoing, Removals
    <3> QED
      BY <3>2, <2>2, <1>1, <1>3, AloneRevoking DEF Revoking, store
  <2>3. CASE j.op \in Loops /\ j.todo # {}
    <3>1. x \in j.todo
      BY <2>3 DEF Target, Loops, Removals
    <3>2. \/ j.op = "archive" /\ db.cert[x] \in {"blocked", "retired"}
          \/ j.op \in Removals /\ db.cert[x] = "active" /\ Holder[x] = j.device
      BY <2>3, <3>1, <1>1, <1>2 DEF Knows, Targets, Loops, Revoking
    <3> HIDE DEF x
    <3>3. \A c \in Counted \cup {x} : db.cert[c] # "none" /\
             (db.cert[c] = "active" => j.op \in Removals /\ j.device = Holder[c])
      BY <3>2, <2>3, <1>2 DEF Explained, Undoing, Loops, Removals
    <3> QED
      BY <3>3, <1>1, <1>3, AloneRevoking DEF Revoking, store
  <2> QED
    BY <2>1, <2>2, <2>3
<1>4. CASE Revoked(s, FALSE) /\ UNCHANGED Counted
  BY <1>1, <1>4, AloneRevoked DEF Revoking
<1> QED
  BY <1>3, <1>4 DEF RevokeInIndex, Counted

LEMMA AloneCrlStep ==
  ASSUME TypeOK, Alone, NEW s \in Slots, GenerateCrl(s) \/ PublishCrl(s) \/ LookUpCrl(s)
  PROVE  Alone'
<1> DEFINE j == jobs[s]
<1>1. j.pc \in Revoking /\ j.pc # "idle"
  BY DEF GenerateCrl, PublishCrl, LookUpCrl, Revoking
<1>2. Knows(j, db) /\ Explained(Counted, db, j) /\ JobOK(j) /\ j \in Job
  BY <1>1, Mover
<1>3. UNCHANGED Counted
  BY DEF GenerateCrl, PublishCrl, LookUpCrl, ca, Counted
<1>4. ASSUME UNCHANGED db, NEW p \in {"index", "publish"}, GoTo(s, [j EXCEPT !.pc = p]),
             p = "index" => j.op = "license"
      PROVE  Alone'
  <2>1. \A c \in Counted' : db.cert[c] # "none" /\
           (db.cert[c] = "active" =>
               \/ j.op \in {"revoke", "license"} /\ j.cert = c
               \/ j.op \in Removals /\ j.device = Holder[c])
    BY <1>2, <1>3 DEF Explained, Undoing
  <2> QED
    BY <2>1, <1>1, <1>4, AloneRevoking
<1>5. ASSUME NEW ok \in BOOLEAN, Revoked(s, ok) PROVE Alone'
  BY <1>1, <1>3, <1>5, AloneRevoked
<1>6. \A k : j.op = "timer" => Explained(Counted, db, k)
  BY <1>2, ExplainedByAny DEF Removals
<1>7. ASSUME j.op = "timer", UNCHANGED db, Finish(s) PROVE Alone'
  BY <1>1, <1>3, <1>6, <1>7, AloneFinish
<1>8. ASSUME j.op = "timer", UNCHANGED db, GoTo(s, Syncing(j, db, TRUE, FALSE)) PROVE Alone'
  BY <1>1, <1>2, <1>3, <1>6, <1>8, SyncKnows, AloneGoTo
<1>9. CASE GenerateCrl(s)
  BY <1>4, <1>5, <1>7, <1>9 DEF GenerateCrl, store
<1>10. CASE PublishCrl(s)
  BY <1>5, <1>7, <1>8, <1>10 DEF PublishCrl, store
<1>11. CASE LookUpCrl(s)
  <2>1. j.op = "license"
    BY <1>2, <1>11 DEF LookUpCrl, Knows, Targets
  <2> QED
    BY <2>1, <1>4, <1>5, <1>11 DEF LookUpCrl, store
<1> QED
  BY <1>9, <1>10, <1>11

LEMMA AloneSign ==
  ASSUME TypeOK, Alone, NEW s \in Slots, Sign(s)
  PROVE  Alone'
<1> DEFINE j == jobs[s]
           d == [j.doc EXCEPT !.cert[j.cert] = "active"]
<1>1. j.pc = "sign" /\ j.pc # "idle"
  BY DEF Sign
<1>2. /\ Knows(j, db) /\ Explained(Counted, db, j) /\ JobOK(j) /\ j \in Job
      /\ Counted \subseteq Certs /\ db \in Registry
  BY <1>1, Mover
<1>3. j.op = "issue" /\ j.cert \in Certs /\ db.cert[j.cert] = "none" /\ j.doc = db
  BY <1>1, <1>2 DEF Knows, Signing, FreshDoc
<1>4. UNCHANGED Counted
  BY DEF Sign, Untouched, ca, Counted
<1>5. \A k : Explained(Counted, db, k)
  BY <1>2, <1>3, ExplainedByAny DEF Removals
<1>6. \A k : Explained(Counted, d, k)
  <2>1. \A c \in Certs : d.cert[c] = IF c = j.cert THEN "active" ELSE db.cert[c]
    BY <1>2, <1>3 DEF Registry
  <2>2. j.cert \notin Counted
    BY <1>2, <1>3 DEF Explained
  <2>3. \A c \in Counted : db.cert[c] \notin {"none", "active"}
    BY <1>2, <1>3 DEF Explained, Undoing, Removals
  <2> HIDE DEF d
  <2> QED
    BY <2>1, <2>2, <2>3, <1>2 DEF Explained
<1>7. CASE db' = d /\ GoTo(s, Syncing(j, d, FALSE, TRUE))
  <2> HIDE DEF d
  <2> QED
    BY <1>1, <1>2, <1>3, <1>4, <1>6, <1>7, SyncKnows, AloneGoTo
<1>8. CASE Finish(s) /\ UNCHANGED db
  BY <1>1, <1>4, <1>5, <1>8, AloneFinish
<1> QED
  BY <1>7, <1>8 DEF Sign

-----------------------------------------------------------------------------
(* The requests. *)

LEMMA NewKnows ==
  ASSUME NEW op, NEW pc, NEW x, NEW c, NEW d,
         pc = "listed" => op = "license",
         pc = "index" => op \in {"revoke", "license"},
         pc = "sign" => op = "issue" /\ c \in Certs /\ d.cert[c] = "none",
         pc \in Revoking /\ op \in {"revoke", "license"} => d.cert[c] # "none"
  PROVE  Knows(NewJob(op, pc, x, c, d), d)
  BY DEF Knows, FreshDoc, Signing, Targets, NewJob, Revoking

LEMMA AloneTimer ==
  ASSUME TypeOK, Alone, NEW s \in Slots, RefreshAcl(s) \/ RefreshPki(s) \/ Apply(s)
  PROVE  Alone'
<1> DEFINE acljob == NewJob("timer", "compare", 0, 0, Empty)
           pkijob == NewJob("timer", "gencrl", 0, 0, Empty)
           apply == NewJob("apply", "pending", 0, 0, Empty)
<1>1. acljob \in Job /\ acljob.op = "timer"
  BY EmptyType, NewJobType DEF Ops, Pcs, JobOK, NewJob
<1>2. Knows(pkijob, db) /\ Knows(apply, db)
  BY DEF Knows, FreshDoc, Signing, Targets, NewJob, Revoking, Removals
<1> HIDE DEF acljob, pkijob, apply
<1>3. Knows(Syncing(acljob, db, FALSE, FALSE), db)
  BY <1>1, SyncKnows
<1>4. turn = 0 /\ UNCHANGED <<db, Counted>>
  BY DEF RefreshAcl, RefreshPki, Apply, Begin, Untouched, ca, Counted
<1>5. \E k \in {Syncing(acljob, db, FALSE, FALSE), pkijob, apply} : Begin(s, k)
  BY DEF RefreshAcl, RefreshPki, Apply, acljob, pkijob, apply
<1> QED
  BY <1>2, <1>3, <1>4, <1>5, NothingToExplain, AloneBegin

LEMMA AloneCertRequest ==
  ASSUME TypeOK, Alone, NEW s \in Slots, NEW c \in Certs,
         Issue(s, c) \/ Revoke(s, c) \/ RemoveLicense(s, c)
  PROVE  Alone'
<1> DEFINE issue == NewJob("issue", "sign", Holder[c], c, db)
           revoke == NewJob("revoke", "index", Holder[c], c, db)
           license == NewJob("license", "listed", Holder[c], c, db)
<1>1. turn = 0 /\ UNCHANGED <<db, Counted>>
  BY DEF Issue, Revoke, RemoveLicense, Begin, Untouched, ca, Counted
<1>2. CASE Issue(s, c)
  <2>1. Knows(issue, db)
    BY <1>2, NewKnows DEF Issue, Revoking
  <2> QED
    BY <2>1, <1>1, <1>2, NothingToExplain, AloneBegin DEF Issue
<1>3. CASE Revoke(s, c)
  <2>1. Knows(revoke, db)
    BY <1>3, NewKnows DEF Revoke, Revoking
  <2> QED
    BY <2>1, <1>1, <1>3, NothingToExplain, AloneBegin DEF Revoke
<1>4. CASE RemoveLicense(s, c)
  <2>1. Knows(license, db)
    BY <1>4, NewKnows DEF RemoveLicense, Revoking
  <2> QED
    BY <2>1, <1>1, <1>4, NothingToExplain, AloneBegin DEF RemoveLicense
<1> QED
  BY <1>2, <1>3, <1>4

\* Requests that save at once: no certificate becomes active, or loses what it was before issue.
LEMMA AloneSaveAndBegin ==
  ASSUME TypeOK, Alone, NEW s \in Slots, NEW d, NEW k, Begin(s, k), db' = d, UNCHANGED Counted,
         Knows(k, d),
         \A c \in Certs : db.cert[c] \notin {"none", "active"} =>
                             d.cert[c] \notin {"none", "active"}
  PROVE  Alone'
<1>1. turn = 0 /\ Counted \subseteq Certs
  BY DEF Begin, TypeOK, Counted
<1>2. \A c \in Counted : db.cert[c] \notin {"none", "active"}
  <2>1. \A c \in Counted : ~Undoing(NoJob, c)
    BY DEF Undoing, NoJob, NewJob, Revoking
  <2> QED
    BY <2>1, <1>1 DEF Alone, Explained
<1>3. Explained(Counted', db', k)
  BY <1>1, <1>2 DEF Explained
<1> QED
  BY <1>3, AloneBegin

LEMMA AloneAccess ==
  ASSUME TypeOK, Alone, NEW s \in Slots, NEW x \in Devices,
         Authorize(s, x) \/ Block(s, x) \/ Restore(s, x)
  PROVE  Alone'
<1> DEFINE j == NewJob("access", "compare", 0, 0, Empty)
<1>1. db \in Registry
  BY Parts DEF StoreOK
<1>2. PICK d : Change(s, d) /\ d.cert = db.cert
  <2>1. /\ [db EXCEPT !.enabled[x] = TRUE].cert = db.cert
        /\ [db EXCEPT !.enabled[x] = FALSE].cert = db.cert
        /\ [db EXCEPT !.status[x] = "active", !.enabled[x] = FALSE].cert = db.cert
    BY <1>1 DEF Registry
  <2> QED
    BY <2>1 DEF Authorize, Block, Restore
<1>3. j \in Job /\ j.op = "access"
  BY EmptyType, NewJobType DEF Ops, Pcs, JobOK, NewJob
<1>4. Begin(s, Syncing(j, d, TRUE, TRUE)) /\ db' = d /\ UNCHANGED Counted
  BY <1>2 DEF Change, Untouched, ca, Counted
<1> HIDE DEF j
<1>5. Knows(Syncing(j, d, TRUE, TRUE), d)
  BY <1>3, SyncKnows
<1> QED
  BY <1>2, <1>4, <1>5, AloneSaveAndBegin

LEMMA AloneArchive ==
  ASSUME TypeOK, Alone, NEW s \in Slots, NEW x \in Devices, Archive(s, x)
  PROVE  Alone'
<1> DEFINE d == [status |-> [db.status EXCEPT ![x] = "archived"],
                 enabled |-> [db.enabled EXCEPT ![x] = FALSE],
                 cert |-> [c \in Certs |-> IF c \in Listed(db, x, {"active"}) THEN "blocked"
                                           ELSE db.cert[c]]]
           new == NewJob("archive", "compare", x, 0, d)
           todo == Listed(d, x, {"blocked", "retired"})
           j == [new EXCEPT !.todo = todo, !.again = TRUE]
<1>1. db \in Registry
  BY Parts DEF StoreOK
<1>2. d \in Registry
  BY <1>1 DEF Registry, CertStates
<1>3. Begin(s, Syncing(j, d, TRUE, TRUE)) /\ db' = d /\ UNCHANGED Counted
  BY DEF Archive, Untouched, ca, Counted
<1>4. \A c \in Certs : d.cert[c] = IF c \in Listed(db, x, {"active"}) THEN "blocked"
                                   ELSE db.cert[c]
  OBVIOUS
<1> HIDE DEF d
<1>5. todo \in SUBSET Certs /\ \A c \in todo : d.cert[c] \in {"blocked", "retired"}
  BY DEF Listed
<1> HIDE DEF todo
<1>6. new \in Job
  BY <1>2, NewJobType DEF Ops, Pcs, JobOK
<1>7. j \in Job /\ j.todo = todo
  <2> HIDE DEF new
  <2> QED
    BY <1>5, <1>6 DEF Job
<1> HIDE DEF j
<1>8. Knows(Syncing(j, d, TRUE, TRUE), d)
  BY <1>5, <1>7, SyncKnows
<1> QED
  BY <1>3, <1>4, <1>8, AloneSaveAndBegin

LEMMA AloneDelete ==
  ASSUME TypeOK, Alone, NEW s \in Slots, NEW x \in Devices, NEW op \in Removals,
         DeleteAs(op, s, x, db)
  PROVE  Alone'
<1> DEFINE new == NewJob(op, "index", x, 0, db)
           todo == Listed(db, x, {"active"})
           j == [new EXCEPT !.todo = todo, !.defer = op = "delete"]
           d == Buried(db, x)
<1>1. db \in Registry
  BY Parts DEF StoreOK
<1>2. UNCHANGED Counted /\
      IF j.todo = {}
      THEN Begin(s, Syncing(j, d, TRUE, j.defer)) /\ db' = d
      ELSE Begin(s, j) /\ UNCHANGED db
  BY DEF DeleteAs, Untouched, ca, Counted
<1>3. \A c \in Certs : d.cert[c] \in {db.cert[c], "gone"}
  BY DEF Buried
<1> HIDE DEF d
<1>4. todo \in SUBSET Certs /\ \A c \in todo : db.cert[c] = "active" /\ Holder[c] = x
  BY DEF Listed
<1>5. /\ new \in Job /\ new.op = op /\ new.pc = "index" /\ new.device = x /\ new.doc = db
      /\ ~new.again
  BY <1>1 DEF NewJob, Job, Ops, Pcs, Removals
<1> HIDE DEF todo, new
<1>6. (op = "delete") \in BOOLEAN
  OBVIOUS
<1>7. /\ j \in Job /\ j.op = op /\ j.pc = "index" /\ j.device = x /\ j.doc = db
      /\ j.todo = todo
  BY <1>4, <1>5, <1>6 DEF Job
<1> HIDE DEF j
<1>8. CASE j.todo = {}
  <2>1. Knows(Syncing(j, d, TRUE, j.defer), d)
    BY <1>7, <1>8, SyncKnows
  <2> QED
    BY <2>1, <1>2, <1>3, <1>8, AloneSaveAndBegin
<1>9. CASE j.todo # {}
  <2>1. Knows(j, db)
    BY <1>4, <1>7, <1>9 DEF Knows, FreshDoc, Signing, Targets, Loops, Removals
  <2> QED
    BY <2>1, <1>2, <1>9, AloneSaveAndBegin
<1> QED
  BY <1>8, <1>9

LEMMA AloneRegister ==
  ASSUME TypeOK, Alone, NEW x \in Devices, Register(x)
  PROVE  Alone'
<1>1. turn = 0 /\ UNCHANGED <<jobs, turn, Counted>> /\ db'.cert = db.cert
  BY Parts DEF StoreOK, Registry, Register, Untouched, queue, ca, Counted
<1>2. Explained(Counted, db', NoJob)
  BY <1>1 DEF Alone, Explained
<1> QED
  BY <1>1, <1>2 DEF Alone

-----------------------------------------------------------------------------
LEMMA AloneNext ==
  ASSUME TypeOK, Alone, Next, ~abandoned'
  PROVE  Alone'
<1>1. CASE SupervisorStep \/ \E c \in Expiring : Expire(c)
  <2>1. UNCHANGED <<jobs, turn, db, Counted>>
    BY <1>1 DEF SupervisorStep, SupervisorStart, MosquittoLoads, SupervisorRecord,
                SupervisorNotices, Stopped, Expire, Elsewhere, store, ca, queue, Counted
  <2> QED
    BY <2>1, AloneKeep
<1>2. CASE AdminDies \/ MosquittoEnds
  <2>1. mishaps' = mishaps + 1 /\ mishaps \in Nat
    BY <1>2, PolicyAssumption DEF AdminDies, MosquittoEnds, TypeOK, PolicyAssumption
  <2>2. Counted' = {}
    BY <2>1 DEF Counted
  <2>3. CASE AdminDies
    BY <2>2, <2>3 DEF AdminDies, Alone, Explained, NoJob, NewJob
  <2>4. CASE MosquittoEnds
    <3>1. UNCHANGED <<jobs, turn, db>>
      BY <2>4 DEF MosquittoEnds, Stopped, Elsewhere, store, queue
    <3> QED
      BY <3>1, <2>2 DEF Alone, Explained
  <2> QED
    BY <1>2, <2>3, <2>4
<1>3. ASSUME NEW s \in Slots, Request(s) PROVE Alone'
  BY <1>3, AloneAccess, AloneArchive, AloneDelete, AloneCertRequest, AloneTimer
  DEF Request, Delete, Purge, Removals
<1>4. ASSUME NEW s \in Slots, RefreshPki(s) PROVE Alone'
  BY <1>4, AloneTimer
<1>5. ASSUME NEW s \in Slots, JobStep(s) PROVE Alone'
  BY <1>5, AloneSyncStep, AloneRevokeInIndex, AloneCrlStep, AloneSign DEF JobStep
<1>6. ASSUME NEW x \in Devices, Register(x) PROVE Alone'
  BY <1>6, AloneRegister
<1>7. ~\E s \in Slots : Disconnect(s)
  BY DEF Disconnect
<1> QED
  BY <1>1, <1>2, <1>3, <1>4, <1>5, <1>6, <1>7 DEF Next

\* A client that left is remembered, and counted as a mishap.
LEMMA AbandonedStays ==
  ASSUME TypeOK, Next
  PROVE  /\ abandoned => abandoned'
         /\ (mishaps = 0 => ~abandoned) => (mishaps = 0 => ~abandoned)'
<1>1. CASE AdminDies \/ MosquittoEnds \/ \E s \in Slots : Disconnect(s)
  <2>1. mishaps' = mishaps + 1 /\ mishaps \in Nat
    BY <1>1, PolicyAssumption
    DEF AdminDies, MosquittoEnds, Disconnect, TypeOK, PolicyAssumption
  <2> QED
    BY <1>1, <2>1 DEF AdminDies, MosquittoEnds, Stopped, Elsewhere, ghosts, Disconnect, TypeOK
<1>2. CASE SupervisorStep \/ (\E c \in Expiring : Expire(c)) \/ \E x \in Devices : Register(x)
  BY <1>2 DEF SupervisorStep, SupervisorStart, MosquittoLoads, SupervisorRecord,
              SupervisorNotices, Stopped, Expire, Register, Untouched, Elsewhere, ghosts
<1>3. ASSUME NEW s \in Slots, JobStep(s) PROVE UNCHANGED <<mishaps, abandoned>>
  BY <1>3 DEF JobStep, Compare, WriteAcl, WritePolicy, Submit, SubmitPending, ClearPending,
              RevokeInIndex, GenerateCrl, PublishCrl, Sign, LookUpCrl, Untouched, ghosts
<1>4. ASSUME NEW s \in Slots, Request(s) \/ RefreshPki(s)
      PROVE  UNCHANGED <<mishaps, abandoned>>
  <2>1. UNCHANGED Untouched
    BY <1>4 DEF Request, RefreshPki, Authorize, Block, Restore, Archive, Delete, Purge,
                DeleteAs, Change, Issue, Revoke, RemoveLicense, Apply, RefreshAcl
  <2> QED
    BY <2>1 DEF Untouched, ghosts
<1> QED
  BY <1>1, <1>2, <1>3, <1>4 DEF Next

\* While no client leaves, one job runs at a time; a client that leaves is a mishap.
Orderly ==
    /\ ~abandoned => Alone
    /\ mishaps = 0 => ~abandoned

LEMMA OrderlyAlways == Spec => []Orderly
<1>1. Init => Orderly
  BY DEF Init, Orderly, Alone, Explained, NoJob, NewJob, Counted
<1>2. TypeOK /\ Orderly /\ [Next]_vars => Orderly'
  <2> SUFFICES ASSUME TypeOK, Orderly, [Next]_vars
               PROVE  Orderly'
    OBVIOUS
  <2>1. CASE UNCHANGED vars
    <3>1. UNCHANGED <<jobs, turn, db, Counted, abandoned, mishaps>>
      BY <2>1 DEF vars, store, ca, queue, ghosts, Counted
    <3> QED
      BY <3>1, AloneKeep DEF Orderly
  <2>2. CASE Next
    BY <2>2, AbandonedStays, AloneNext DEF Orderly
  <2> QED
    BY <2>1, <2>2
<1> QED
  BY <1>1, <1>2, PolicyTypeCorrect, PTL DEF Spec

\* As long as the queue kept one job at a time (no client left, nothing died), the registry and
\* openssl's index agree whenever no job is at work, whichever openssl command failed: no
\* certificate the CA has revoked stays active (routes/certificate-routes.js:148, 301-307).
THEOREM RegistryFollowsIndex == Spec => []RegistryAgreesWithIndex
<1>1. TypeOK /\ Orderly => RegistryAgreesWithIndex
  <2> SUFFICES ASSUME TypeOK, Orderly, Idle, mishaps = 0, NEW c \in index
               PROVE  db.cert[c] # "active"
    BY DEF RegistryAgreesWithIndex
  <2>1. \A s \in Slots : ~Undoing(jobs[s], c)
    BY DEF Idle, Undoing, Removals
  <2>2. ~Undoing(NoJob, c)
    BY DEF NoJob, NewJob, Undoing, Revoking
  <2>3. c \in Counted /\ Alone
    BY DEF Orderly, Counted
  <2> QED
    BY <2>1, <2>2, <2>3 DEF Alone, Explained, TypeOK
<1> QED
  BY <1>1, OrderlyAlways, PolicyTypeCorrect, PTL

-----------------------------------------------------------------------------
(* What the running broker has read.  Acting is the one job that runs; the *)
(* invariant Delivered says of it which file is ahead of which, so that    *)
(* when it has ended nothing is ahead of the broker any more.              *)

Acting == IF turn = 0 THEN NoJob ELSE jobs[turn]

AllowedAt(d, e) ==
    {x \in Devices : /\ d.enabled[x] /\ d.status[x] = "active"
                     /\ \E c \in Certs : d.cert[c] = "active" /\ c \notin e /\ Holder[c] = x}

\* An acl that admits what a registry allows, and no device that is blocked.
Fits(d, e, a) ==
    /\ AllowedAt(d, e) \subseteq a
    /\ a \subseteq {x \in Devices : d.status[x] = "active" /\ d.enabled[x]}

\* A job that has changed a broker file, or is about to, and will submit a revision.
Submitting(j) ==
    \/ j.pc \in {"acl", "policy", "submit"}
    \/ j.pc = "compare" /\ j.force
    \/ j.op \in Removals /\ j.pc \in {"index", "gencrl", "publish"}

\* The broker's files are what mosquitto has read.
Read ==
    /\ interrupted \/ (loaded.acl = acl /\ loaded.crl = crl)
    /\ mishaps = 0 => crl \subseteq loaded.crl \cup failed

\* Files that mosquitto has not read are announced by a revision, or will be.
Announced ==
    supRev /\ sup \in {"loaded", "running"} =>
        \/ pending = "staged" /\ Acting.pc # "clear"
        \/ Submitting(Acting)
        \/ Read

\* The acl fits the registry, or the job that makes it fit is at work.
AclFits ==
    /\ Acting.pc \in {"compare", "acl"} => Fits(db, expired, Acting.want)
    /\ Acting.pc \in {"policy", "submit"} => Fits(db, expired, acl)
    /\ interrupted \/ Acting.pc \in {"compare", "acl"} \/ Fits(db, expired, acl)

EnabledActive(d) == \A x \in Devices : d.enabled[x] => d.status[x] = "active"

\* Archiving has staged a revision before it revokes; an owner's job knows its device.
Staged ==
    /\ Acting.op = "none" => Acting.pc = "idle"
    /\ Acting.op = "archive" =>
        /\ \/ Acting.pc \in {"compare", "acl", "policy", "submit"} /\ Acting.force /\ Acting.defer
           \/ Acting.pc \in {"index", "gencrl", "publish"} /\ pending = "staged"
    /\ Acting.op \in {"revoke", "license"} =>
           Acting.cert \in Certs /\ Acting.device = Holder[Acting.cert]

RevokedCerts(d) == {c \in Certs : d.cert[c] \in {"revoked", "retired"}}

\* The certificate whose revocation has reached the index and not the CRL.
InFlight(j) == IF j.pc = "gencrl" /\ j.op # "timer" THEN {Target(j)} ELSE {}

\* Index, CRL and the broker's copy differ by the revocation at work and by what failed.
CrlFollows ==
    /\ caCrl \subseteq index
    /\ Acting.pc = "gencrl" /\ Acting.op # "timer" => Target(Acting) \in index
    /\ Acting.pc = "publish" /\ Acting.op # "timer" => Target(Acting) \in caCrl
    /\ mishaps = 0 =>
        /\ Acting.pc # "publish" => caCrl = crl
        /\ Acting.pc = "publish" /\ Acting.op = "timer" => caCrl \subseteq crl \cup failed
        /\ index \subseteq caCrl \cup failed \cup InFlight(Acting)
        /\ RevokedCerts(db) \subseteq caCrl \cup failed

Acknowledges == applied /\ sup = "running" => supRev

Delivered ==
    Announced /\ AclFits /\ EnabledActive(db) /\ Staged /\ CrlFollows /\ Acknowledges

-----------------------------------------------------------------------------
(* Helpers: the acting job, and what its steps keep of it. *)

LEMMA ActingIs ==
  ASSUME TypeOK, Alone, NEW s \in Slots, jobs[s].pc # "idle"
  PROVE  Acting = jobs[s]
<1>1. turn = s /\ s # 0
  BY Mover, PolicyAssumption DEF PolicyAssumption
<1> QED
  BY <1>1 DEF Acting

LEMMA ActingGoTo ==
  ASSUME TypeOK, Alone, NEW s \in Slots, jobs[s].pc # "idle", NEW k, GoTo(s, k)
  PROVE  Acting = jobs[s] /\ Acting' = k
<1>1. turn = s /\ turn' = s /\ s # 0
  BY Mover, PolicyAssumption DEF PolicyAssumption, GoTo
<1> QED
  BY <1>1 DEF TypeOK, GoTo, Acting

LEMMA ActingFinish ==
  ASSUME TypeOK, Alone, NEW s \in Slots, jobs[s].pc # "idle", Finish(s)
  PROVE  Acting = jobs[s] /\ Acting' = NoJob
<1>1. turn = s /\ turn' = 0 /\ s # 0
  BY Mover, PolicyAssumption DEF PolicyAssumption, Finish
<1> QED
  BY <1>1 DEF Acting, NoJob, NewJob, Empty

LEMMA ActingBegin ==
  ASSUME TypeOK, NEW s \in Slots, NEW k, Begin(s, k)
  PROVE  Acting = NoJob /\ Acting' = k
  BY PolicyAssumption DEF PolicyAssumption, TypeOK, Begin, Acting

LEMMA ActingKeep ==
  ASSUME UNCHANGED <<jobs, turn>>
  PROVE  Acting' = Acting
  BY DEF Acting, NoJob, NewJob, Empty

LEMMA NoJobIs ==
  NoJob.pc = "idle" /\ NoJob.op = "none"
  BY DEF NoJob, NewJob

\* The fields of a job that has only moved on.
LEMMA Advanced ==
  ASSUME NEW j \in Job, NEW p, NEW k, k = [j EXCEPT !.pc = p]
  PROVE  /\ k.pc = p /\ k.op = j.op /\ k.cert = j.cert /\ k.device = j.device
         /\ k.todo = j.todo /\ k.want = j.want /\ k.force = j.force /\ k.defer = j.defer
         /\ Target(k) = Target(j)
  BY DEF Job, Target

\* The fields of a job that begins to sync.
LEMMA SyncingIs ==
  ASSUME NEW j \in Job, NEW d, NEW f, NEW e
  PROVE  /\ Syncing(j, d, f, e).pc = "compare" /\ Syncing(j, d, f, e).op = j.op
         /\ Syncing(j, d, f, e).cert = j.cert /\ Syncing(j, d, f, e).device = j.device
         /\ Syncing(j, d, f, e).want = AllowedAt(d, expired)
         /\ Syncing(j, d, f, e).force = f /\ Syncing(j, d, f, e).defer = e
<1>1. Allowed(d) = AllowedAt(d, expired)
  BY DEF Allowed, AllowedAt, Usable, Trusted
<1> HIDE DEF AllowedAt
<1> QED
  BY <1>1 DEF Syncing, Job

LEMMA FitsItself ==
  ASSUME NEW d, NEW e
  PROVE  Fits(d, e, AllowedAt(d, e))
  BY DEF Fits, AllowedAt

\* Fewer certificates in force and the same devices: the acl still fits.
LEMMA FitsFewer ==
  ASSUME NEW d, NEW e, NEW b, NEW f, NEW a, Fits(d, e, a),
         \A x \in Devices : b.enabled[x] = d.enabled[x] /\ b.status[x] = d.status[x],
         \A c \in Certs : b.cert[c] = "active" /\ c \notin f => d.cert[c] = "active" /\ c \notin e
  PROVE  Fits(b, f, a)
  BY DEF Fits, AllowedAt

-----------------------------------------------------------------------------
(* The steps of syncBroker. *)

\* A save followed by a forced sync: the new files will be announced.
LEMMA DeliveredSyncing ==
  ASSUME TypeOK, Delivered, NEW j \in Job, NEW d \in Registry, NEW f \in BOOLEAN, NEW e \in BOOLEAN,
         Acting' = Syncing(j, d, f, e), db' = d, EnabledActive(d),
         f \/ (Announced /\ ~Submitting(Acting) /\ Acting.pc # "clear"
               /\ UNCHANGED <<crl, interrupted, failed, pending>>),
         j.op = "archive" => f /\ e, j.op # "none",
         j.op \in {"revoke", "license"} => j.cert \in Certs /\ j.device = Holder[j.cert],
         caCrl' \subseteq index', mishaps = 0 =>
             /\ caCrl' = crl' /\ index' \subseteq caCrl' \cup failed'
             /\ RevokedCerts(d) \subseteq caCrl' \cup failed',
         UNCHANGED <<acl, expired, applied, supRev, sup, loaded, mishaps>>
  PROVE  Delivered'
<1> DEFINE k == Syncing(j, d, f, e)
<1>1. /\ k.pc = "compare" /\ k.op = j.op /\ k.cert = j.cert /\ k.device = j.device
      /\ k.want = AllowedAt(d, expired) /\ k.force = f /\ k.defer = e
  BY SyncingIs
<1>2. Acting' = k
  OBVIOUS
<1> HIDE DEF k
<1>3. Announced'
  BY <1>1, <1>2 DEF Announced, Read, Submitting
<1>4. AclFits'
  BY <1>1, <1>2, FitsItself DEF AclFits
<1>5. Staged'
  BY <1>1, <1>2 DEF Staged
<1>6. InFlight(k) = {}
  BY <1>1 DEF InFlight
<1>7. CrlFollows'
  BY <1>1, <1>2, <1>6 DEF CrlFollows
<1> QED
  BY <1>3, <1>4, <1>5, <1>7 DEF Delivered, Acknowledges

\* A job ends that leaves no file ahead.
LEMMA DeliveredFinish ==
  ASSUME TypeOK, Delivered, Acting' = NoJob,
         UNCHANGED <<store, index, caCrl, acl, applied, supRev, sup, loaded, mishaps>>,
         supRev /\ sup \in {"loaded", "running"} => pending' = "staged" \/ Read',
         interrupted' \/ Fits(db, expired, acl),
         failed \subseteq failed',
         mishaps = 0 => caCrl = crl' /\ index \subseteq caCrl \cup failed'
  PROVE  Delivered'
<1>1. Announced'
  BY NoJobIs DEF Announced
<1>2. AclFits'
  BY NoJobIs DEF AclFits, store
<1>3. Staged'
  BY NoJobIs DEF Staged
<1>4. CrlFollows'
  BY NoJobIs DEF CrlFollows, InFlight, store, Delivered
<1> QED
  BY <1>1, <1>2, <1>3, <1>4 DEF Delivered, Acknowledges, store

LEMMA DeliveredCompare ==
  ASSUME TypeOK, Alone, Delivered, NEW s \in Slots, Compare(s)
  PROVE  Delivered'
<1> DEFINE j == jobs[s]
           k == [j EXCEPT !.pc = "acl"]
<1>1. j.pc = "compare" /\ j.pc # "idle" /\ UNCHANGED <<store, ca, files, revisions, supervisor,
                                                       mishaps, ghosts>>
  BY DEF Compare
<1>2. j \in Job /\ JobOK(j)
  BY <1>1, Mover
<1>3. CASE GoTo(s, k)
  <2>1. Acting = j /\ Acting' = k
    BY <1>1, <1>3, ActingGoTo
  <2>2. /\ k.pc = "acl" /\ k.op = j.op /\ k.cert = j.cert /\ k.device = j.device
        /\ k.want = j.want /\ k.force = j.force /\ k.defer = j.defer
    BY <1>2, Advanced
  <2> HIDE DEF k, j
  <2>3. Announced'
    BY <2>1, <2>2 DEF Announced, Submitting
  <2>4. AclFits' /\ Staged'
    BY <1>1, <2>1, <2>2 DEF Delivered, AclFits, Staged, store, revisions, files
  <2>5. CrlFollows'
    BY <1>1, <2>1, <2>2
    DEF Delivered, CrlFollows, InFlight, ca, files, store, ghosts
  <2> QED
    BY <1>1, <2>3, <2>4, <2>5 DEF Delivered, Acknowledges, store, revisions, supervisor
<1>4. CASE ~j.force /\ j.want = acl /\ Synced(s)
  <2>1. ~j.again
    <3>1. j.again => Acting = j
      BY <1>1, <1>4, ActingGoTo DEF Synced
    <3> QED
      BY <1>1, <1>2, <1>4, <3>1 DEF JobOK, HasTarget, Delivered, Staged
  <2>2. Acting = j /\ Acting' = NoJob
    BY <1>1, <1>4, <2>1, ActingFinish DEF Synced
  <2> HIDE DEF j
  <2>3. ~Submitting(j)
    BY <1>1, <1>4 DEF Submitting
  <2>4. Fits(db, expired, acl)
    BY <1>1, <1>4, <2>2 DEF Delivered, AclFits
  <2> QED
    <3>1. supRev /\ sup \in {"loaded", "running"} => pending' = "staged" \/ Read'
      BY <1>1, <2>2, <2>3
      DEF Delivered, Announced, Read, files, revisions, supervisor, ghosts
    <3>2. mishaps = 0 => caCrl = crl' /\ index \subseteq caCrl \cup failed'
      BY <1>1, <2>2 DEF Delivered, CrlFollows, InFlight, files, ghosts
    <3> QED
      BY <1>1, <2>2, <2>4, <3>1, <3>2, DeliveredFinish
      DEF ca, files, revisions, supervisor, ghosts
<1> QED
  BY <1>3, <1>4 DEF Compare

LEMMA DeliveredWrite ==
  ASSUME TypeOK, Alone, Delivered, NEW s \in Slots, WriteAcl(s) \/ WritePolicy(s)
  PROVE  Delivered'
<1> DEFINE j == jobs[s]
<1>1. j.pc \in {"acl", "policy"} /\ j.pc # "idle"
  BY DEF WriteAcl, WritePolicy
<1>2. j \in Job
  BY <1>1, Mover
<1>3. PICK p \in {"policy", "submit"} : GoTo(s, [j EXCEPT !.pc = p])
  BY DEF WriteAcl, WritePolicy
<1> DEFINE k == [j EXCEPT !.pc = p]
<1>4. Acting = j /\ Acting' = k
  BY <1>1, <1>3, ActingGoTo
<1>5. /\ k.pc = p /\ k.op = j.op /\ k.cert = j.cert /\ k.device = j.device
      /\ k.want = j.want /\ k.force = j.force /\ k.defer = j.defer
  BY <1>2, Advanced
<1>6. UNCHANGED <<store, ca, crl, revisions, supervisor, mishaps, ghosts>>
  BY DEF WriteAcl, WritePolicy
<1>7. (j.pc = "acl" /\ acl' = j.want) \/ (j.pc = "policy" /\ acl' = acl)
  BY DEF WriteAcl, WritePolicy
<1> HIDE DEF k, j
<1>8. Announced'
  BY <1>4, <1>5 DEF Announced, Submitting
<1>9. AclFits' /\ Staged'
  BY <1>1, <1>4, <1>5, <1>6, <1>7 DEF Delivered, AclFits, Staged, store, revisions
<1>10. CrlFollows'
  BY <1>1, <1>4, <1>5, <1>6 DEF Delivered, CrlFollows, InFlight, ca, store, ghosts
<1> QED
  BY <1>6, <1>8, <1>9, <1>10 DEF Delivered, Acknowledges, store, revisions, supervisor

\* After a submission: nothing is ahead of the broker, or a staged revision says so.
LEMMA DeliveredSynced ==
  ASSUME TypeOK, Alone, Delivered, NEW s \in Slots, jobs[s].pc \in {"submit", "clear"}, Synced(s),
         UNCHANGED <<store, ca, files, applied, supRev, supervisor, mishaps, abandoned, failed>>,
         jobs[s].pc = "submit" => pending' = "staged" /\ interrupted' = FALSE,
         jobs[s].pc = "clear" => pending' = "none" /\ UNCHANGED interrupted
  PROVE  Delivered'
<1> DEFINE j == jobs[s]
<1>1. j \in Job /\ JobOK(j)
  BY Mover
<1>2. \A k : GoTo(s, k) => Acting = j /\ Acting' = k
  BY ActingGoTo
<1>3. EnabledActive(db) /\ db \in Registry
  BY Parts DEF Delivered, StoreOK
<1>4. CASE ~j.again
  <2>1. Acting = j /\ Acting' = NoJob
    BY <1>4, ActingFinish DEF Synced
  <2> HIDE DEF j
  <2>2. j.pc \in {"submit", "clear"}
    BY DEF j
  <2>3. supRev /\ sup \in {"loaded", "running"} => pending' = "staged" \/ Read'
    BY <2>1, <2>2 DEF Delivered, Announced, Read, Submitting, files, supervisor, j
  <2>4. interrupted' \/ Fits(db, expired, acl)
    BY <2>1, <2>2 DEF Delivered, AclFits, j
  <2>5. mishaps = 0 => caCrl = crl' /\ index \subseteq caCrl \cup failed'
    BY <2>1, <2>2 DEF Delivered, CrlFollows, InFlight, files
  <2> QED
    BY <2>1, <2>3, <2>4, <2>5, DeliveredFinish DEF ca, files, supervisor
<1>5. CASE j.again /\ j.todo = {}
  <2> DEFINE l == [j EXCEPT !.again = FALSE]
             k == Syncing(l, db, TRUE, TRUE)
  <2>1. l \in Job /\ l.op = j.op /\ l.cert = j.cert /\ l.device = j.device
    BY <1>1 DEF Job
  <2>2. GoTo(s, k)
    BY <1>5 DEF Synced
  <2>3. Acting = j /\ Acting' = k
    BY <1>2, <2>2
  <2> HIDE DEF l, j
  <2>4. j.op = "archive" /\ j.pc \in {"submit", "clear"}
    BY <1>1, <1>5 DEF JobOK, HasTarget, j
  <2>5. caCrl \subseteq index /\ (mishaps = 0 =>
             /\ caCrl = crl /\ index \subseteq caCrl \cup failed
             /\ RevokedCerts(db) \subseteq caCrl \cup failed)
    BY <2>3, <2>4 DEF Delivered, CrlFollows, InFlight
  <2> QED
    BY <2>1, <2>3, <2>4, <2>5, <1>3, DeliveredSyncing DEF store, ca, files, supervisor
<1>6. CASE j.again /\ j.todo # {}
  <2> DEFINE k == [j EXCEPT !.pc = "index"]
  <2>1. GoTo(s, k)
    BY <1>6 DEF Synced
  <2>2. Acting = j /\ Acting' = k
    BY <1>2, <2>1
  <2>3. /\ k.pc = "index" /\ k.op = j.op /\ k.cert = j.cert /\ k.device = j.device
    BY <1>1, Advanced
  <2>4. j.op = "archive" /\ j.pc \in {"submit", "clear"}
    BY <1>1, <1>6 DEF JobOK, HasTarget
  <2> HIDE DEF k, j
  <2>5. j.pc = "submit" /\ pending' = "staged" /\ ~interrupted'
    BY <2>2, <2>4 DEF Delivered, Staged, j
  <2>6. Announced' /\ Staged' /\ AclFits'
    BY <2>2, <2>3, <2>4, <2>5 DEF Announced, Staged, AclFits, Delivered, store, files
  <2>7. CrlFollows'
    BY <2>2, <2>3, <2>5 DEF Delivered, CrlFollows, InFlight, store, ca, files
  <2> QED
    BY <2>6, <2>7 DEF Delivered, Acknowledges, store, supervisor
<1> QED
  BY <1>4, <1>5, <1>6

\* The broker is behind, or has read everything.
LEMMA DeliveredSubmit ==
  ASSUME TypeOK, Alone, Delivered, NEW s \in Slots,
         Submit(s) \/ SubmitPending(s) \/ ClearPending(s)
  PROVE  Delivered'
<1> DEFINE j == jobs[s]
           k == [j EXCEPT !.pc = "clear"]
<1>1. CASE ClearPending(s)
  BY <1>1, DeliveredSynced DEF ClearPending, ghosts
<1>2. CASE Submit(s) /\ j.defer
  <2>1. j.pc = "submit" /\ pending' = "staged" /\ interrupted' = FALSE /\ Synced(s)
        /\ UNCHANGED <<store, ca, files, applied, supRev, supervisor, mishaps, abandoned, failed>>
    BY <1>2 DEF Submit
  <2> QED
    BY <2>1, DeliveredSynced
<1>3. CASE GoTo(s, k) /\ (SubmitPending(s) \/ (Submit(s) /\ ~j.defer))
  <2>1. j.pc \in {"submit", "pending"} /\ j.pc # "idle"
        /\ UNCHANGED <<store, ca, files, supervisor, mishaps, failed>>
    BY <1>3 DEF Submit, SubmitPending, ghosts
  <2>2. Acting = j /\ Acting' = k /\ j \in Job
    BY <2>1, <1>3, ActingGoTo, Mover
  <2>3. /\ k.pc = "clear" /\ k.op = j.op /\ k.cert = j.cert /\ k.device = j.device
    BY <2>2, Advanced
  <2>4. \/ supRev' = FALSE /\ applied' = FALSE
        \/ j.pc = "pending" /\ pending = "current" /\ UNCHANGED <<revisions, interrupted>>
    BY <1>3 DEF Submit, SubmitPending, NewRevision, ghosts
  <2>5. j.pc = "submit" \/ UNCHANGED interrupted
    BY <1>3 DEF Submit, SubmitPending, ghosts
  <2>6. j.pc = "submit" => ~j.defer
    BY <1>3 DEF SubmitPending
  <2> HIDE DEF k, j
  <2>7. Announced'
    BY <2>1, <2>2, <2>3, <2>4
    DEF Delivered, Announced, Read, Submitting, revisions, files, supervisor
  <2>8. AclFits'
    BY <2>1, <2>2, <2>3, <2>5 DEF Delivered, AclFits, store, files
  <2>9. Staged'
    BY <2>1, <2>2, <2>3, <2>6 DEF Delivered, Staged
  <2>10. CrlFollows'
    BY <2>1, <2>2, <2>3 DEF Delivered, CrlFollows, InFlight, store, ca, files
  <2>11. Acknowledges'
    BY <2>1, <2>4 DEF Delivered, Acknowledges, revisions, supervisor
  <2> QED
    BY <2>1, <2>7, <2>8, <2>9, <2>10, <2>11 DEF Delivered, store
<1> QED
  BY <1>1, <1>2, <1>3 DEF Submit, SubmitPending

-----------------------------------------------------------------------------
(* The steps of a revocation.  Outcome(s, ok) is what they know when they  *)
(* hand its outcome to the handler.                                        *)

Outcome(s, ok) ==
    /\ jobs[s].pc \in Revoking /\ jobs[s].op # "timer" /\ Revoked(s, ok)
    /\ UNCHANGED <<ca, acl, revisions, supervisor, mishaps, interrupted, abandoned>>
    /\ failed \subseteq failed'
    /\ crl' = crl \/ (ok /\ jobs[s].pc = "publish")
    /\ mishaps = 0 =>
           crl' = caCrl /\ index \subseteq caCrl \cup failed' /\ Target(jobs[s]) \in caCrl \cup failed'

LEMMA DeliveredByOwner ==
  ASSUME TypeOK, Alone, Delivered, NEW s \in Slots, NEW ok \in BOOLEAN, Outcome(s, ok),
         RevokedByOwner(s, ok)
  PROVE  Delivered'
<1> DEFINE j == jobs[s]
           b == j.doc.enabled[j.device] /\ j.op = "license" /\ ok
           d == [j.doc EXCEPT !.cert[j.cert] = AsRevoked(@), !.enabled[j.device] = b]
<1>1. /\ Knows(j, db) /\ j \in Job /\ db \in Registry /\ j.pc # "idle"
  BY Mover DEF Outcome, Revoking
<1>2. j.op \in {"revoke", "license"} /\ db' = d /\ GoTo(s, Syncing(j, d, TRUE, TRUE))
  BY DEF RevokedByOwner, SaveAndSync
<1>3. j.doc = db
  BY <1>1, <1>2 DEF Knows, FreshDoc, Outcome
<1>4. Acting = j /\ Acting' = Syncing(j, d, TRUE, TRUE)
  BY <1>1, <1>2, ActingGoTo
<1>5. b \in BOOLEAN
  OBVIOUS
<1>6. d \in Registry
  <2> HIDE DEF b
  <2> QED
    BY <1>1, <1>3, <1>5, RetiredType
<1>7. /\ \A x \in Devices : d.status[x] = db.status[x] /\ (d.enabled[x] => db.enabled[x])
      /\ \A c \in Certs : c # j.cert => d.cert[c] = db.cert[c]
  <2>1. b => db.enabled[j.device]
    BY <1>3
  <2> HIDE DEF b
  <2> QED
    BY <1>1, <1>3, <1>5, <2>1 DEF Registry
<1> HIDE DEF d
<1>8. EnabledActive(d)
  BY <1>7 DEF Delivered, EnabledActive
<1>9. Target(j) = j.cert
  BY <1>2 DEF Target
<1>10. mishaps = 0 => RevokedCerts(d) \subseteq caCrl \cup failed'
  BY <1>7, <1>9 DEF RevokedCerts, Delivered, CrlFollows, Outcome
<1>11. j.cert \in Certs /\ j.device = Holder[j.cert]
  BY <1>2, <1>4 DEF Delivered, Staged
<1> QED
  BY <1>1, <1>2, <1>4, <1>6, <1>8, <1>10, <1>11, DeliveredSyncing
  DEF Outcome, Revoked, Delivered, CrlFollows, ca, revisions, supervisor

LEMMA DeliveredForArchive ==
  ASSUME TypeOK, Alone, Delivered, NEW s \in Slots, NEW ok \in BOOLEAN, Outcome(s, ok),
         RevokedForArchive(s, ok)
  PROVE  Delivered'
<1> DEFINE j == jobs[s]
           x == Target(j)
           d == [j.doc EXCEPT !.cert[x] = "retired"]
           rest == j.todo \ {x}
           last == [j EXCEPT !.todo = {}, !.again = FALSE]
           next == [j EXCEPT !.pc = "index", !.todo = rest, !.doc = d]
<1>1. /\ Knows(j, db) /\ j \in Job /\ db \in Registry /\ j.pc # "idle"
  BY Mover DEF Outcome, Revoking
<1>2. j.op = "archive"
  BY DEF RevokedForArchive
<1>3. j.doc = db /\ expired' = expired
  BY <1>1, <1>2 DEF Knows, FreshDoc, Outcome, Revoked
<1>4. d \in Registry
  BY <1>1, <1>3, CertSet DEF CertStates
<1>5. /\ \A y \in Devices : d.status[y] = db.status[y] /\ d.enabled[y] = db.enabled[y]
      /\ \A c \in Certs : d.cert[c] = IF c = x THEN "retired" ELSE db.cert[c]
  <2> HIDE DEF x
  <2> QED
    BY <1>1, <1>3 DEF Registry
<1>6. Acting = j
  BY <1>1, ActingGoTo, ActingFinish DEF RevokedForArchive
<1> HIDE DEF d
<1>7. EnabledActive(d)
  BY <1>5 DEF Delivered, EnabledActive
<1>8. mishaps = 0 => RevokedCerts(d) \subseteq caCrl \cup failed'
  BY <1>5 DEF RevokedCerts, Delivered, CrlFollows, Outcome
<1>9. pending = "staged" /\ j.pc \notin {"compare", "acl", "policy", "submit", "clear"}
  BY <1>2, <1>6 DEF Delivered, Staged, Outcome, Revoking
<1>10. interrupted \/ Fits(db, expired, acl)
  BY <1>6, <1>9 DEF Delivered, AclFits
<1>11. CASE ~ok /\ Finish(s) /\ UNCHANGED db
  <2>1. Acting' = NoJob
    BY <1>1, <1>11, ActingFinish
  <2> QED
    BY <2>1, <1>3, <1>9, <1>10, <1>11, DeliveredFinish
    DEF Outcome, store, ca, revisions, supervisor
<1>12. CASE ok /\ rest = {}
  <2>1. db' = d /\ GoTo(s, Syncing(last, d, TRUE, TRUE))
    BY <1>12 DEF RevokedForArchive, d
  <2>2. last \in Job /\ last.op = j.op
    BY <1>1 DEF Job
  <2>3. Acting' = Syncing(last, d, TRUE, TRUE)
    BY <1>1, <2>1, ActingGoTo
  <2> HIDE DEF last
  <2> QED
    BY <2>1, <2>2, <2>3, <1>2, <1>3, <1>4, <1>7, <1>8, DeliveredSyncing
    DEF Outcome, Delivered, CrlFollows, ca, revisions, supervisor
<1>13. CASE ok /\ rest # {}
  <2>1. db' = d /\ GoTo(s, next)
    BY <1>13 DEF RevokedForArchive, d
  <2>2. next.pc = "index" /\ next.op = "archive"
    BY <1>1, <1>2 DEF Job
  <2>3. Acting' = next
    BY <1>1, <2>1, ActingGoTo
  <2> HIDE DEF next
  <2>4. Announced' /\ Staged'
    BY <2>2, <2>3, <1>9 DEF Announced, Staged, Outcome, revisions
  <2>5. interrupted \/ Fits(d, expired, acl)
    BY <1>5, <1>10, FitsFewer
  <2>6. AclFits'
    BY <2>1, <2>2, <2>3, <2>5, <1>3 DEF AclFits, Outcome
  <2>7. CrlFollows'
    BY <2>1, <2>2, <2>3, <1>8 DEF CrlFollows, InFlight, Delivered, Outcome, ca
  <2> QED
    BY <2>1, <2>4, <2>6, <2>7, <1>7
    DEF Delivered, Acknowledges, Outcome, revisions, supervisor
<1> QED
  BY <1>11, <1>12, <1>13 DEF RevokedForArchive, d

LEMMA DeliveredForDelete ==
  ASSUME TypeOK, Alone, Delivered, NEW s \in Slots, NEW ok \in BOOLEAN, Outcome(s, ok),
         RevokedForDelete(s)
  PROVE  Delivered'
<1> DEFINE j == jobs[s]
           rest == j.todo \ {Target(j)}
           last == [j EXCEPT !.todo = {}]
           next == [j EXCEPT !.pc = "index", !.todo = rest]
           d == Buried(j.doc, j.device)
<1>1. /\ Knows(j, db) /\ j \in Job /\ db \in Registry /\ j.pc # "idle"
  BY Mover DEF Outcome, Revoking
<1>2. j.op \in Removals
  BY DEF RevokedForDelete, Removals
<1>3. j.doc = db /\ expired' = expired
  BY <1>1, <1>2 DEF Knows, FreshDoc, Outcome, Revoked, Removals
<1>4. Acting = j
  BY <1>1, ActingGoTo DEF RevokedForDelete, SaveAndSync
<1>5. CASE rest = {}
  <2>1. SaveAndSync(s, last, d, j.defer)
    BY <1>5 DEF RevokedForDelete
  <2>2. last \in Job /\ last.op = j.op /\ j.defer \in BOOLEAN
    BY <1>1 DEF Job
  <2>3. d \in Registry
    BY <1>1, <1>3, BuriedType
  <2>4. EnabledActive(d)
    BY <1>1, <1>3 DEF Buried, Delivered, EnabledActive, Registry
  <2>5. \A c \in Certs : d.cert[c] \in {db.cert[c], "gone"}
    BY <1>3 DEF Buried
  <2>6. Acting' = Syncing(last, d, TRUE, j.defer) /\ db' = d
    BY <1>1, <2>1, ActingGoTo DEF SaveAndSync
  <2> HIDE DEF last, d
  <2>7. mishaps = 0 => RevokedCerts(d) \subseteq caCrl \cup failed'
    BY <2>5 DEF RevokedCerts, Delivered, CrlFollows, Outcome
  <2> QED
    BY <2>2, <2>3, <2>4, <2>6, <2>7, <1>2, <1>3, DeliveredSyncing
    DEF Outcome, Delivered, CrlFollows, ca, revisions, supervisor, Removals
<1>6. CASE rest # {}
  <2>1. GoTo(s, next) /\ UNCHANGED db
    BY <1>6 DEF RevokedForDelete
  <2>2. next.pc = "index" /\ next.op = j.op
    BY <1>1 DEF Job
  <2>3. Acting' = next
    BY <1>1, <2>1, ActingGoTo
  <2> HIDE DEF next
  <2>4. Announced' /\ Staged'
    BY <2>2, <2>3, <1>2 DEF Announced, Submitting, Staged, Removals
  <2>5. j.pc \notin {"compare", "acl"}
    BY DEF Outcome, Revoking
  <2>6. AclFits'
    BY <2>1, <2>2, <2>3, <2>5, <1>3, <1>4 DEF AclFits, Delivered, Outcome
  <2>7. CrlFollows'
    BY <2>1, <2>2, <2>3 DEF CrlFollows, InFlight, Delivered, Outcome, ca
  <2> QED
    BY <2>1, <2>4, <2>6, <2>7 DEF Delivered, Acknowledges, Outcome, revisions, supervisor
<1> QED
  BY <1>5, <1>6

LEMMA DeliveredOutcome ==
  ASSUME TypeOK, Alone, Delivered, NEW s \in Slots, NEW ok \in BOOLEAN, Outcome(s, ok)
  PROVE  Delivered'
  BY DeliveredByOwner, DeliveredForArchive, DeliveredForDelete DEF Outcome, Revoked

\* A revocation that goes on to the next command.
LEMMA DeliveredRevoking ==
  ASSUME TypeOK, Alone, Delivered, NEW s \in Slots, jobs[s].pc \in Revoking,
         NEW p \in {"index", "gencrl", "publish"}, GoTo(s, [jobs[s] EXCEPT !.pc = p]),
         jobs[s].op = "archive" \/ jobs[s].op \in Removals => jobs[s].pc # "listed",
         UNCHANGED <<store, files, revisions, supervisor, mishaps, ghosts>>,
         caCrl' \subseteq index',
         p = "gencrl" /\ jobs[s].op # "timer" => Target(jobs[s]) \in index',
         p = "publish" /\ jobs[s].op # "timer" => Target(jobs[s]) \in caCrl',
         mishaps = 0 =>
             /\ p # "publish" => caCrl' = crl
             /\ p = "publish" /\ jobs[s].op = "timer" => caCrl' \subseteq crl \cup failed
             /\ index' \subseteq caCrl' \cup failed \/
                   (/\ p = "gencrl" /\ jobs[s].op # "timer"
                    /\ index' \subseteq caCrl' \cup failed \cup {Target(jobs[s])})
             /\ caCrl \subseteq caCrl'
  PROVE  Delivered'
<1> DEFINE j == jobs[s]
           k == [j EXCEPT !.pc = p]
<1>1. j.pc # "idle" /\ j.pc # "clear" /\ j.pc \notin {"compare", "acl", "policy", "submit"}
  BY DEF Revoking
<1>2. Acting = j /\ Acting' = k /\ j \in Job
  BY <1>1, ActingGoTo, Mover
<1>3. /\ k.pc = p /\ k.op = j.op /\ k.cert = j.cert /\ k.device = j.device
      /\ Target(k) = Target(j)
  BY <1>2, Advanced
<1>4. j.pc \in Revoking
  OBVIOUS
<1> HIDE DEF k, j
<1>5. Submitting(j) => Submitting(k)
  BY <1>1, <1>3 DEF Submitting
<1>6. Announced'
  BY <1>1, <1>2, <1>3, <1>5
  DEF Delivered, Announced, Read, files, revisions, supervisor, ghosts
<1>7. AclFits'
  BY <1>1, <1>2, <1>3 DEF Delivered, AclFits, store, files, ghosts
<1>8. Staged'
  BY <1>1, <1>2, <1>3, <1>4 DEF Delivered, Staged, revisions, Revoking
<1>9. CrlFollows'
  <2>1. RevokedCerts(db)' = RevokedCerts(db)
    BY DEF RevokedCerts, store
  <2> QED
    BY <1>2, <1>3, <2>1 DEF Delivered, CrlFollows, InFlight, store, files, ghosts, j
<1> QED
  BY <1>6, <1>7, <1>8, <1>9 DEF Delivered, Acknowledges, store, revisions, supervisor

LEMMA DeliveredRevokeInIndex ==
  ASSUME TypeOK, Alone, Delivered, NEW s \in Slots, RevokeInIndex(s)
  PROVE  Delivered'
<1> DEFINE j == jobs[s]
           c == Target(j)
<1>1. j.pc = "index" /\ j.pc # "idle"
  BY DEF RevokeInIndex
<1>2. Knows(j, db) /\ j \in Job
  BY <1>1, Mover
<1>3. j.op # "timer"
  BY <1>1, <1>2 DEF Knows, Targets, Loops, Removals
<1>4. caCrl \subseteq index /\
      (mishaps = 0 => caCrl = crl /\ index \subseteq caCrl \cup failed)
  <2>1. Acting = j
    BY <1>1, ActingIs
  <2> QED
    BY <1>1, <2>1 DEF Delivered, CrlFollows, InFlight
<1>5. CASE /\ index' = index \cup {c}
           /\ GoTo(s, [j EXCEPT !.pc = "gencrl"])
           /\ UNCHANGED <<store, failed>>
  <2>1. UNCHANGED <<caCrl, files, revisions, supervisor, mishaps, ghosts>>
    BY <1>5 DEF RevokeInIndex, ghosts
  <2> HIDE DEF c
  <2> QED
    BY <1>1, <1>3, <1>4, <1>5, <2>1, DeliveredRevoking DEF Revoking, c
<1>6. CASE Revoked(s, FALSE) /\ failed' = failed \cup ({c} \ index) /\ UNCHANGED index
  <2>1. UNCHANGED <<caCrl, files, revisions, supervisor, mishaps, interrupted, abandoned>>
    BY DEF RevokeInIndex
  <2> HIDE DEF c
  <2>2. c \in index \cup failed'
    BY <1>6
  <2>3. Outcome(s, FALSE)
    BY <1>1, <1>3, <1>4, <1>6, <2>1, <2>2 DEF Outcome, Revoking, c, ca, files
  <2> QED
    BY <2>3, DeliveredOutcome
<1> QED
  BY <1>5, <1>6 DEF RevokeInIndex

LEMMA DeliveredGenerateCrl ==
  ASSUME TypeOK, Alone, Delivered, NEW s \in Slots, GenerateCrl(s)
  PROVE  Delivered'
<1> DEFINE j == jobs[s]
<1>1. j.pc = "gencrl" /\ j.pc # "idle"
  BY DEF GenerateCrl
<1>2. Acting = j
  BY <1>1, Mover, ActingIs
<1>3. /\ caCrl \subseteq index /\ (j.op # "timer" => Target(j) \in index)
      /\ mishaps = 0 => caCrl = crl /\ index \subseteq caCrl \cup failed \cup InFlight(j)
  BY <1>1, <1>2 DEF Delivered, CrlFollows
<1>4. CASE /\ caCrl' = index
           /\ GoTo(s, [j EXCEPT !.pc = "publish"])
           /\ UNCHANGED <<store, failed>>
  <2>1. UNCHANGED <<index, files, revisions, supervisor, mishaps, ghosts>>
    BY <1>4 DEF GenerateCrl, ghosts
  <2>2. j.op = "timer" => InFlight(j) = {}
    BY DEF InFlight
  <2> QED
    BY <1>1, <1>3, <1>4, <2>1, <2>2, DeliveredRevoking DEF Revoking
<1>5. CASE j.op = "timer" /\ Finish(s) /\ UNCHANGED <<store, failed>> /\ UNCHANGED caCrl
  <2>1. UNCHANGED <<index, files, revisions, supervisor, mishaps, interrupted, abandoned>>
    BY DEF GenerateCrl
  <2>2. Acting' = NoJob
    BY <1>1, <1>5, ActingFinish
  <2>3. supRev /\ sup \in {"loaded", "running"} => pending' = "staged" \/ Read'
    BY <1>1, <1>2, <1>5, <2>1
    DEF Delivered, Announced, Read, Submitting, Removals, files, revisions, supervisor
  <2>4. interrupted' \/ Fits(db, expired, acl)
    BY <1>1, <1>2, <2>1 DEF Delivered, AclFits
  <2>5. mishaps = 0 => caCrl = crl' /\ index \subseteq caCrl \cup failed'
    BY <1>3, <1>5, <2>1 DEF InFlight, files
  <2> QED
    BY <1>5, <2>1, <2>2, <2>3, <2>4, <2>5, DeliveredFinish
    DEF files, revisions, supervisor
<1>6. CASE /\ j.op # "timer" /\ Revoked(s, FALSE)
           /\ failed' = failed \cup {Target(j)} /\ UNCHANGED caCrl
  <2>1. UNCHANGED <<index, files, revisions, supervisor, mishaps, interrupted, abandoned>>
    BY DEF GenerateCrl
  <2>2. InFlight(j) \subseteq failed' /\ Target(j) \in failed'
    BY <1>6 DEF InFlight
  <2>3. Outcome(s, FALSE)
    BY <1>1, <1>3, <1>6, <2>1, <2>2 DEF Outcome, Revoking, ca, files
  <2> QED
    BY <2>3, DeliveredOutcome
<1> QED
  BY <1>4, <1>5, <1>6 DEF GenerateCrl

LEMMA DeliveredPublishCrl ==
  ASSUME TypeOK, Alone, Delivered, NEW s \in Slots, PublishCrl(s)
  PROVE  Delivered'
<1> DEFINE j == jobs[s]
<1>1. /\ j.pc = "publish" /\ j.pc # "idle" /\ crl' = caCrl
      /\ UNCHANGED <<ca, acl, policy, revisions, supervisor, mishaps, abandoned, failed>>
  BY DEF PublishCrl
<1>2. Acting = j /\ j \in Job /\ JobOK(j)
  BY <1>1, Mover, ActingIs
<1>3. /\ caCrl \subseteq index /\ (j.op # "timer" => Target(j) \in caCrl)
      /\ mishaps = 0 =>
            /\ index \subseteq caCrl \cup failed /\ RevokedCerts(db) \subseteq caCrl \cup failed
            /\ j.op = "timer" => caCrl \subseteq crl \cup failed
  BY <1>1, <1>2 DEF Delivered, CrlFollows, InFlight
<1>4. CASE j.op # "timer" /\ Revoked(s, TRUE) /\ UNCHANGED interrupted
  <2>1. Outcome(s, TRUE)
    BY <1>1, <1>3, <1>4 DEF Outcome, Revoking, ca
  <2> QED
    BY <2>1, DeliveredOutcome
<1>5. CASE /\ j.op = "timer" /\ UNCHANGED store
           /\ GoTo(s, Syncing(j, db, TRUE, FALSE)) /\ UNCHANGED interrupted
  <2>1. Acting' = Syncing(j, db, TRUE, FALSE)
    BY <1>1, <1>5, ActingGoTo
  <2>2. EnabledActive(db) /\ db \in Registry
    BY Parts DEF Delivered, StoreOK
  <2> QED
    BY <1>1, <1>2, <1>3, <1>5, <2>1, <2>2, DeliveredSyncing DEF store, ca, revisions, supervisor
<1>6. CASE j.op = "timer" /\ UNCHANGED store /\ Finish(s) /\ interrupted' = TRUE
  <2>1. Acting' = NoJob
    BY <1>1, <1>6, ActingFinish
  <2>2. supRev /\ sup \in {"loaded", "running"} => pending' = "staged" \/ Read'
    BY <1>1, <1>2, <1>3, <1>6
    DEF Delivered, Announced, Read, Submitting, Removals, revisions, supervisor
  <2> QED
    BY <1>1, <1>3, <1>6, <2>1, <2>2, DeliveredFinish DEF ca, revisions, supervisor
<1> QED
  BY <1>1, <1>4, <1>5, <1>6 DEF PublishCrl

LEMMA DeliveredLookUpCrl ==
  ASSUME TypeOK, Alone, Delivered, NEW s \in Slots, LookUpCrl(s)
  PROVE  Delivered'
<1> DEFINE j == jobs[s]
<1>1. /\ j.pc = "listed" /\ j.pc # "idle"
      /\ UNCHANGED <<ca, files, revisions, supervisor, mishaps, ghosts>>
  BY DEF LookUpCrl
<1>2. Acting = j /\ Knows(j, db)
  BY <1>1, Mover, ActingIs
<1>3. j.op = "license" /\ Target(j) = j.cert
  BY <1>1, <1>2 DEF Knows, Targets, Target
<1>4. caCrl \subseteq index /\ (mishaps = 0 => caCrl = crl /\ index \subseteq caCrl \cup failed)
  BY <1>1, <1>2 DEF Delivered, CrlFollows, InFlight
<1>5. CASE j.cert \in caCrl /\ Revoked(s, TRUE)
  <2>1. Outcome(s, TRUE)
    BY <1>1, <1>3, <1>4, <1>5 DEF Outcome, Revoking, ca, files, ghosts
  <2> QED
    BY <2>1, DeliveredOutcome
<1>6. CASE GoTo(s, [j EXCEPT !.pc = "index"]) /\ UNCHANGED store
  BY <1>1, <1>3, <1>4, <1>6, DeliveredRevoking DEF Revoking, Removals, ca
<1> QED
  BY <1>5, <1>6 DEF LookUpCrl

LEMMA DeliveredSign ==
  ASSUME TypeOK, Alone, Delivered, NEW s \in Slots, Sign(s)
  PROVE  Delivered'
<1> DEFINE j == jobs[s]
           d == [j.doc EXCEPT !.cert[j.cert] = "active"]
<1>1. j.pc = "sign" /\ j.pc # "idle" /\ UNCHANGED Untouched
  BY DEF Sign
<1>2. Acting = j /\ Knows(j, db) /\ j \in Job /\ db \in Registry
  BY <1>1, Mover, ActingIs
<1>3. j.op = "issue" /\ j.doc = db
  BY <1>1, <1>2 DEF Knows, Signing, FreshDoc
<1>4. /\ caCrl \subseteq index
      /\ mishaps = 0 => /\ caCrl = crl /\ index \subseteq caCrl \cup failed
                        /\ RevokedCerts(db) \subseteq caCrl \cup failed
  BY <1>1, <1>2 DEF Delivered, CrlFollows, InFlight
<1>5. ~Submitting(j)
  BY <1>1, <1>3 DEF Submitting, Removals
<1>6. CASE db' = d /\ GoTo(s, Syncing(j, d, FALSE, TRUE))
  <2>1. Acting' = Syncing(j, d, FALSE, TRUE)
    BY <1>1, <1>6, ActingGoTo
  <2>2. d \in Registry
    BY <1>2, <1>3, CertSet DEF CertStates
  <2>3. /\ d.enabled = db.enabled /\ d.status = db.status
        /\ \A c \in Certs : d.cert[c] \in {db.cert[c], "active"}
    BY <1>2, <1>3 DEF Registry
  <2> HIDE DEF d
  <2>4. EnabledActive(d)
    BY <2>3 DEF Delivered, EnabledActive
  <2>5. mishaps = 0 => RevokedCerts(d) \subseteq caCrl \cup failed
    BY <2>3, <1>4 DEF RevokedCerts
  <2> QED
    BY <1>1, <1>2, <1>3, <1>4, <1>5, <1>6, <2>1, <2>2, <2>4, <2>5, DeliveredSyncing
    DEF Untouched, ca, files, revisions, supervisor, ghosts, Delivered
<1>7. CASE Finish(s) /\ UNCHANGED db
  <2>1. Acting' = NoJob
    BY <1>1, <1>7, ActingFinish
  <2>2. supRev /\ sup \in {"loaded", "running"} => pending' = "staged" \/ Read'
    BY <1>1, <1>2, <1>5
    DEF Delivered, Announced, Read, Untouched, files, revisions, supervisor, ghosts
  <2>3. interrupted' \/ Fits(db, expired, acl)
    BY <1>1, <1>2 DEF Delivered, AclFits, Untouched, ghosts
  <2> QED
    BY <1>1, <1>4, <1>7, <2>1, <2>2, <2>3, DeliveredFinish
    DEF Untouched, store, ca, files, revisions, supervisor, ghosts
<1> QED
  BY <1>6, <1>7 DEF Sign

-----------------------------------------------------------------------------
(* The requests and the timers. *)

\* What holds while no job runs.
LEMMA DeliveredAtRest ==
  ASSUME Delivered, Acting = NoJob
  PROVE  /\ ~Submitting(Acting) /\ Acting.pc = "idle" /\ (interrupted \/ Fits(db, expired, acl))
         /\ caCrl \subseteq index
         /\ mishaps = 0 => /\ caCrl = crl /\ index \subseteq caCrl \cup failed
                           /\ RevokedCerts(db) \subseteq caCrl \cup failed
<1>1. Acting.pc = "idle" /\ Acting.op = "none"
  BY NoJobIs
<1> QED
  BY <1>1 DEF Delivered, AclFits, CrlFollows, InFlight, Submitting, Removals

\* A job that has nothing to save yet.
LEMMA DeliveredBegin ==
  ASSUME TypeOK, Delivered, NEW s \in Slots, NEW k, Begin(s, k), UNCHANGED <<Untouched, db>>,
         k.pc \in {"sign", "listed", "index", "gencrl", "pending"}, k.op \notin {"archive", "none"},
         k.pc = "gencrl" => k.op = "timer",
         k.op \in {"revoke", "license"} => k.cert \in Certs /\ k.device = Holder[k.cert]
  PROVE  Delivered'
<1>1. Acting = NoJob /\ Acting' = k
  BY ActingBegin
<1>2. /\ ~Submitting(Acting) /\ Acting.pc = "idle" /\ (interrupted \/ Fits(db, expired, acl))
      /\ caCrl \subseteq index
      /\ mishaps = 0 => /\ caCrl = crl /\ index \subseteq caCrl \cup failed
                        /\ RevokedCerts(db) \subseteq caCrl \cup failed
  BY <1>1, DeliveredAtRest
<1>3. UNCHANGED <<store, ca, files, revisions, supervisor, mishaps, ghosts>>
  BY DEF Untouched, store
<1>4. Announced'
  BY <1>1, <1>2, <1>3
  DEF Delivered, Announced, Read, files, revisions, supervisor, ghosts
<1>5. AclFits'
  BY <1>1, <1>2, <1>3 DEF AclFits, store, files, ghosts
<1>6. Staged'
  BY <1>1 DEF Staged
<1>7. CrlFollows'
  <2>1. RevokedCerts(db)' = RevokedCerts(db)
    BY <1>3 DEF RevokedCerts, store
  <2> QED
    BY <1>1, <1>2, <1>3, <2>1 DEF CrlFollows, InFlight, ca, files, ghosts
<1> QED
  BY <1>3, <1>4, <1>5, <1>6, <1>7 DEF Delivered, Acknowledges, store, revisions, supervisor

\* A request that saves at once and syncs.
LEMMA DeliveredSaving ==
  ASSUME TypeOK, Delivered, NEW s \in Slots, NEW j \in Job, NEW d \in Registry,
         NEW f \in BOOLEAN, NEW e \in BOOLEAN,
         Begin(s, Syncing(j, d, f, e)), db' = d, UNCHANGED Untouched,
         EnabledActive(d), RevokedCerts(d) \subseteq RevokedCerts(db),
         j.op = "archive" => f /\ e, j.op \notin {"revoke", "license", "none"}
  PROVE  Delivered'
<1>1. Acting = NoJob /\ Acting' = Syncing(j, d, f, e)
  BY ActingBegin
<1>2. /\ ~Submitting(Acting) /\ Acting.pc = "idle" /\ caCrl \subseteq index
      /\ mishaps = 0 => /\ caCrl = crl /\ index \subseteq caCrl \cup failed
                        /\ RevokedCerts(db) \subseteq caCrl \cup failed
  BY <1>1, DeliveredAtRest
<1>3. UNCHANGED <<expired, index, caCrl, crl, acl, policy, pending, applied, supRev, sup, loaded,
                  mishaps, interrupted, abandoned, failed>>
  BY DEF Untouched, ca, files, revisions, supervisor, ghosts
<1>4. Announced
  BY DEF Delivered
<1> QED
  BY <1>1, <1>2, <1>3, <1>4, DeliveredSyncing

LEMMA DeliveredRequests ==
  ASSUME TypeOK, Delivered, NEW s \in Slots,
         \/ Apply(s) \/ RefreshAcl(s) \/ RefreshPki(s)
         \/ \E c \in Certs : Issue(s, c) \/ Revoke(s, c) \/ RemoveLicense(s, c)
  PROVE  Delivered'
<1>1. EnabledActive(db) /\ db \in Registry
  BY Parts DEF Delivered, StoreOK
<1>2. CASE Apply(s)
  BY <1>2, DeliveredBegin DEF Apply, NewJob
<1>3. CASE RefreshPki(s)
  BY <1>3, DeliveredBegin DEF RefreshPki, NewJob
<1>4. CASE RefreshAcl(s)
  <2> DEFINE j == NewJob("timer", "compare", 0, 0, Empty)
  <2>1. j \in Job /\ j.op = "timer"
    BY EmptyType, NewJobType DEF Ops, Pcs, JobOK, NewJob
  <2>2. Begin(s, Syncing(j, db, FALSE, FALSE)) /\ UNCHANGED <<Untouched, db>>
    BY <1>4 DEF RefreshAcl
  <2> HIDE DEF j
  <2> QED
    BY <1>1, <2>1, <2>2, DeliveredSaving
<1>5. ASSUME NEW c \in Certs, Issue(s, c) PROVE Delivered'
  BY <1>5, DeliveredBegin DEF Issue, NewJob
<1>6. ASSUME NEW c \in Certs, Revoke(s, c) PROVE Delivered'
  BY <1>6, DeliveredBegin DEF Revoke, NewJob
<1>7. ASSUME NEW c \in Certs, RemoveLicense(s, c) PROVE Delivered'
  BY <1>7, DeliveredBegin DEF RemoveLicense, NewJob
<1> QED
  BY <1>2, <1>3, <1>4, <1>5, <1>6, <1>7

LEMMA DeliveredAccess ==
  ASSUME TypeOK, Delivered, NEW s \in Slots, NEW x \in Devices,
         Authorize(s, x) \/ Block(s, x) \/ Restore(s, x)
  PROVE  Delivered'
<1> DEFINE j == NewJob("access", "compare", 0, 0, Empty)
<1>1. EnabledActive(db) /\ db \in Registry
  BY Parts DEF Delivered, StoreOK
<1>2. PICK d : Change(s, d) /\ d \in Registry /\ EnabledActive(d) /\ d.cert = db.cert
  <2>1. CASE Authorize(s, x)
    <3> DEFINE d == [db EXCEPT !.enabled[x] = TRUE]
    <3>1. Change(s, d) /\ db.status[x] = "active"
      BY <2>1 DEF Authorize
    <3>2. d \in Registry /\ EnabledActive(d) /\ d.cert = db.cert
      BY <3>1, <1>1 DEF Registry, EnabledActive
    <3> QED
      BY <3>1, <3>2
  <2>2. CASE Block(s, x)
    <3> DEFINE d == [db EXCEPT !.enabled[x] = FALSE]
    <3>1. Change(s, d)
      BY <2>2 DEF Block
    <3>2. d \in Registry /\ EnabledActive(d) /\ d.cert = db.cert
      BY <1>1 DEF Registry, EnabledActive
    <3> QED
      BY <3>1, <3>2
  <2>3. CASE Restore(s, x)
    <3> DEFINE d == [db EXCEPT !.status[x] = "active", !.enabled[x] = FALSE]
    <3>1. Change(s, d)
      BY <2>3 DEF Restore
    <3>2. d \in Registry /\ EnabledActive(d) /\ d.cert = db.cert
      BY <1>1 DEF Registry, EnabledActive
    <3> QED
      BY <3>1, <3>2
  <2> QED
    BY <2>1, <2>2, <2>3
<1>3. j \in Job /\ j.op = "access"
  BY EmptyType, NewJobType DEF Ops, Pcs, JobOK, NewJob
<1>4. Begin(s, Syncing(j, d, TRUE, TRUE)) /\ db' = d /\ UNCHANGED Untouched
  BY <1>2 DEF Change
<1>5. RevokedCerts(d) = RevokedCerts(db)
  BY <1>2 DEF RevokedCerts
<1> HIDE DEF j
<1> QED
  BY <1>2, <1>3, <1>4, <1>5, DeliveredSaving

LEMMA DeliveredArchive ==
  ASSUME TypeOK, Delivered, NEW s \in Slots, NEW x \in Devices, Archive(s, x)
  PROVE  Delivered'
<1> DEFINE d == [status |-> [db.status EXCEPT ![x] = "archived"],
                 enabled |-> [db.enabled EXCEPT ![x] = FALSE],
                 cert |-> [c \in Certs |-> IF c \in Listed(db, x, {"active"}) THEN "blocked"
                                           ELSE db.cert[c]]]
           new == NewJob("archive", "compare", x, 0, d)
           todo == Listed(d, x, {"blocked", "retired"})
           j == [new EXCEPT !.todo = todo, !.again = TRUE]
<1>1. EnabledActive(db) /\ db \in Registry
  BY Parts DEF Delivered, StoreOK
<1>2. d \in Registry
  BY <1>1 DEF Registry, CertStates
<1>3. Begin(s, Syncing(j, d, TRUE, TRUE)) /\ db' = d /\ UNCHANGED Untouched
  BY DEF Archive
<1>4. EnabledActive(d)
  BY <1>1 DEF EnabledActive, Registry
<1>5. RevokedCerts(d) \subseteq RevokedCerts(db)
  BY DEF RevokedCerts
<1> HIDE DEF d
<1>6. todo \in SUBSET Certs
  BY DEF Listed
<1> HIDE DEF todo
<1>7. new \in Job /\ new.op = "archive"
  BY <1>2, NewJobType DEF Ops, Pcs, JobOK, NewJob
<1>8. j \in Job /\ j.op = "archive"
  <2> HIDE DEF new
  <2> QED
    BY <1>6, <1>7 DEF Job
<1> HIDE DEF j
<1> QED
  BY <1>2, <1>3, <1>4, <1>5, <1>8, DeliveredSaving

LEMMA DeliveredDelete ==
  ASSUME TypeOK, Delivered, NEW s \in Slots, NEW x \in Devices, NEW op \in Removals,
         DeleteAs(op, s, x, db)
  PROVE  Delivered'
<1> DEFINE new == NewJob(op, "index", x, 0, db)
           todo == Listed(db, x, {"active"})
           j == [new EXCEPT !.todo = todo, !.defer = op = "delete"]
           d == Buried(db, x)
<1>1. EnabledActive(db) /\ db \in Registry
  BY Parts DEF Delivered, StoreOK
<1>2. UNCHANGED Untouched /\
      IF j.todo = {}
      THEN Begin(s, Syncing(j, d, TRUE, j.defer)) /\ db' = d
      ELSE Begin(s, j) /\ UNCHANGED db
  BY DEF DeleteAs
<1>3. EnabledActive(d) /\ d \in Registry
  BY <1>1, BuriedType DEF Buried, EnabledActive, Registry
<1>4. RevokedCerts(d) \subseteq RevokedCerts(db)
  BY DEF RevokedCerts, Buried
<1> HIDE DEF d
<1>5. todo \in SUBSET Certs
  BY DEF Listed
<1>6. new \in Job /\ new.op = op /\ new.pc = "index"
  BY <1>1 DEF NewJob, Job, Ops, Pcs, Removals
<1> HIDE DEF todo, new
<1>7. (op = "delete") \in BOOLEAN
  OBVIOUS
<1>8. j \in Job /\ j.op = op /\ j.pc = "index" /\ j.defer \in BOOLEAN
  BY <1>5, <1>6, <1>7 DEF Job
<1> HIDE DEF j
<1>9. CASE j.todo = {}
  BY <1>2, <1>3, <1>4, <1>8, <1>9, DeliveredSaving DEF Removals
<1>10. CASE j.todo # {}
  BY <1>2, <1>8, <1>10, DeliveredBegin DEF Removals
<1> QED
  BY <1>9, <1>10

LEMMA DeliveredRegister ==
  ASSUME TypeOK, Delivered, NEW x \in Devices, Register(x)
  PROVE  Delivered'
<1>1. db \in Registry /\ EnabledActive(db)
  BY Parts DEF Delivered, StoreOK
<1>2. turn = 0 /\ UNCHANGED <<jobs, turn>> /\ UNCHANGED Untouched
  BY DEF Register, queue
<1>3. Acting = NoJob /\ Acting' = NoJob
  BY <1>2, ActingKeep DEF Acting
<1>4. interrupted \/ Fits(db, expired, acl)
  BY <1>3, DeliveredAtRest
<1>5. /\ db'.enabled = db.enabled /\ db'.cert = db.cert /\ db.enabled[x] = FALSE
      /\ \A y \in Devices : y # x => db'.status[y] = db.status[y]
      /\ db'.status[x] = "active"
  BY <1>1 DEF Register, Registry, EnabledActive
<1>6. interrupted' \/ Fits(db', expired', acl')
  <2>1. UNCHANGED <<interrupted, expired, acl>>
    BY <1>2 DEF Untouched, files, ghosts
  <2>2. Fits(db, expired, acl) => Fits(db', expired, acl)
    BY <1>5 DEF Fits, AllowedAt
  <2> QED
    BY <1>4, <2>1, <2>2
<1>7. AclFits'
  BY <1>3, <1>6, NoJobIs DEF AclFits
<1>8. Announced' /\ Staged' /\ Acknowledges'
  BY <1>2, <1>3
  DEF Delivered, Announced, Read, Staged, Acknowledges, Untouched, files, revisions, supervisor,
      ghosts
<1>9. CrlFollows'
  <2>1. RevokedCerts(db)' = RevokedCerts(db)
    BY <1>5 DEF RevokedCerts
  <2> QED
    BY <1>2, <1>3, <2>1, NoJobIs
    DEF Delivered, CrlFollows, InFlight, Untouched, ca, files, ghosts
<1>10. EnabledActive(db')
  BY <1>1, <1>5 DEF EnabledActive
<1> QED
  BY <1>7, <1>8, <1>9, <1>10 DEF Delivered

-----------------------------------------------------------------------------
(* The supervisor, time and mishaps. *)

LEMMA DeliveredSupervisor ==
  ASSUME TypeOK, Delivered, SupervisorStep \/ MosquittoEnds
  PROVE  Delivered'
<1>1. UNCHANGED Elsewhere /\ (UNCHANGED mishaps \/ (mishaps' # 0 /\ sup' = "down"))
  BY PolicyAssumption
  DEF SupervisorStep, SupervisorStart, MosquittoLoads, SupervisorRecord, SupervisorNotices,
      MosquittoEnds, Stopped, TypeOK, PolicyAssumption
<1>2. Acting' = Acting
  BY <1>1, ActingKeep DEF Elsewhere, queue
<1>3. Announced'
  <2>1. UNCHANGED <<acl, crl, pending, interrupted, failed>>
    BY <1>1 DEF Elsewhere, files, ghosts
  <2>2. CASE SupervisorStart \/ SupervisorNotices \/ MosquittoEnds
    BY <2>2 DEF Announced, SupervisorStart, SupervisorNotices, MosquittoEnds, Stopped
  <2>3. CASE MosquittoLoads
    BY <2>1, <2>3 DEF Announced, Read, MosquittoLoads
  <2>4. CASE SupervisorRecord
    <3>1. UNCHANGED <<supRev, loaded, mishaps>> /\ sup = "loaded"
      BY <2>4 DEF SupervisorRecord
    <3> QED
      BY <2>1, <3>1, <1>2 DEF Delivered, Announced, Read
  <2> QED
    BY <2>2, <2>3, <2>4 DEF SupervisorStep
<1>4. Acknowledges'
  BY DEF Delivered, Acknowledges, SupervisorStep, SupervisorStart, MosquittoLoads,
         SupervisorRecord, SupervisorNotices, MosquittoEnds, Stopped
<1>5. AclFits' /\ Staged' /\ EnabledActive(db')
  BY <1>1, <1>2 DEF Delivered, AclFits, Staged, Elsewhere, store, files, ghosts
<1>6. CrlFollows'
  <2>1. RevokedCerts(db)' = RevokedCerts(db)
    BY <1>1 DEF RevokedCerts, Elsewhere, store
  <2>2. mishaps' = 0 => mishaps = 0
    BY <1>1
  <2> QED
    BY <1>1, <1>2, <2>1, <2>2
    DEF Delivered, CrlFollows, InFlight, Elsewhere, ca, files, ghosts
<1> QED
  BY <1>3, <1>4, <1>5, <1>6 DEF Delivered

LEMMA DeliveredExpire ==
  ASSUME TypeOK, Delivered, NEW c, Expire(c)
  PROVE  Delivered'
<1>1. /\ UNCHANGED <<db, ca, files, revisions, queue, supervisor, mishaps, ghosts>>
      /\ expired \subseteq expired'
  BY DEF Expire
<1>2. Acting' = Acting
  BY <1>1, ActingKeep DEF queue
<1>3. \A a : Fits(db, expired, a) => Fits(db, expired', a)
  BY <1>1 DEF Fits, AllowedAt
<1>4. AclFits'
  BY <1>1, <1>2, <1>3 DEF Delivered, AclFits, files, ghosts
<1>5. Announced' /\ Staged' /\ Acknowledges' /\ EnabledActive(db')
  BY <1>1, <1>2
  DEF Delivered, Announced, Read, Staged, Acknowledges, files, revisions, supervisor, ghosts
<1>6. CrlFollows'
  <2>1. RevokedCerts(db)' = RevokedCerts(db)
    BY <1>1 DEF RevokedCerts
  <2> QED
    BY <1>1, <1>2, <2>1 DEF Delivered, CrlFollows, InFlight, ca, files, ghosts
<1> QED
  BY <1>4, <1>5, <1>6 DEF Delivered

LEMMA DeliveredDeath ==
  ASSUME TypeOK, Delivered, AdminDies
  PROVE  Delivered'
<1>1. /\ UNCHANGED <<store, ca, files, revisions, supervisor>> /\ interrupted'
      /\ turn' = 0 /\ mishaps' # 0
  BY PolicyAssumption DEF AdminDies, TypeOK, PolicyAssumption
<1>2. Acting' = NoJob
  BY <1>1 DEF Acting, NoJob, NewJob, Empty
<1>3. Announced' /\ AclFits' /\ Staged'
  BY <1>1, <1>2, NoJobIs DEF Announced, Read, AclFits, Staged
<1>4. CrlFollows'
  BY <1>1, <1>2, NoJobIs DEF Delivered, CrlFollows, ca
<1> QED
  BY <1>1, <1>3, <1>4 DEF Delivered, Acknowledges, store, revisions, supervisor

LEMMA DeliveredNext ==
  ASSUME TypeOK, Alone, Delivered, Next, ~abandoned'
  PROVE  Delivered'
<1>1. ASSUME NEW s \in Slots, Request(s) \/ RefreshPki(s) PROVE Delivered'
  BY <1>1, DeliveredRequests, DeliveredAccess, DeliveredArchive, DeliveredDelete
  DEF Request, Delete, Purge, Removals
<1>2. ASSUME NEW s \in Slots, JobStep(s) PROVE Delivered'
  BY <1>2, DeliveredCompare, DeliveredWrite, DeliveredSubmit, DeliveredRevokeInIndex,
     DeliveredGenerateCrl, DeliveredPublishCrl, DeliveredSign, DeliveredLookUpCrl
  DEF JobStep
<1>3. ~\E s \in Slots : Disconnect(s)
  BY DEF Disconnect
<1> QED
  BY <1>1, <1>2, <1>3, DeliveredRegister, DeliveredSupervisor, DeliveredExpire, DeliveredDeath
  DEF Next

LEMMA DeliveredInit == Init => Delivered
<1> SUFFICES ASSUME Init PROVE Delivered
  OBVIOUS
<1>1. Acting = NoJob
  BY DEF Init, Acting
<1>2. Fits(db, expired, acl)
  BY DEF Init, Empty, Fits, AllowedAt
<1>3. EnabledActive(db) /\ RevokedCerts(db) = {}
  BY DEF Init, Empty, EnabledActive, RevokedCerts
<1>4. Announced /\ Acknowledges
  BY DEF Init, Announced, Acknowledges
<1>5. AclFits /\ Staged
  BY <1>1, <1>2, NoJobIs DEF AclFits, Staged
<1>6. CrlFollows
  BY <1>1, <1>3, NoJobIs DEF Init, CrlFollows, InFlight
<1> QED
  BY <1>3, <1>4, <1>5, <1>6 DEF Delivered

\* As long as no client leaves, the files and what mosquitto has read are apart by what the
\* acting job is doing.
Following == ~abandoned => Delivered

LEMMA FollowingAlways == Spec => []Following
<1>1. Init => Following
  BY DeliveredInit DEF Following
<1>2. TypeOK /\ Orderly /\ Following /\ [Next]_vars => Following'
  <2> SUFFICES ASSUME TypeOK, Orderly, Following, [Next]_vars, ~abandoned' PROVE Delivered'
    BY DEF Following
  <2>1. CASE UNCHANGED vars
    <3>1. UNCHANGED <<store, ca, files, revisions, queue, supervisor, mishaps, ghosts>>
      BY <2>1 DEF vars
    <3>2. Acting' = Acting
      BY <3>1, ActingKeep DEF queue
    <3>3. RevokedCerts(db)' = RevokedCerts(db) /\ ~abandoned
      BY <3>1 DEF RevokedCerts, store, ghosts
    <3>4. Delivered
      BY <3>3 DEF Following
    <3>5. Announced' /\ AclFits'
      BY <3>1, <3>2, <3>4
      DEF Delivered, Announced, Read, AclFits, store, files, revisions, supervisor, ghosts
    <3>6. CrlFollows'
      BY <3>1, <3>2, <3>3, <3>4 DEF Delivered, CrlFollows, InFlight, ca, files, ghosts
    <3> QED
      BY <3>1, <3>2, <3>4, <3>5, <3>6
      DEF Delivered, Staged, Acknowledges, store, revisions, supervisor
  <2>2. CASE Next
    <3>1. ~abandoned
      BY <2>2, AbandonedStays
    <3> QED
      BY <2>2, <3>1, DeliveredNext DEF Orderly, Following
  <2> QED
    BY <2>1, <2>2
<1> QED
  BY <1>1, <1>2, PolicyTypeCorrect, OrderlyAlways, PTL DEF Spec

\* When no job runs, the acting job is none.
LEMMA RestingActs ==
  ASSUME TypeOK, Alone, Delivered, Idle
  PROVE  Acting.pc = "idle" /\ ~Submitting(Acting)
<1>1. Acting.op = "none"
  BY NoJobIs DEF TypeOK, Idle, Acting
<1> QED
  BY <1>1 DEF Delivered, Staged, Submitting, Removals

\* A status that says applied speaks of the broker that runs: it has read the CRL on disk and
\* admits what the registry allows (routes/status-routes.js:16), whatever requests, timers,
\* failures and deaths came before, as long as every client waited for its answer.
THEOREM AppliedIsTrue == Spec => []AppliedIsCurrent
<1>1. TypeOK /\ Orderly /\ Following => AppliedIsCurrent
  <2> SUFFICES ASSUME TypeOK, Orderly, Following, ShownApplied, ~interrupted, ~abandoned
               PROVE  /\ loaded.crl = crl
                      /\ Allowed(db) \subseteq loaded.acl
                      /\ loaded.acl \subseteq {x \in Devices : db.status[x] = "active"
                                                          /\ db.enabled[x]}
    BY DEF AppliedIsCurrent
  <2>1. Alone /\ Delivered
    BY DEF Orderly, Following
  <2>2. Idle /\ applied /\ pending = "none" /\ sup = "running"
    BY DEF ShownApplied
  <2>3. supRev /\ ~Submitting(Acting) /\ Acting.pc = "idle"
    BY <2>1, <2>2, RestingActs DEF Delivered, Acknowledges
  <2>4. loaded.acl = acl /\ loaded.crl = crl
    BY <2>1, <2>2, <2>3 DEF Delivered, Announced, Read
  <2>5. Fits(db, expired, acl)
    BY <2>1, <2>3 DEF Delivered, AclFits
  <2>6. Allowed(db) = AllowedAt(db, expired)
    BY DEF Allowed, AllowedAt, Usable, Trusted
  <2> QED
    BY <2>4, <2>5, <2>6 DEF Fits
<1> QED
  BY <1>1, OrderlyAlways, FollowingAlways, PolicyTypeCorrect, PTL

\* Without a mishap, a certificate the registry calls revoked is in the CRL that the mosquitto
\* behind "applied" has read, or openssl broke off that very revocation (README.md:249).
THEOREM AppliedRefuses == Spec => []RevokedIsRefused
<1>1. TypeOK /\ Orderly /\ Following => RevokedIsRefused
  <2> SUFFICES ASSUME TypeOK, Orderly, Following, ShownApplied, mishaps = 0,
                      NEW c \in Certs, db.cert[c] \in {"revoked", "retired"}
               PROVE  c \in loaded.crl \cup failed
    BY DEF RevokedIsRefused
  <2>1. Alone /\ Delivered
    BY DEF Orderly, Following
  <2>2. Idle /\ applied /\ pending = "none" /\ sup = "running"
    BY DEF ShownApplied
  <2>3. supRev /\ ~Submitting(Acting) /\ Acting.pc = "idle"
    BY <2>1, <2>2, RestingActs DEF Delivered, Acknowledges
  <2>4. crl \subseteq loaded.crl \cup failed
    BY <2>1, <2>2, <2>3 DEF Delivered, Announced, Read
  <2>5. c \in caCrl \cup failed /\ caCrl = crl
    BY <2>1, <2>3 DEF Delivered, CrlFollows, RevokedCerts
  <2> QED
    BY <2>4, <2>5
<1> QED
  BY <1>1, OrderlyAlways, FollowingAlways, PolicyTypeCorrect, PTL

-----------------------------------------------------------------------------
(* An action property: how a certificate becomes revoked. *)

Blocks(c) == c \in caCrl \/ ~db'.enabled[Holder[c]]

LEMMA OwnerBlocks ==
  ASSUME TypeOK, Alone, Delivered, NEW s \in Slots, NEW ok \in BOOLEAN, NEW c \in Certs,
         jobs[s].pc \in Revoking, RevokedByOwner(s, ok), ok => Target(jobs[s]) \in caCrl,
         db.cert[c] = "active", db'.cert[c] \in {"revoked", "retired"}
  PROVE  Blocks(c)
<1> DEFINE j == jobs[s]
           b == j.doc.enabled[j.device] /\ j.op = "license" /\ ok
           d == [j.doc EXCEPT !.cert[j.cert] = AsRevoked(@), !.enabled[j.device] = b]
<1>1. /\ Knows(j, db) /\ j \in Job /\ db \in Registry /\ j.pc # "idle"
  BY Mover DEF Revoking
<1>2. j.op \in {"revoke", "license"} /\ db' = d
  BY DEF RevokedByOwner, SaveAndSync
<1>3. j.doc = db /\ Target(j) = j.cert
  BY <1>1, <1>2 DEF Knows, FreshDoc, Target
<1>4. j.cert \in Certs /\ j.device = Holder[j.cert] /\ j.device \in Devices
  <2>1. Acting = j
    BY <1>1, ActingIs
  <2> QED
    BY <1>2, <2>1, PolicyAssumption DEF Delivered, Staged, PolicyAssumption
<1>5. b \in BOOLEAN /\ (~ok => ~b)
  OBVIOUS
<1>6. (c # j.cert => d.cert[c] = db.cert[c]) /\ d.enabled[j.device] = b
  <2> HIDE DEF b
  <2> QED
    BY <1>1, <1>3, <1>4 DEF Registry
<1> HIDE DEF b, d
<1> QED
  BY <1>2, <1>3, <1>4, <1>5, <1>6 DEF Blocks

LEMMA RevokedBlocks ==
  ASSUME TypeOK, Alone, Delivered, NEW s \in Slots, NEW ok \in BOOLEAN, NEW c \in Certs,
         jobs[s].pc \in Revoking, Revoked(s, ok), ok => Target(jobs[s]) \in caCrl,
         db.cert[c] = "active", db'.cert[c] \in {"revoked", "retired"}
  PROVE  Blocks(c)
<1> DEFINE j == jobs[s]
<1>1. /\ Knows(j, db) /\ j \in Job /\ db \in Registry
  BY Mover DEF Revoking
<1>2. CASE RevokedByOwner(s, ok)
  BY <1>2, OwnerBlocks
<1>3. CASE RevokedForArchive(s, ok)
  <2> DEFINE x == Target(j)
             d == [j.doc EXCEPT !.cert[x] = "retired"]
  <2>1. j.op = "archive" /\ j.doc = db
    BY <1>1, <1>3 DEF RevokedForArchive, Knows, FreshDoc
  <2>2. db' = d /\ ok
    BY <1>3 DEF RevokedForArchive
  <2>3. c = x
    <3> HIDE DEF x
    <3> QED
      BY <1>1, <2>1, <2>2 DEF Registry
  <2> QED
    BY <2>2, <2>3 DEF Blocks
<1>4. CASE RevokedForDelete(s)
  <2>1. j.op \in Removals
    BY <1>4 DEF RevokedForDelete, Removals
  <2>2. j.doc = db
    BY <1>1, <2>1 DEF Knows, FreshDoc, Removals
  <2>3. db'.cert[c] \in {db.cert[c], "gone"}
    <3>1. db' = db \/ db' = Buried(db, j.device)
      BY <1>4, <2>2 DEF RevokedForDelete, SaveAndSync
    <3> QED
      BY <3>1 DEF Buried
  <2> QED
    BY <2>3
<1> QED
  BY <1>2, <1>3, <1>4 DEF Revoked

LEMMA StepBlocks ==
  ASSUME TypeOK, Alone, Delivered, NEW c \in Certs, Next,
         db.cert[c] = "active", db'.cert[c] \in {"revoked", "retired"}
  PROVE  Blocks(c)
<1>1. db \in Registry
  BY Parts DEF StoreOK
<1>2. CASE SupervisorStep \/ MosquittoEnds \/ AdminDies
           \/ (\E b \in Expiring : Expire(b)) \/ (\E s \in Slots : Disconnect(s))
  BY <1>2 DEF SupervisorStep, SupervisorStart, MosquittoLoads, SupervisorRecord,
              SupervisorNotices, MosquittoEnds, Stopped, Elsewhere, AdminDies, Expire, Disconnect,
              store
<1>3. ASSUME NEW x \in Devices, Register(x) PROVE FALSE
  BY <1>1, <1>3 DEF Register, Registry
<1>4. ASSUME NEW s \in Slots, Request(s) \/ RefreshPki(s) PROVE FALSE
  <2>1. CASE UNCHANGED db
    BY <2>1
  <2>2. ASSUME NEW x \in Devices, Authorize(s, x) \/ Block(s, x) \/ Restore(s, x) PROVE FALSE
    BY <1>1, <2>2 DEF Authorize, Block, Restore, Change, Registry
  <2>3. ASSUME NEW x \in Devices, Archive(s, x) PROVE FALSE
    BY <2>3 DEF Archive
  <2>4. ASSUME NEW x \in Devices, NEW op, DeleteAs(op, s, x, db) PROVE FALSE
    <3>1. db' = db \/ db' = Buried(db, x)
      BY <2>4 DEF DeleteAs
    <3> QED
      BY <3>1 DEF Buried
  <2>5. \/ UNCHANGED db
        \/ \E x \in Devices : Authorize(s, x) \/ Block(s, x) \/ Restore(s, x) \/ Archive(s, x)
        \/ \E x \in Devices : DeleteAs("delete", s, x, db) \/ DeleteAs("purge", s, x, db)
    BY <1>4 DEF Request, RefreshPki, RefreshAcl, Apply, Issue, Revoke, RemoveLicense, Delete, Purge
  <2> QED
    BY <2>1, <2>2, <2>3, <2>4, <2>5
<1>5. ASSUME NEW s \in Slots, JobStep(s) PROVE Blocks(c)
  <2> DEFINE j == jobs[s]
  <2>1. CASE Compare(s) \/ WriteAcl(s) \/ WritePolicy(s) \/ Submit(s) \/ SubmitPending(s)
             \/ ClearPending(s)
    BY <2>1 DEF Compare, WriteAcl, WritePolicy, Submit, SubmitPending, ClearPending, store
  <2>2. CASE RevokeInIndex(s) \/ GenerateCrl(s)
    <3>1. j.pc \in Revoking /\ Revoked(s, FALSE)
      BY <2>2 DEF RevokeInIndex, GenerateCrl, Revoking, store
    <3> QED
      BY <3>1, RevokedBlocks
  <2>3. CASE PublishCrl(s)
    <3>1. j.pc = "publish" /\ j.op # "timer" /\ Revoked(s, TRUE)
      BY <2>3 DEF PublishCrl, store
    <3>2. Acting = j
      BY <3>1, ActingIs
    <3>3. Target(j) \in caCrl
      BY <3>1, <3>2 DEF Delivered, CrlFollows
    <3> QED
      BY <3>1, <3>3, RevokedBlocks DEF Revoking
  <2>4. CASE LookUpCrl(s)
    <3>1. j.pc = "listed" /\ j.cert \in caCrl /\ Revoked(s, TRUE)
      BY <2>4 DEF LookUpCrl, store
    <3>2. Knows(j, db)
      BY <3>1, Mover
    <3>3. Target(j) = j.cert
      BY <3>1, <3>2 DEF Knows, Targets, Target
    <3> QED
      BY <3>1, <3>3, RevokedBlocks DEF Revoking
  <2>5. CASE Sign(s)
    <3>1. j.pc = "sign" /\ (UNCHANGED db \/ db' = [j.doc EXCEPT !.cert[j.cert] = "active"])
      BY <2>5 DEF Sign
    <3>2. Knows(j, db)
      BY <3>1, Mover
    <3>3. j.doc = db
      BY <3>1, <3>2 DEF Knows, FreshDoc, Signing
    <3> QED
      BY <1>1, <3>1, <3>3 DEF Registry
  <2> QED
    BY <1>5, <2>1, <2>2, <2>3, <2>4, <2>5 DEF JobStep
<1> QED
  BY <1>2, <1>3, <1>4, <1>5 DEF Next

\* While clients wait for their answers, no step revokes a certificate in the registry unless the
\* CA's CRL has it or the same save blocks its device, whichever openssl command failed
\* (routes/certificate-routes.js:148, 152-155, 301-307).
THEOREM RevokingBlocks == Spec => BlockedOneWayOrOther
<1>1. TypeOK /\ Orderly /\ Following /\ [Next]_vars =>
        [\A c \in Certs :
            ~abandoned /\ db.cert[c] = "active" /\ db'.cert[c] \in {"revoked", "retired"} =>
                c \in caCrl \/ ~db'.enabled[Holder[c]]]_vars
  BY StepBlocks DEF Orderly, Following, Blocks
<1> QED
  BY <1>1, OrderlyAlways, FollowingAlways, PolicyTypeCorrect, PTL DEF Spec, BlockedOneWayOrOther
=============================================================================
