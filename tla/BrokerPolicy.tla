----------------------------- MODULE BrokerPolicy -----------------------------
(***************************************************************************)
(* How Admin's registry reaches the running broker.  Owners' requests and  *)
(* timers (routes/certificate-routes.js, services/identity-service.js,     *)
(* server.js) change the registry and the CA, write the broker's files     *)
(* (services/certificate-service.js) and submit revisions; the supervisor  *)
(* (scripts/broker-entrypoint.sh) restarts mosquitto on a new revision and *)
(* records which one it applied.                                           *)
(*                                                                         *)
(* A job is one request or timer callback.  A step of a job is what it     *)
(* does between two awaits: an openssl command, an atomic file write, or a *)
(* save of the whole registry document.  Jobs take turns in the queue of   *)
(* db.js; a request whose client goes away gives its turn up early.        *)
(*                                                                         *)
(* Revisions are random identifiers that are only compared with the one in *)
(* the file `revision`, so each copy of one is modelled by the outcome of  *)
(* that comparison, and writing a new revision makes all of them differ.   *)
(***************************************************************************)
EXTENDS Naturals

CONSTANTS
    Devices,
    MaxCerts,         \* bound: certificates ever issued by the local CA
    Expiring,         \* bound: certificates whose validity may end
    Holder,           \* the device each certificate names
    Slots,            \* bound: jobs in flight at once
    ClientsLeave,     \* may a client disconnect before its request is answered?
    OpensslCanFail,   \* may an openssl command fail although nothing is wrong?
    MaxMishaps        \* bound: deaths of Admin and of mosquitto, abandoned requests

Certs == 1..MaxCerts

ASSUME PolicyAssumption ==
    /\ MaxCerts \in Nat /\ MaxMishaps \in Nat
    /\ Holder \in [Certs -> Devices] /\ Expiring \subseteq Certs
    /\ Slots \subseteq Nat \ {0}
    /\ ClientsLeave \in BOOLEAN /\ OpensslCanFail \in BOOLEAN

VARIABLES
    db,         \* the registry document in SQLite
    expired,    \* certificates whose validTo has passed
    index,      \* serials openssl's index.txt holds as revoked
    caCrl,      \* serials in the CA's ca.crl
    crl,        \* serials in the broker's copy of ca.crl
    acl,        \* devices the broker's acl file admits
    policy,     \* serials in policy-state
    pending,    \* pending-revision: absent, staged, or equal to revision
    applied,    \* does applied-revision equal revision?
    jobs,       \* what each slot runs
    turn,       \* the slot whose turn the queue is waiting for, 0 for none
    sup,        \* progress of the supervisor's loop
    supRev,     \* does its shell variable `revision` equal the file?
    loaded,     \* what the running mosquitto has read
    mishaps,    \* counter for the bound
    interrupted, \* ghost: a job ended half-way and nothing was submitted since
    abandoned,   \* ghost: a client left, so that the queue may run two jobs at once
    failed       \* ghost: certificates whose revocation an openssl command broke off

store == <<db, expired>>
ca == <<index, caCrl>>
files == <<crl, acl, policy>>
revisions == <<pending, applied, supRev>>
queue == <<jobs, turn>>
supervisor == <<sup, loaded>>
ghosts == <<interrupted, abandoned, failed>>
vars == <<store, ca, files, revisions, queue, supervisor, mishaps, ghosts>>

\* blocked and retired: blockReason is 'identity-archived'; retired is also revoked.
CertStates == {"none", "active", "blocked", "revoked", "retired", "gone"}
Registry ==
    [status : [Devices -> {"absent", "active", "archived", "deleted"}],
     enabled : [Devices -> BOOLEAN],
     cert : [Certs -> CertStates]]

Ops == {"none", "issue", "revoke", "license", "access", "archive", "delete", "purge",
        "apply", "timer"}
Pcs == {"idle", "sign", "listed", "index", "gencrl", "publish", "compare", "acl", "policy",
        "submit", "pending", "clear"}
Job ==
    [op : Ops, pc : Pcs, device : Devices \cup {0}, cert : Certs \cup {0},
     doc : Registry,           \* the handler's db
     todo : SUBSET Certs,      \* certificates a loop has yet to revoke
     again : BOOLEAN,          \* another sync follows
     want : SUBSET Devices, trusted : SUBSET Certs,   \* syncBroker's acl and policy
     force : BOOLEAN, defer : BOOLEAN]

\* Certificates in force, as syncBroker and hasUsableCredential see them.
Trusted(d) == {c \in Certs : d.cert[c] = "active" /\ c \notin expired}
Usable(d, x) == \E c \in Trusted(d) : Holder[c] = x
Allowed(d) == {x \in Devices : d.enabled[x] /\ d.status[x] = "active" /\ Usable(d, x)}
AsRevoked(status) == IF status \in {"blocked", "retired"} THEN "retired" ELSE "revoked"
Listed(d, x, states) == {c \in Certs : Holder[c] = x /\ d.cert[c] \in states}

NewJob(op, pc, x, c, d) ==
    [op |-> op, pc |-> pc, device |-> x, cert |-> c, doc |-> d, todo |-> {}, again |-> FALSE,
     want |-> {}, trusted |-> {}, force |-> FALSE, defer |-> FALSE]

Idle == \A s \in Slots : jobs[s].op = "none"
Empty ==
    [status |-> [x \in Devices |-> "absent"], enabled |-> [x \in Devices |-> FALSE],
     cert |-> [c \in Certs |-> "none"]]
NoJob == NewJob("none", "idle", 0, 0, Empty)

\* gateway.py has prepared the gateway: the files are written, the broker is not up yet.
Init ==
    /\ db = Empty /\ expired = {}
    /\ index = {} /\ caCrl = {} /\ crl = {}
    /\ acl = {} /\ policy = {}
    /\ pending = "none" /\ applied = FALSE /\ supRev = FALSE
    /\ jobs = [s \in Slots |-> NoJob] /\ turn = 0
    /\ sup = "down" /\ loaded = [acl |-> {}, crl |-> {}]
    /\ mishaps = 0 /\ interrupted = FALSE /\ abandoned = FALSE /\ failed = {}

(***************************************************************************)
(* The queue.  exclusive() runs a job when the one before it has ended, or *)
(* when the response of the one before it has closed.                      *)
(***************************************************************************)
Begin(s, j) ==
    /\ turn = 0 /\ jobs[s].op = "none"
    /\ \A r \in 1..(s - 1) : r \in Slots => jobs[r].op # "none"
    /\ turn' = s /\ jobs' = [jobs EXCEPT ![s] = j]

GoTo(s, j) == jobs' = [jobs EXCEPT ![s] = j] /\ UNCHANGED turn

Finish(s) ==
    /\ jobs' = [jobs EXCEPT ![s] = NoJob]
    /\ turn' = IF turn = s THEN 0 ELSE turn

Disconnect(s) ==
    /\ ClientsLeave /\ turn = s /\ jobs[s].op \notin {"none", "timer", "purge"}
    /\ mishaps < MaxMishaps
    /\ turn' = 0 /\ mishaps' = mishaps + 1 /\ abandoned' = TRUE
    /\ UNCHANGED <<store, ca, files, revisions, jobs, supervisor, interrupted, failed>>

(***************************************************************************)
(* syncBroker: the policy of a document, then the files that carry it.     *)
(***************************************************************************)
Syncing(j, d, force, defer) ==
    [j EXCEPT !.pc = "compare", !.want = Allowed(d), !.trusted = Trusted(d),
              !.force = force, !.defer = defer,
              !.doc = IF j.again THEN d ELSE Empty]   \* only archiving uses it again

\* archiving goes on with the certificates; every other caller returns.
Synced(s) ==
    LET j == jobs[s] IN
    \/ ~j.again /\ Finish(s)
    \/ j.again /\ j.todo = {} /\ GoTo(s, Syncing([j EXCEPT !.again = FALSE], db, TRUE, TRUE))
    \/ j.again /\ j.todo # {} /\ GoTo(s, [j EXCEPT !.pc = "index"])

\* Mutant of Compare: a forced sync writes nothing when the files would stay the same.
CompareUnforced(s) ==
    LET j == jobs[s] IN
    /\ j.pc = "compare"
    /\ IF j.want # acl \/ j.trusted # policy THEN GoTo(s, [j EXCEPT !.pc = "acl"]) ELSE Synced(s)
    /\ UNCHANGED <<store, ca, files, revisions, supervisor, mishaps, ghosts>>

Compare(s) ==
    LET j == jobs[s] IN
    /\ j.pc = "compare"
    /\ IF j.force \/ j.want # acl \/ j.trusted # policy
       THEN GoTo(s, [j EXCEPT !.pc = "acl"])
       ELSE Synced(s)
    /\ UNCHANGED <<store, ca, files, revisions, supervisor, mishaps, ghosts>>

WriteAcl(s) ==
    /\ jobs[s].pc = "acl"
    /\ acl' = jobs[s].want
    /\ GoTo(s, [jobs[s] EXCEPT !.pc = "policy"])
    /\ UNCHANGED <<store, ca, crl, policy, revisions, supervisor, mishaps, ghosts>>

WritePolicy(s) ==
    /\ jobs[s].pc = "policy"
    /\ policy' = jobs[s].trusted
    /\ GoTo(s, [jobs[s] EXCEPT !.pc = "submit"])
    /\ UNCHANGED <<store, ca, crl, acl, revisions, supervisor, mishaps, ghosts>>

\* The running broker and the acknowledgement are behind the file now.
NewRevision == applied' = FALSE /\ supRev' = FALSE

\* A deferred sync only stages the revision; the others submit it at once.
Submit(s) ==
    /\ jobs[s].pc = "submit"
    /\ \/ /\ jobs[s].defer
          /\ pending' = "staged" /\ UNCHANGED <<applied, supRev>>
          /\ Synced(s)
       \/ /\ ~jobs[s].defer
          /\ NewRevision
          /\ pending' = IF pending = "current" THEN "staged" ELSE pending
          /\ GoTo(s, [jobs[s] EXCEPT !.pc = "clear"])
    /\ interrupted' = FALSE
    /\ UNCHANGED <<store, ca, files, supervisor, mishaps, abandoned, failed>>

\* applyBrokerChanges submits what it found staged; a second submission changes nothing.
SubmitPending(s) ==
    /\ jobs[s].pc = "pending"
    /\ IF pending = "current" THEN UNCHANGED revisions ELSE NewRevision /\ pending' = "current"
    /\ GoTo(s, [jobs[s] EXCEPT !.pc = "clear"])
    /\ UNCHANGED <<store, ca, files, supervisor, mishaps, ghosts>>

ClearPending(s) ==
    /\ jobs[s].pc = "clear"
    /\ pending' = "none"
    /\ Synced(s)
    /\ UNCHANGED <<store, ca, files, applied, supRev, supervisor, mishaps, ghosts>>

(***************************************************************************)
(* revokeCertificate: openssl's index, the CA's CRL, the broker's copy.    *)
(* Revoked(s, ok) is what the handler does with the outcome.               *)
(***************************************************************************)
\* The loops go through their certificates in some order; nothing here depends on which.
Target(j) ==
    IF j.op \in {"archive", "delete", "purge"} THEN CHOOSE c \in j.todo : TRUE ELSE j.cert

\* permanentlyDeleteDevice's last save: a tombstone instead of the device and its certificates.
Buried(d, x) ==
    [status |-> [d.status EXCEPT ![x] = "deleted"],
     enabled |-> [d.enabled EXCEPT ![x] = FALSE],
     cert |-> [c \in Certs |->
                  IF Holder[c] = x /\ d.cert[c] # "none" THEN "gone" ELSE d.cert[c]]]

\* Save the document and stage its policy at once.
SaveAndSync(s, j, d, defer) ==
    db' = d /\ GoTo(s, Syncing(j, d, TRUE, defer))

\* Mutant of RevokedByOwner: the request ends when openssl fails.
RevokedByOwnerOrError(s, ok) ==
    LET j == jobs[s] IN
    /\ j.op \in {"revoke", "license"}
    /\ IF ok
       THEN SaveAndSync(s, j, [j.doc EXCEPT !.cert[j.cert] = AsRevoked(@)], TRUE)
       ELSE Finish(s) /\ UNCHANGED db

\* Mutant of RevokedByOwner: removing a license never disables its device.
RevokedKeepingDevice(s, ok) ==
    LET j == jobs[s] IN
    /\ j.op \in {"revoke", "license"}
    /\ SaveAndSync(s, j, [j.doc EXCEPT !.cert[j.cert] = AsRevoked(@),
                                       !.enabled[j.device] = @ /\ j.op = "license"], TRUE)

RevokedByOwner(s, ok) ==
    LET j == jobs[s] IN
    /\ j.op \in {"revoke", "license"}
    /\ SaveAndSync(s, j,
           [j.doc EXCEPT !.cert[j.cert] = AsRevoked(@),
                         !.enabled[j.device] = @ /\ j.op = "license" /\ ok], TRUE)

\* A failure ends the request; the sync that would follow the loop is not reached.
RevokedForArchive(s, ok) ==
    LET j == jobs[s]  d == [j.doc EXCEPT !.cert[Target(j)] = "retired"]
        rest == j.todo \ {Target(j)} IN
    /\ j.op = "archive"
    /\ \/ ~ok /\ Finish(s) /\ UNCHANGED db
       \/ /\ ok /\ db' = d
          /\ IF rest = {}
             THEN GoTo(s, Syncing([j EXCEPT !.todo = {}, !.again = FALSE], d, TRUE, TRUE))
             ELSE GoTo(s, [j EXCEPT !.pc = "index", !.todo = rest, !.doc = d])

\* Mutant of RevokedForDelete: the loop runs once too often.
RevokedForDeleteAgain(s) ==
    LET j == jobs[s]  rest == j.todo \ {Target(j)} IN
    /\ j.op \in {"delete", "purge"}
    /\ GoTo(s, [j EXCEPT !.pc = "index", !.todo = rest]) /\ UNCHANGED db

\* Failures are swallowed.
RevokedForDelete(s) ==
    LET j == jobs[s]  rest == j.todo \ {Target(j)} IN
    /\ j.op \in {"delete", "purge"}
    /\ IF rest = {}
       THEN SaveAndSync(s, [j EXCEPT !.todo = {}], Buried(j.doc, j.device), j.defer)
       ELSE GoTo(s, [j EXCEPT !.pc = "index", !.todo = rest]) /\ UNCHANGED db

Revoked(s, ok) ==
    /\ RevokedByOwner(s, ok) \/ RevokedForArchive(s, ok) \/ RevokedForDelete(s)
    /\ UNCHANGED expired

RevokeInIndex(s) ==
    LET c == Target(jobs[s]) IN
    /\ jobs[s].pc = "index"
    /\ \/ /\ c \notin index
          /\ index' = index \cup {c}
          /\ GoTo(s, [jobs[s] EXCEPT !.pc = "gencrl"])
          /\ UNCHANGED <<store, failed>>
       \/ /\ c \in index \/ OpensslCanFail   \* openssl refuses a second revocation
          /\ Revoked(s, FALSE)
          /\ failed' = failed \cup ({c} \ index)
          /\ UNCHANGED index
    /\ UNCHANGED <<caCrl, files, revisions, supervisor, mishaps, interrupted, abandoned>>

GenerateCrl(s) ==
    /\ jobs[s].pc = "gencrl"
    /\ \/ /\ caCrl' = index
          /\ GoTo(s, [jobs[s] EXCEPT !.pc = "publish"])
          /\ UNCHANGED <<store, failed>>
       \/ /\ OpensslCanFail
          /\ \/ jobs[s].op = "timer" /\ Finish(s) /\ UNCHANGED <<store, failed>>
             \/ /\ jobs[s].op # "timer" /\ Revoked(s, FALSE)
                /\ failed' = failed \cup {Target(jobs[s])}
          /\ UNCHANGED caCrl
    /\ UNCHANGED <<index, files, revisions, supervisor, mishaps, interrupted, abandoned>>

\* Mutant of PublishCrl: the daily sync is not forced.
PublishCrlUnforced(s) ==
    /\ jobs[s].pc = "publish"
    /\ crl' = caCrl
    /\ \/ jobs[s].op # "timer" /\ Revoked(s, TRUE)
       \/ /\ jobs[s].op = "timer" /\ UNCHANGED store
          /\ GoTo(s, Syncing(jobs[s], db, FALSE, FALSE))
    /\ UNCHANGED <<ca, acl, policy, revisions, supervisor, mishaps, ghosts>>

\* refreshPki checks the service certificates next, which may need openssl too.
PublishCrl(s) ==
    /\ jobs[s].pc = "publish"
    /\ crl' = caCrl
    /\ \/ jobs[s].op # "timer" /\ Revoked(s, TRUE) /\ UNCHANGED interrupted
       \/ /\ jobs[s].op = "timer" /\ UNCHANGED store
          /\ \/ GoTo(s, Syncing(jobs[s], db, TRUE, FALSE)) /\ UNCHANGED interrupted
             \/ OpensslCanFail /\ Finish(s) /\ interrupted' = TRUE
    /\ UNCHANGED <<ca, acl, policy, revisions, supervisor, mishaps, abandoned, failed>>

(***************************************************************************)
(* Owners' requests.                                                       *)
(***************************************************************************)
Untouched == <<expired, ca, files, revisions, supervisor, mishaps, ghosts>>

Register(x) ==
    /\ turn = 0 /\ db.status[x] = "absent"
    /\ db' = [db EXCEPT !.status[x] = "active"]
    /\ UNCHANGED <<Untouched, queue>>

\* A CSR signed for the first time, or a renewal: both leave earlier certificates alone.
Issue(s, c) ==
    /\ db.status[Holder[c]] = "active" /\ db.cert[c] = "none"
    /\ \A b \in 1..(c - 1) : db.cert[b] # "none" \/ \E r \in Slots : jobs[r].cert = b
    /\ \A r \in Slots : jobs[r].cert # c
    /\ Begin(s, NewJob("issue", "sign", Holder[c], c, db))
    /\ UNCHANGED <<Untouched, db>>

Sign(s) ==
    LET j == jobs[s]  d == [j.doc EXCEPT !.cert[j.cert] = "active"] IN
    /\ j.pc = "sign"
    /\ \/ db' = d /\ GoTo(s, Syncing(j, d, FALSE, TRUE))
       \/ OpensslCanFail /\ Finish(s) /\ UNCHANGED db
    /\ UNCHANGED Untouched

Revoke(s, c) ==
    /\ db.cert[c] \in {"active", "blocked"}
    /\ Begin(s, NewJob("revoke", "index", Holder[c], c, db))
    /\ UNCHANGED <<Untouched, db>>

RemoveLicense(s, c) ==
    /\ db.cert[c] \notin {"none", "gone"}
    /\ Begin(s, NewJob("license", "listed", Holder[c], c, db))
    /\ UNCHANGED <<Untouched, db>>

\* certificateIsInCrl reads the CA's CRL and takes a failure for a no.
LookUpCrl(s) ==
    LET j == jobs[s] IN
    /\ j.pc = "listed"
    /\ \/ j.cert \in caCrl /\ Revoked(s, TRUE)
       \/ /\ j.cert \notin caCrl \/ OpensslCanFail
          /\ GoTo(s, [j EXCEPT !.pc = "index"])
          /\ UNCHANGED store
    /\ UNCHANGED <<ca, files, revisions, supervisor, mishaps, ghosts>>

\* Requests that load, change and save the document without awaiting anything.
Change(s, d) ==
    /\ Begin(s, Syncing(NewJob("access", "compare", 0, 0, Empty), d, TRUE, TRUE))
    /\ db' = d
    /\ UNCHANGED Untouched

Authorize(s, x) ==
    /\ db.status[x] = "active" /\ Usable(db, x)
    /\ Change(s, [db EXCEPT !.enabled[x] = TRUE])

Block(s, x) ==
    /\ db.status[x] = "active" /\ db.enabled[x]
    /\ Change(s, [db EXCEPT !.enabled[x] = FALSE])

Restore(s, x) ==
    /\ db.status[x] = "archived"
    /\ Change(s, [db EXCEPT !.status[x] = "active", !.enabled[x] = FALSE])

Archive(s, x) ==
    LET d == [status |-> [db.status EXCEPT ![x] = "archived"],
              enabled |-> [db.enabled EXCEPT ![x] = FALSE],
              cert |-> [c \in Certs |-> IF c \in Listed(db, x, {"active"}) THEN "blocked"
                                        ELSE db.cert[c]]]
        job == [NewJob("archive", "compare", x, 0, d) EXCEPT
                    !.todo = Listed(d, x, {"blocked", "retired"}), !.again = TRUE] IN
    /\ db.status[x] = "active"
    /\ Begin(s, Syncing(job, d, TRUE, TRUE))
    /\ db' = d
    /\ UNCHANGED Untouched

DeleteAs(op, s, x, d) ==
    LET job == [NewJob(op, "index", x, 0, d) EXCEPT
                    !.todo = Listed(d, x, {"active"}), !.defer = op = "delete"] IN
    /\ IF job.todo = {}
       THEN Begin(s, Syncing(job, Buried(d, x), TRUE, job.defer)) /\ db' = Buried(d, x)
       ELSE Begin(s, job) /\ UNCHANGED db
    /\ UNCHANGED Untouched

Delete(s, x) ==
    /\ db.status[x] \in {"active", "archived"}
    /\ DeleteAs("delete", s, x, db)

\* The retention timer: 30 days may pass at any time, and nobody has to apply the result.
Purge(s, x) ==
    /\ db.status[x] = "archived"
    /\ DeleteAs("purge", s, x, db)

Apply(s) ==
    /\ pending # "none"
    /\ Begin(s, NewJob("apply", "pending", 0, 0, Empty))
    /\ UNCHANGED <<Untouched, db>>

\* Every 30 seconds.
RefreshAcl(s) ==
    /\ Begin(s, Syncing(NewJob("timer", "compare", 0, 0, Empty), db, FALSE, FALSE))
    /\ UNCHANGED <<Untouched, db>>

\* Mutant of RefreshPki: the CRL is not generated anew.
RefreshPkiSyncOnly(s) ==
    /\ Begin(s, Syncing(NewJob("timer", "compare", 0, 0, Empty), db, TRUE, FALSE))
    /\ UNCHANGED <<Untouched, db>>

\* Every day, and when gateway.py prepares the gateway.
RefreshPki(s) ==
    /\ Begin(s, NewJob("timer", "gencrl", 0, 0, Empty))
    /\ UNCHANGED <<Untouched, db>>

(***************************************************************************)
(* The supervisor's loop; mosquitto reads its files once, when it starts.  *)
(***************************************************************************)
Elsewhere == <<store, ca, files, pending, queue, ghosts>>

SupervisorStart ==
    /\ sup = "down"
    /\ supRev' = TRUE /\ sup' = "starting"
    /\ UNCHANGED <<Elsewhere, applied, loaded, mishaps>>

MosquittoLoads ==
    /\ sup = "starting"
    /\ loaded' = [acl |-> acl, crl |-> crl] /\ sup' = "loaded"
    /\ UNCHANGED <<Elsewhere, applied, supRev, mishaps>>

\* Mutant of SupervisorRecord: it acknowledges the revision it finds by now.
SupervisorRecordLate ==
    /\ sup = "loaded"
    /\ applied' = TRUE /\ sup' = "running"
    /\ UNCHANGED <<Elsewhere, supRev, loaded, mishaps>>

SupervisorRecord ==
    /\ sup = "loaded"
    /\ applied' = supRev /\ sup' = "running"
    /\ UNCHANGED <<Elsewhere, supRev, loaded, mishaps>>

\* The next round of the loop reads the revision anew.
Stopped ==
    /\ sup' = "down" /\ supRev' = FALSE /\ loaded' = [acl |-> {}, crl |-> {}]
    /\ UNCHANGED <<Elsewhere, applied>>

SupervisorNotices ==
    /\ sup = "running" /\ ~supRev
    /\ Stopped
    /\ UNCHANGED mishaps

\* mosquitto ends by itself or the update gate changes: the loop starts over.
MosquittoEnds ==
    /\ sup # "down" /\ mishaps < MaxMishaps
    /\ Stopped
    /\ mishaps' = mishaps + 1

(***************************************************************************)
(* Time passes, and Admin dies: the queue and its jobs are in its memory.  *)
(***************************************************************************)
Expire(c) ==
    /\ db.cert[c] = "active" /\ c \notin expired
    /\ expired' = expired \cup {c}
    /\ UNCHANGED <<db, ca, files, revisions, queue, supervisor, mishaps, ghosts>>

AdminDies ==
    /\ ~Idle /\ mishaps < MaxMishaps
    /\ jobs' = [s \in Slots |-> NoJob] /\ turn' = 0
    /\ mishaps' = mishaps + 1 /\ interrupted' = TRUE
    /\ UNCHANGED <<store, ca, files, revisions, supervisor, abandoned, failed>>

JobStep(s) ==
    \/ Compare(s) \/ WriteAcl(s) \/ WritePolicy(s) \/ Submit(s) \/ SubmitPending(s)
    \/ ClearPending(s) \/ RevokeInIndex(s) \/ GenerateCrl(s) \/ PublishCrl(s) \/ Sign(s)
    \/ LookUpCrl(s)

Request(s) ==
    \/ \E x \in Devices : Authorize(s, x) \/ Block(s, x) \/ Restore(s, x) \/ Archive(s, x)
                          \/ Delete(s, x) \/ Purge(s, x)
    \/ \E c \in Certs : Issue(s, c) \/ Revoke(s, c) \/ RemoveLicense(s, c)
    \/ Apply(s) \/ RefreshAcl(s)

SupervisorStep ==
    SupervisorStart \/ MosquittoLoads \/ SupervisorRecord \/ SupervisorNotices

Next ==
    \/ \E x \in Devices : Register(x)
    \/ \E s \in Slots : Request(s) \/ RefreshPki(s) \/ JobStep(s) \/ Disconnect(s)
    \/ \E c \in Expiring : Expire(c)
    \/ SupervisorStep \/ MosquittoEnds \/ AdminDies

Spec == Init /\ [][Next]_vars

\* Promises settle and the shell loop runs on.  The daily timer queues up behind whatever is
\* running and the queue is first come, first served, hence strong fairness.
FairSpec ==
    /\ Spec
    /\ \A s \in Slots : WF_vars(JobStep(s))
    /\ SF_vars(\E s \in Slots : RefreshPki(s))
    /\ WF_vars(SupervisorStep)

-----------------------------------------------------------------------------
\* A job that is about to revoke has a certificate to revoke; only archiving syncs twice.
SomeTarget(j) ==
    IF j.op \in {"archive", "delete", "purge"} THEN j.todo # {} ELSE j.cert \in Certs
Aims(j) == j.pc \in {"index", "listed"} \/ (j.pc \in {"gencrl", "publish"} /\ j.op # "timer")
HasTarget(j) ==
    /\ j.again => j.op = "archive"
    /\ Aims(j) => SomeTarget(j)

\* The variables stay within their types, and a loop that is to revoke a certificate has one.
TypeOK ==
    /\ db \in Registry
    /\ expired \subseteq Certs /\ index \subseteq Certs /\ caCrl \subseteq Certs
    /\ crl \subseteq Certs /\ acl \subseteq Devices /\ policy \subseteq Certs
    /\ pending \in {"none", "staged", "current"} /\ applied \in BOOLEAN /\ supRev \in BOOLEAN
    /\ jobs \in [Slots -> Job] /\ turn \in {0} \cup Slots
    /\ \A s \in Slots : HasTarget(jobs[s])
    /\ sup \in {"down", "starting", "loaded", "running"}
    /\ loaded \in [acl : SUBSET Devices, crl : SUBSET Certs]
    /\ mishaps \in 0..MaxMishaps /\ interrupted \in BOOLEAN /\ abandoned \in BOOLEAN
    /\ failed \subseteq Certs

\* What /api/broker/status reports as applied, while no job is at work.
ShownApplied == Idle /\ applied /\ pending = "none" /\ sup = "running"

\* "Applied" is no stale word (routes/status-routes.js:16): the mosquitto that runs has read the
\* CRL on disk and admits what the registry allows, give or take certificates whose expiry the
\* ACL timer has not seen yet.  Excepted until the next submission: Admin died between the files
\* and the revision, or the daily refresh failed there.
AppliedIsCurrent ==
    ShownApplied /\ ~interrupted /\ ~abandoned =>
        /\ loaded.crl = crl
        /\ Allowed(db) \subseteq loaded.acl
        /\ loaded.acl \subseteq {x \in Devices : db.status[x] = "active" /\ db.enabled[x]}

\* As long as there was no mishap, a certificate the registry calls revoked is one mosquitto
\* refuses once the status says applied, whatever route revoked it and whatever has happened to
\* its device since (README.md:249), unless openssl broke off its own revocation.
RevokedIsRefused ==
    ShownApplied /\ mishaps = 0 =>
        \A c \in Certs : db.cert[c] \in {"revoked", "retired"} => c \in loaded.crl \cup failed

\* While clients wait for their answers, a revoked certificate is in the CRL of the CA, which the
\* daily refresh publishes, or its device is blocked as a whole in the same save, whichever
\* openssl command failed (routes/certificate-routes.js:148, 152-155, 301-307).
BlockedOneWayOrOther ==
    [][\A c \in Certs :
          ~abandoned /\ db.cert[c] = "active" /\ db'.cert[c] \in {"revoked", "retired"} =>
              c \in caCrl \/ ~db'.enabled[Holder[c]]]_vars

\* As long as there was no mishap, the registry never goes on calling a certificate active that
\* the CA has revoked, whichever openssl command failed.
RegistryAgreesWithIndex ==
    Idle /\ mishaps = 0 => \A c \in index : db.cert[c] # "active"

\* A device that stays blocked is out of the running broker's ACL in the end, although no owner
\* ever applies the change and Admin may have died while staging it.
BlockedIsEventuallyRefused ==
    \A x \in Devices : <>[](~db.enabled[x]) => <>[](x \notin loaded.acl)

\* With deaths too, a revoked certificate is refused in the end: a revocation that only reached
\* openssl's index is published by the daily refresh (certificate-service.js:583-589).
RevokedIsEventuallyRefused ==
    \A c \in Certs :
        <>[](db.cert[c] \in {"revoked", "retired"}) =>
            <>[](sup \in {"loaded", "running"} => c \in loaded.crl)

\* db.js:89: "All writes run through one queue, including OpenSSL operations and async auth.":
\* no later save undoes a saved revocation.
RevocationsAreKept ==
    [][\A c \in Certs : db.cert[c] \in {"revoked", "retired"} =>
                            db'.cert[c] \in {"revoked", "retired", "gone"}]_vars
=============================================================================
