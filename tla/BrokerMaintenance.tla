-------------------------- MODULE BrokerMaintenance --------------------------
(***************************************************************************)
(* The certificates of the gateway's own services and what reaches the     *)
(* broker of them (services/certificate-service.js, cli.js): the daily     *)
(* renewal, the owner's ./gateway broker-certificate after a change of     *)
(* names, and changes that wait for the owner, with the list of them       *)
(* (services/pending-broker-changes.js).                                   *)
(*                                                                         *)
(* gateway.py stops Admin while one of the commands of cli.js runs, so one *)
(* process writes at a time; in each of them jobs take turns (db.js).  A   *)
(* request keeps its turn here: one whose client leaves while it stages a  *)
(* change gives it up (server.js), and another may apply the change before *)
(* it is in the audit log.  A step is one openssl command or one atomic    *)
(* file write, and the process may die between any two.  Revisions are     *)
(* random: a copy of one is modelled by how it compares with the file      *)
(* `revision`.                                                             *)
(***************************************************************************)
EXTENDS Integers, Sequences

CONSTANTS
    Services,     \* the order in which they are renewed: the broker, then its clients
    MaxEdits,     \* bound: edits of MQTT_BROKER_EXTRA_SANS in gateway.env
    MaxStaged,    \* bound: changes that owners stage
    MaxMishaps    \* bound: deaths and failures of openssl
                  \* each service's certificate comes within 30 days of its end once

\* The broker is there.
ASSUME MaintenanceAssumption ==
    Len(Services) \in Nat \ {0} /\ DOMAIN Services = 1..Len(Services)

VARIABLES
    names,         \* MQTT_BROKER_EXTRA_SANS, numbered: in gateway.env, and as `process` read it
    files,         \* key and certificate of each service
    aged,          \* services whose first certificate is near its end
    process,       \* the process that runs: "admin", "cli" or none
    task,          \* what it does
    pending,       \* pending-revision: none, staged, or equal to revision
    cursor,        \* audit-cursor: is its revision the one in the file, and its auditId
    audit,         \* audit: events of changes that owners staged
    submittedAt,   \* when `revision` was written, by the events before it
    unsubmitted,   \* ghost: events of changes that no revision announced
    applied,       \* does applied-revision equal revision?
    supervisor,    \* the supervisor: its step, whether its revision equals the file, and
                   \*     the certificate mosquitto has read
    report,        \* what broker-certificate said last
    mishaps        \* counter for the bound

maintenanceVars == <<names, files, aged, process, task, pending, cursor, audit, submittedAt,
                     unsubmitted, applied, supervisor, report, mishaps>>

NoServiceCert == [key |-> 0, names |-> 0, first |-> FALSE]
NoTask == [op |-> "none", pc |-> "none", at |-> 1, cert |-> NoServiceCert]
Broker == Services[1]

\* Before ./gateway install.
MaintenanceInit ==
    /\ names = [file |-> 0, read |-> 0]
    /\ files = [s \in {Services[i] : i \in DOMAIN Services} |-> [key |-> 0, cert |-> NoServiceCert]]
    /\ aged = {} /\ process = "none" /\ task = NoTask
    /\ pending = "none" /\ cursor = [matches |-> FALSE, id |-> 0]
    /\ audit = 0 /\ submittedAt = -1 /\ unsubmitted = {}
    /\ applied = FALSE /\ supervisor = [pc |-> "down", current |-> FALSE, cert |-> NoServiceCert]
    /\ report = "none" /\ mishaps = 0

Continues(pc) == task' = [task EXCEPT !.pc = pc]
\* A command of cli.js ends with its only job.
End == task' = NoTask /\ process' = IF process = "cli" THEN "none" ELSE process
Starts(op, pc) == task.op = "none" /\ task' = [NoTask EXCEPT !.op = op, !.pc = pc]

-----------------------------------------------------------------------------
\* Who runs: install and update prepare with everything stopped.
Prepare ==
    /\ process = "none" /\ supervisor.pc = "down" /\ Starts("prepare", "service")
    /\ process' = "cli" /\ names' = [names EXCEPT !.read = names.file]
    /\ UNCHANGED <<files, aged, pending, cursor, audit, submittedAt, unsubmitted, applied,
                   supervisor, report, mishaps>>

\* The environment is read as the container starts.
StartAdmin ==
    /\ process = "none" /\ submittedAt >= 0
    /\ process' = "admin" /\ names' = [names EXCEPT !.read = names.file]
    /\ UNCHANGED <<files, aged, task, pending, cursor, audit, submittedAt, unsubmitted, applied,
                   supervisor, report, mishaps>>

Refresh ==
    /\ process = "admin" /\ Starts("refresh", "service")
    /\ UNCHANGED <<names, files, aged, process, pending, cursor, audit, submittedAt, unsubmitted,
                   applied, supervisor, report, mishaps>>

\* A route stages a change of the broker's files, then audits it.
Stage ==
    /\ process = "admin" /\ audit < MaxStaged /\ Starts("stage", "audit")
    /\ pending' = "staged"
    /\ UNCHANGED <<names, files, aged, process, cursor, audit, submittedAt, unsubmitted, applied,
                   supervisor, report, mishaps>>

Audit ==
    /\ task.pc = "audit" /\ End
    /\ audit' = audit + 1 /\ unsubmitted' = unsubmitted \cup {audit + 1}
    /\ UNCHANGED <<names, files, aged, pending, cursor, submittedAt, applied, supervisor, report,
                   mishaps>>

ApplyBrokerChanges ==
    /\ process = "admin" /\ pending # "none" /\ Starts("apply", "cursor")
    /\ UNCHANGED <<names, files, aged, process, pending, cursor, audit, submittedAt, unsubmitted,
                   applied, supervisor, report, mishaps>>

\* Admin has stopped: its queue was empty.
UpdateBrokerCertificate ==
    /\ process = "admin" /\ Starts("cli", "check") /\ process' = "cli"
    /\ report' = "none" /\ names' = [names EXCEPT !.read = names.file]
    /\ UNCHANGED <<files, aged, pending, cursor, audit, submittedAt, unsubmitted, applied,
                   supervisor, mishaps>>

EditEnvironment ==
    /\ names.file < MaxEdits /\ names' = [names EXCEPT !.file = @ + 1]
    /\ UNCHANGED <<files, aged, process, task, pending, cursor, audit, submittedAt, unsubmitted,
                   applied, supervisor, report, mishaps>>

-----------------------------------------------------------------------------
\* Only broker-certificate compares the names.
Current(s, matchSans) ==
    LET f == files[s] IN
    /\ f.key # 0 /\ f.cert # NoServiceCert /\ f.cert.key = f.key
    /\ ~(f.cert.first /\ s \in aged)
    /\ matchSans /\ s = Broker => f.cert.names = names.read

CheckBrokerCertificate ==
    /\ task.pc = "check"
    /\ \/ Current(Broker, TRUE) /\ report' = "matches" /\ End
       \/ ~Current(Broker, TRUE) /\ pending # "none" /\ report' = "refused" /\ End
       \/ ~Current(Broker, TRUE) /\ pending = "none" /\ Continues("service")
          /\ UNCHANGED <<process, report>>
    /\ UNCHANGED <<names, files, aged, pending, cursor, audit, submittedAt, unsubmitted, applied,
                   supervisor, mishaps>>

\* After a service: the next one, or the revision that has the broker read the files.
After == IF task.op # "cli" /\ task.at < Len(Services)
         THEN [task EXCEPT !.pc = "service", !.at = @ + 1] ELSE [task EXCEPT !.pc = "cursor"]

SkipService ==
    /\ task.pc = "service" /\ Current(Services[task.at], task.op = "cli") /\ task' = After
    /\ UNCHANGED <<names, files, aged, process, pending, cursor, audit, submittedAt, unsubmitted,
                   applied, supervisor, report, mishaps>>

\* The certificate is for the key there is, or for a new one.
Signed(s, key) ==
    [key |-> key, names |-> IF s = Broker THEN names.read ELSE 0,
     first |-> files[s].cert = NoServiceCert]

SignFor(s, key) ==
    /\ task.pc = "service" /\ ~Current(s, task.op = "cli")
    /\ task' = [task EXCEPT !.pc = IF files[s].key = 0 THEN "key" ELSE "cert",
                          !.cert = Signed(s, key)]
    /\ UNCHANGED <<names, files, aged, process, pending, cursor, audit, submittedAt, unsubmitted,
                   applied, supervisor, report, mishaps>>

\* Mutant of SignService: a renewal makes a new key.
SignServiceForNewKey == SignFor(Services[task.at], files[Services[task.at]].key + 1)

SignService ==
    LET s == Services[task.at] IN SignFor(s, IF files[s].key = 0 THEN 1 ELSE files[s].key)

PublishKey ==
    /\ task.pc = "key" /\ Continues("cert")
    /\ files' = [files EXCEPT ![Services[task.at]].key = task.cert.key]
    /\ UNCHANGED <<names, aged, process, pending, cursor, audit, submittedAt, unsubmitted, applied,
                   supervisor, report, mishaps>>

PublishCert ==
    /\ task.pc = "cert" /\ task' = After
    /\ files' = [files EXCEPT ![Services[task.at]].cert = task.cert]
    /\ UNCHANGED <<names, aged, process, pending, cursor, audit, submittedAt, unsubmitted, applied,
                   supervisor, report, mishaps>>

-----------------------------------------------------------------------------
\* submitBrokerRevision: applyBrokerChanges submits what it found staged, the others a new one.
Same == task.op = "apply" /\ pending = "current"

WriteCursor ==
    /\ task.pc = "cursor" /\ Continues("revision")
    /\ cursor' = [matches |-> Same, id |-> audit]
    /\ UNCHANGED <<names, files, aged, process, pending, audit, submittedAt, unsubmitted, applied,
                   supervisor, report, mishaps>>

WriteRevision ==
    /\ task.pc = "revision" /\ Continues(IF task.op = "cli" THEN "wait" ELSE "clear")
    /\ submittedAt' = audit /\ unsubmitted' = {} /\ cursor' = [cursor EXCEPT !.matches = TRUE]
    /\ \/ Same /\ UNCHANGED <<pending, applied, supervisor>>
       \/ /\ ~Same /\ applied' = FALSE /\ supervisor' = [supervisor EXCEPT !.current = FALSE]
          /\ pending' = IF task.op = "apply" THEN "current"
                        ELSE IF pending = "current" THEN "staged" ELSE pending
    /\ UNCHANGED <<names, files, aged, process, audit, report, mishaps>>

ClearPending ==
    /\ task.pc = "clear" /\ pending' = "none" /\ End
    /\ UNCHANGED <<names, files, aged, cursor, audit, submittedAt, unsubmitted, applied, supervisor,
                   report, mishaps>>

\* Mutant of Acknowledged: the file is there.
AcknowledgedOnce == TRUE

Acknowledged == applied

AwaitBroker ==
    /\ task.pc = "wait" /\ End
    /\ report' = IF Acknowledged THEN "updated" ELSE "unacknowledged"
    /\ UNCHANGED <<names, files, aged, pending, cursor, audit, submittedAt, unsubmitted, applied,
                   supervisor, mishaps>>

\* openssl fails, or the process dies.
Fails ==
    /\ task.op # "none" /\ mishaps < MaxMishaps /\ mishaps' = mishaps + 1
    /\ \/ task.pc = "service" /\ End
       \/ task' = NoTask /\ process' = "none"
    /\ UNCHANGED <<names, files, aged, pending, cursor, audit, submittedAt, unsubmitted, applied,
                   supervisor, report>>

\* The certificate of a service comes within 30 days of its end.
Age(s) ==
    /\ files[s].cert.first /\ aged' = aged \cup {s}
    /\ UNCHANGED <<names, files, process, task, pending, cursor, audit, submittedAt, unsubmitted,
                   applied, supervisor, report, mishaps>>

-----------------------------------------------------------------------------
\* The supervisor's loop (scripts/broker-entrypoint.sh).
Supervise(step) ==
    /\ step
    /\ UNCHANGED <<names, files, aged, process, task, pending, cursor, audit, submittedAt,
                   unsubmitted, report, mishaps>>

ReadRevision ==
    /\ supervisor.pc \in {"down", "run"} /\ submittedAt >= 0
    /\ supervisor.pc = "down" => process # "cli"
    /\ supervisor.pc = "run" => ~supervisor.current
    /\ supervisor' = [supervisor EXCEPT !.pc = "load", !.current = TRUE] /\ UNCHANGED applied

MosquittoLoads ==
    /\ supervisor.pc = "load"
    /\ supervisor' = [supervisor EXCEPT !.pc = "record", !.cert = files[Broker].cert]
    /\ UNCHANGED applied

RecordRevision ==
    /\ supervisor.pc = "record"
    /\ applied' = supervisor.current /\ supervisor' = [supervisor EXCEPT !.pc = "run"]

MosquittoEnds ==
    /\ supervisor.pc \in {"record", "run"} /\ process # "none"
    /\ supervisor' = [supervisor EXCEPT !.pc = "down"] /\ UNCHANGED applied

Supervisor == ReadRevision \/ MosquittoLoads \/ RecordRevision \/ MosquittoEnds

\* Both services stop for an update of the gateway.
StopAll ==
    /\ process = "admin" /\ task.op = "none" /\ process' = "none"
    /\ supervisor' = [supervisor EXCEPT !.pc = "down"]
    /\ UNCHANGED <<names, files, aged, task, pending, cursor, audit, submittedAt, unsubmitted,
                   applied, report, mishaps>>

MaintenanceNext ==
    \/ Prepare \/ StartAdmin \/ Refresh \/ Stage \/ Audit \/ ApplyBrokerChanges
    \/ UpdateBrokerCertificate \/ EditEnvironment \/ CheckBrokerCertificate
    \/ SkipService \/ SignService \/ PublishKey \/ PublishCert
    \/ WriteCursor \/ WriteRevision \/ ClearPending \/ AwaitBroker
    \/ Fails \/ StopAll \/ Supervise(Supervisor)
    \/ \E i \in DOMAIN Services : Age(Services[i])

MaintenanceSpec == MaintenanceInit /\ [][MaintenanceNext]_maintenanceVars

-----------------------------------------------------------------------------
\* A service never finds a certificate beside a key it was not made for: the key outlives
\* every renewal, wherever a renewal is interrupted (certificate-service.js:499).
CertificatesFitKeys ==
    \A i \in DOMAIN Services :
        LET f == files[Services[i]] IN f.cert # NoServiceCert => f.cert.key = f.key

\* "Broker certificate updated ...; broker restart acknowledged" (cli.js:45) is said only when
\* the running broker has read the certificate that is on disk, with the configured names.
AcknowledgesLoaded ==
    report # "updated" /\ report' = "updated" =>
        supervisor.cert = files[Broker].cert /\ supervisor.cert.names = names.read

AcknowledgedIsLoaded == [][AcknowledgesLoaded]_maintenanceVars

\* Mutant of Listed: the cursor is believed whatever revision it was written for.
ListedByCursor == {e \in 1..audit : e > cursor.id}

\* pendingBrokerChanges: events behind the cursor, or since `revision` was written when the
\* cursor belongs to another one.
Listed == {e \in 1..audit : e > IF cursor.matches THEN cursor.id ELSE submittedAt}

\* What waits for the owner is listed, all of it and nothing that was submitted, also after a
\* death between the two files that a submission writes.
ListIsExact == pending # "none" /\ task.op = "none" => Listed = unsubmitted
=============================================================================
