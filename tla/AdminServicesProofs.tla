------------------------ MODULE AdminServicesProofs ------------------------
(***************************************************************************)
(* Proofs about BrokerMaintenance, SystemUpdates and TrafficMetrics for    *)
(* every number of services, changes, checks, releases and hours: keys and *)
(* certificates, the list of staged changes, the command line's answer,    *)
(* the offered release, and the traffic that is counted.                   *)
(***************************************************************************)
EXTENDS BrokerMaintenance, SystemUpdates, TrafficMetrics, FiniteSetTheorems,
        WellFoundedInduction, TLAPS

Names == {Services[i] : i \in DOMAIN Services}
ServiceCerts == [key : Nat, names : Nat, first : BOOLEAN]
Tasks ==
    [op : {"none", "prepare", "refresh", "stage", "apply", "cli"},
     pc : {"none", "service", "audit", "cursor", "check", "key", "cert", "revision", "wait",
           "clear"},
     at : DOMAIN Services, cert : ServiceCerts]

FileTypes ==
    /\ names \in [file : Nat, read : Nat]
    /\ files \in [Names -> [key : Nat, cert : ServiceCerts]]
    /\ task \in Tasks
    /\ process \in {"none", "admin", "cli"}
BrokerTypes ==
    /\ pending \in {"none", "staged", "current"}
    /\ cursor \in [matches : BOOLEAN, id : Nat]
    /\ audit \in Nat /\ submittedAt \in Int /\ mishaps \in Nat
    /\ applied \in BOOLEAN
    /\ supervisor \in [pc : {"down", "load", "record", "run"}, current : BOOLEAN,
                       cert : ServiceCerts]

\* A certificate on disk is for the key on disk, and the one at hand for the key it will meet.
Keyed ==
    /\ \A s \in Names :
          files[s].cert # NoServiceCert => files[s].cert.key = files[s].key /\ files[s].key # 0
    /\ LET f == files[Services[task.at]] IN
          /\ task.pc = "key" => f.key = 0 /\ task.cert.key = 1
          /\ task.pc = "cert" => f.key # 0 /\ task.cert.key = f.key

\* Which events no revision announced, and which of them the cursor leaves out.
ListKnown ==
    /\ unsubmitted = {e \in 1..audit : e > submittedAt} /\ submittedAt <= audit
    /\ cursor.matches => cursor.id = submittedAt
    /\ pending = "current" => submittedAt = audit
    /\ task.pc = "revision" => cursor.id = audit
    /\ task.pc = "audit" => pending = "staged"

\* What the command line has done when it waits for the broker, and what the supervisor may have
\* read since.
Waits ==
    /\ task.op # "none" => process # "none"
    /\ task.op = "cli" => task.at = 1
    /\ task.op = "cli" /\ task.pc \in {"key", "cert"} => task.cert.names = names.read
    /\ task.op = "cli" /\ task.pc \in {"cursor", "revision", "wait"} =>
           files[Broker].cert.names = names.read
    /\ task.pc = "wait" =>
           /\ task.op = "cli"
           /\ applied => supervisor.cert = files[Broker].cert
           /\ supervisor.current /\ supervisor.pc = "record" =>
                  supervisor.cert = files[Broker].cert

MaintenanceInv == FileTypes /\ BrokerTypes /\ Keyed /\ ListKnown /\ Waits

LEMMA NamesOK ==
  /\ 1 \in DOMAIN Services /\ Broker \in Names
  /\ \A i \in DOMAIN Services : Services[i] \in Names
  BY MaintenanceAssumption DEF Names, Broker

LEMMA NoTaskIs ==
  /\ NoServiceCert \in ServiceCerts /\ NoTask \in Tasks
  /\ NoTask.op = "none" /\ NoTask.pc = "none" /\ NoTask.at = 1
  BY NamesOK DEF NoServiceCert, ServiceCerts, NoTask, Tasks

LEMMA InitMaintenanceInv == MaintenanceInit => MaintenanceInv
<1> SUFFICES ASSUME MaintenanceInit PROVE MaintenanceInv
  OBVIOUS
<1>1. \A s \in Names : files[s] = [key |-> 0, cert |-> NoServiceCert]
  BY DEF MaintenanceInit, Names
<1>2. FileTypes
  BY NoTaskIs DEF MaintenanceInit, FileTypes, Names
<1>3. BrokerTypes
  <2>1. supervisor = [pc |-> "down", current |-> FALSE, cert |-> NoServiceCert]
        /\ cursor = [matches |-> FALSE, id |-> 0]
    BY DEF MaintenanceInit
  <2>2. submittedAt = -1 /\ -1 \in Int /\ audit = 0 /\ mishaps = 0 /\ applied = FALSE
        /\ pending = "none"
    BY DEF MaintenanceInit
  <2> QED
    BY <2>1, <2>2, NoTaskIs DEF BrokerTypes
<1>4. Keyed /\ Waits
  <2>1. task = NoTask
    BY DEF MaintenanceInit
  <2>2. task.op = "none" /\ task.pc = "none"
    BY <2>1, NoTaskIs
  <2>3. \A s \in Names : files[s].cert = NoServiceCert
    BY <1>1
  <2> QED
    BY <2>2, <2>3 DEF Keyed, Waits
<1>5. ListKnown
  BY NoTaskIs DEF MaintenanceInit, ListKnown
<1> QED
  BY <1>2, <1>3, <1>4, <1>5 DEF MaintenanceInv

-----------------------------------------------------------------------------
(* What a step leaves alone. *)

LEMMA SameKeyed ==
  ASSUME Keyed, UNCHANGED files, task'.pc \notin {"key", "cert"}
  PROVE  Keyed'
  BY DEF Keyed

LEMMA SameList ==
  ASSUME ListKnown, UNCHANGED <<audit, submittedAt, unsubmitted, cursor, pending>>,
         task'.pc \notin {"revision", "audit"}
  PROVE  ListKnown'
  BY DEF ListKnown

\* A task begins in a process that is there.
LEMMA StartsIs ==
  ASSUME NEW op \in {"prepare", "refresh", "stage", "apply", "cli"},
         NEW pc \in {"service", "audit", "cursor", "check"}, Starts(op, pc)
  PROVE  /\ task' \in Tasks /\ task'.op = op /\ task'.pc = pc /\ task'.at = 1
         /\ task.op = "none"
  BY NoTaskIs DEF Starts, Tasks, NoTask

LEMMA StartKeeps ==
  ASSUME MaintenanceInv,
         Prepare \/ Refresh \/ Stage \/ ApplyBrokerChanges \/ UpdateBrokerCertificate
  PROVE  MaintenanceInv'
<1>1. /\ task' \in Tasks /\ task'.at = 1 /\ task.op = "none"
      /\ task'.op = "cli" => task'.pc = "check"
      /\ task'.pc \in {"service", "audit", "cursor", "check"}
      /\ task'.pc = "audit" => Stage
  BY StartsIs DEF Prepare, Refresh, Stage, ApplyBrokerChanges, UpdateBrokerCertificate
<1>2. UNCHANGED <<files, cursor, audit, submittedAt, unsubmitted, applied, supervisor, mishaps>>
  BY DEF Prepare, Refresh, Stage, ApplyBrokerChanges, UpdateBrokerCertificate
<1>3. process' \in {"admin", "cli"}
  BY DEF Prepare, Refresh, Stage, ApplyBrokerChanges, UpdateBrokerCertificate
<1>4. names' = names \/ names' = [names EXCEPT !.read = names.file]
  BY DEF Prepare, Refresh, Stage, ApplyBrokerChanges, UpdateBrokerCertificate
<1>5. names' \in [file : Nat, read : Nat]
  BY <1>4 DEF MaintenanceInv, FileTypes
<1>6. /\ Stage => pending' = "staged"
      /\ pending' = pending \/ pending' = "staged"
  BY DEF Prepare, Refresh, Stage, ApplyBrokerChanges, UpdateBrokerCertificate
<1>7. FileTypes' /\ BrokerTypes'
  BY <1>1, <1>2, <1>3, <1>5, <1>6 DEF MaintenanceInv, FileTypes, BrokerTypes
<1>8. Keyed'
  BY <1>1, <1>2, SameKeyed DEF MaintenanceInv
<1>9. ListKnown'
  BY <1>1, <1>2, <1>6 DEF MaintenanceInv, ListKnown
<1>10. Waits'
  BY <1>1, <1>2, <1>3 DEF Waits
<1> QED
  BY <1>7, <1>8, <1>9, <1>10 DEF MaintenanceInv

LEMMA StartAdminKeeps ==
  ASSUME MaintenanceInv, StartAdmin \/ EditEnvironment
  PROVE  MaintenanceInv'
<1>1. UNCHANGED <<files, task, pending, cursor, audit, submittedAt, unsubmitted, applied,
                  supervisor, mishaps>>
  BY DEF StartAdmin, EditEnvironment
<1>2. /\ process' \in {process, "admin"} /\ names' \in [file : Nat, read : Nat]
      /\ task.op = "none" \/ (names'.read = names.read /\ process' = process)
  <2>1. CASE StartAdmin
    BY <2>1 DEF StartAdmin, MaintenanceInv, FileTypes, Waits
  <2>2. CASE EditEnvironment
    BY <2>2 DEF EditEnvironment, MaintenanceInv, FileTypes
  <2> QED
    BY <2>1, <2>2
<1>3. FileTypes' /\ BrokerTypes'
  BY <1>1, <1>2 DEF MaintenanceInv, FileTypes, BrokerTypes
<1>4. Keyed' /\ ListKnown'
  BY <1>1 DEF MaintenanceInv, Keyed, ListKnown
<1>5. Waits'
  BY <1>1, <1>2 DEF MaintenanceInv, Waits
<1> QED
  BY <1>3, <1>4, <1>5 DEF MaintenanceInv

\* The task ends, or the process dies, or both services stop.
LEMMA EndKeeps ==
  ASSUME MaintenanceInv, task' = NoTask, process' \in {process, "none"},
         UNCHANGED <<names, files, cursor, audit, submittedAt, unsubmitted, applied>>,
         pending' \in {pending, "none"}, mishaps' \in Nat,
         UNCHANGED supervisor \/ supervisor' = [supervisor EXCEPT !.pc = "down"]
  PROVE  MaintenanceInv'
<1>1. FileTypes' /\ BrokerTypes'
  BY NoTaskIs DEF MaintenanceInv, FileTypes, BrokerTypes
<1>2. Keyed' /\ ListKnown' /\ Waits'
  BY NoTaskIs DEF MaintenanceInv, Keyed, ListKnown, Waits
<1> QED
  BY <1>1, <1>2 DEF MaintenanceInv

LEMMA OverKeeps ==
  ASSUME MaintenanceInv, ClearPending \/ AwaitBroker \/ Fails
  PROVE  MaintenanceInv'
<1>1. mishaps' \in Nat
  BY DEF ClearPending, AwaitBroker, Fails, MaintenanceInv, BrokerTypes
<1> QED
  BY <1>1, EndKeeps DEF ClearPending, AwaitBroker, Fails, End

LEMMA StopKeeps ==
  ASSUME MaintenanceInv, StopAll
  PROVE  MaintenanceInv'
<1>1. FileTypes' /\ BrokerTypes'
  BY DEF StopAll, MaintenanceInv, FileTypes, BrokerTypes
<1>2. Keyed' /\ ListKnown'
  BY DEF StopAll, MaintenanceInv, Keyed, ListKnown
<1>3. Waits'
  BY DEF StopAll, MaintenanceInv, Waits, BrokerTypes
<1> QED
  BY <1>1, <1>2, <1>3 DEF MaintenanceInv

LEMMA AuditKeeps ==
  ASSUME MaintenanceInv, Audit
  PROVE  MaintenanceInv'
<1>1. /\ task.pc = "audit" /\ task' = NoTask /\ process' \in {process, "none"}
      /\ audit' = audit + 1 /\ unsubmitted' = unsubmitted \cup {audit + 1}
      /\ UNCHANGED <<names, files, pending, cursor, submittedAt, applied, supervisor, mishaps>>
  BY DEF Audit, End
<1>2. FileTypes' /\ BrokerTypes'
  BY <1>1, NoTaskIs DEF MaintenanceInv, FileTypes, BrokerTypes
<1>3. Keyed' /\ Waits'
  BY <1>1, NoTaskIs DEF MaintenanceInv, Keyed, Waits
<1>4. ListKnown'
  <2>1. audit \in Nat /\ submittedAt \in Int /\ submittedAt <= audit /\ pending = "staged"
    BY <1>1 DEF MaintenanceInv, BrokerTypes, ListKnown
  <2>2. {e \in 1..(audit + 1) : e > submittedAt}
          = {e \in 1..audit : e > submittedAt} \cup {audit + 1}
    BY <2>1
  <2> QED
    BY <1>1, <2>1, <2>2, NoTaskIs DEF MaintenanceInv, ListKnown
<1> QED
  BY <1>2, <1>3, <1>4 DEF MaintenanceInv

-----------------------------------------------------------------------------
(* The renewal. *)

LEMMA CheckKeeps ==
  ASSUME MaintenanceInv, CheckBrokerCertificate
  PROVE  MaintenanceInv'
<1>1. UNCHANGED <<names, files, cursor, audit, submittedAt, unsubmitted, applied, supervisor,
                  mishaps, pending>>
  BY DEF CheckBrokerCertificate
<1>2. CASE End
  BY <1>1, <1>2, EndKeeps DEF End, MaintenanceInv, BrokerTypes
<1>3. CASE Continues("service") /\ UNCHANGED process
  <2>1. task' = [task EXCEPT !.pc = "service"] /\ task \in Tasks
    BY <1>3 DEF Continues, MaintenanceInv, FileTypes
  <2>2. task' \in Tasks /\ task'.pc = "service" /\ task'.op = task.op /\ task'.at = task.at
    BY <2>1 DEF Tasks
  <2>3. FileTypes' /\ BrokerTypes'
    BY <1>1, <1>3, <2>2 DEF MaintenanceInv, FileTypes, BrokerTypes
  <2>4. Keyed' /\ ListKnown' /\ Waits'
    BY <1>1, <1>3, <2>2, SameKeyed, SameList DEF MaintenanceInv, Waits
  <2> QED
    BY <2>3, <2>4 DEF MaintenanceInv
<1> QED
  BY <1>2, <1>3 DEF CheckBrokerCertificate

\* After a service comes the next one, or the revision.
LEMMA AfterIs ==
  ASSUME MaintenanceInv
  PROVE  /\ After \in Tasks /\ After.op = task.op /\ After.pc \in {"service", "cursor"}
         /\ After.op = "cli" => After.at = task.at /\ After.pc = "cursor"
<1>1. task \in Tasks
  BY DEF MaintenanceInv, FileTypes
<1>2. CASE task.op # "cli" /\ task.at < Len(Services)
  <2>1. task.at + 1 \in DOMAIN Services
    BY <1>1, <1>2, MaintenanceAssumption DEF Tasks
  <2> QED
    BY <1>1, <1>2, <2>1 DEF After, Tasks
<1>3. CASE ~(task.op # "cli" /\ task.at < Len(Services))
  BY <1>1, <1>3 DEF After, Tasks
<1> QED
  BY <1>2, <1>3

LEMMA SkipKeeps ==
  ASSUME MaintenanceInv, SkipService
  PROVE  MaintenanceInv'
<1>1. /\ task.pc = "service" /\ Current(Services[task.at], task.op = "cli") /\ task' = After
      /\ UNCHANGED <<names, files, process, pending, cursor, audit, submittedAt, unsubmitted,
                     applied, supervisor, mishaps>>
  BY DEF SkipService
<1>2. FileTypes' /\ BrokerTypes'
  BY <1>1, AfterIs DEF MaintenanceInv, FileTypes, BrokerTypes
<1>3. Keyed' /\ ListKnown'
  BY <1>1, AfterIs, SameKeyed, SameList DEF MaintenanceInv
<1>4. task.op = "cli" => files[Broker].cert.names = names.read
  BY <1>1 DEF Current, MaintenanceInv, Waits, Broker
<1>5. Waits'
  BY <1>1, <1>4, AfterIs DEF MaintenanceInv, Waits
<1> QED
  BY <1>2, <1>3, <1>5 DEF MaintenanceInv

LEMMA SignKeeps ==
  ASSUME MaintenanceInv, SignService
  PROVE  MaintenanceInv'
<1> DEFINE s == Services[task.at]
           key == IF files[s].key = 0 THEN 1 ELSE files[s].key
           pc == IF files[s].key = 0 THEN "key" ELSE "cert"
<1>1. /\ task.pc = "service"
      /\ task' = [task EXCEPT !.pc = pc, !.cert = Signed(s, key)]
      /\ UNCHANGED <<names, files, process, pending, cursor, audit, submittedAt, unsubmitted,
                     applied, supervisor, mishaps>>
  BY DEF SignService, SignFor
<1>2. s \in Names /\ task \in Tasks /\ files[s] \in [key : Nat, cert : ServiceCerts]
      /\ names \in [file : Nat, read : Nat]
  BY NamesOK DEF MaintenanceInv, FileTypes, Tasks
<1>3. /\ Signed(s, key) \in ServiceCerts /\ Signed(s, key).key = key
      /\ s = Broker => Signed(s, key).names = names.read
  BY <1>2 DEF Signed, ServiceCerts
<1>4. /\ task' \in Tasks /\ task'.op = task.op /\ task'.at = task.at /\ task'.pc = pc
      /\ task'.cert = Signed(s, key)
  BY <1>1, <1>2, <1>3 DEF Tasks
<1>5. FileTypes' /\ BrokerTypes'
  BY <1>1, <1>4 DEF MaintenanceInv, FileTypes, BrokerTypes
<1>6. Keyed'
  BY <1>1, <1>2, <1>3, <1>4 DEF MaintenanceInv, Keyed
<1>7. ListKnown'
  BY <1>1, <1>4, SameList DEF MaintenanceInv
<1>8. Waits'
  BY <1>1, <1>3, <1>4 DEF MaintenanceInv, Waits, Broker
<1> QED
  BY <1>5, <1>6, <1>7, <1>8 DEF MaintenanceInv

LEMMA PublishKeyKeeps ==
  ASSUME MaintenanceInv, PublishKey
  PROVE  MaintenanceInv'
<1> DEFINE s == Services[task.at]
<1>1. /\ task.pc = "key" /\ task' = [task EXCEPT !.pc = "cert"]
      /\ files' = [files EXCEPT ![s].key = task.cert.key]
      /\ UNCHANGED <<names, process, pending, cursor, audit, submittedAt, unsubmitted,
                     applied, supervisor, mishaps>>
  BY DEF PublishKey, Continues
<1>2. s \in Names /\ task \in Tasks /\ files \in [Names -> [key : Nat, cert : ServiceCerts]]
  BY NamesOK DEF MaintenanceInv, FileTypes, Tasks
<1>3. /\ task' \in Tasks /\ task'.op = task.op /\ task'.at = task.at /\ task'.pc = "cert"
      /\ task'.cert = task.cert /\ task.cert \in ServiceCerts
  BY <1>1, <1>2 DEF Tasks
<1>4. /\ files' \in [Names -> [key : Nat, cert : ServiceCerts]]
      /\ \A n \in Names : files'[n].cert = files[n].cert
      /\ \A n \in Names : n # s => files'[n] = files[n]
      /\ files'[s].key = task.cert.key
  BY <1>1, <1>2, <1>3 DEF ServiceCerts
<1>5. FileTypes' /\ BrokerTypes'
  BY <1>1, <1>3, <1>4 DEF MaintenanceInv, FileTypes, BrokerTypes
<1>6. Keyed'
  <2>1. files[s].key = 0 /\ task.cert.key = 1 /\ files[s].cert = NoServiceCert
    BY <1>1, <1>2 DEF MaintenanceInv, Keyed
  <2>2. ASSUME NEW n \in Names, files'[n].cert # NoServiceCert
        PROVE  files'[n].cert.key = files'[n].key /\ files'[n].key # 0
    BY <1>4, <2>1, <2>2 DEF MaintenanceInv, Keyed
  <2> QED
    BY <1>3, <1>4, <2>1, <2>2 DEF Keyed
<1>7. ListKnown'
  BY <1>1, <1>3, SameList DEF MaintenanceInv
<1>8. Waits'
  BY <1>1, <1>3 DEF MaintenanceInv, Waits
<1> QED
  BY <1>5, <1>6, <1>7, <1>8 DEF MaintenanceInv

LEMMA PublishCertKeeps ==
  ASSUME MaintenanceInv, PublishCert
  PROVE  MaintenanceInv'
<1> DEFINE s == Services[task.at]
<1>1. /\ task.pc = "cert" /\ task' = After
      /\ files' = [files EXCEPT ![s].cert = task.cert]
      /\ UNCHANGED <<names, process, pending, cursor, audit, submittedAt, unsubmitted,
                     applied, supervisor, mishaps>>
  BY DEF PublishCert
<1>2. s \in Names /\ task \in Tasks /\ files \in [Names -> [key : Nat, cert : ServiceCerts]]
  BY NamesOK DEF MaintenanceInv, FileTypes, Tasks
<1>3. /\ files' \in [Names -> [key : Nat, cert : ServiceCerts]]
      /\ \A n \in Names : files'[n].key = files[n].key
      /\ \A n \in Names : n # s => files'[n] = files[n]
      /\ files'[s].cert = task.cert
  BY <1>1, <1>2 DEF Tasks
<1>4. FileTypes' /\ BrokerTypes'
  BY <1>1, <1>3, AfterIs DEF MaintenanceInv, FileTypes, BrokerTypes
<1>5. Keyed'
  <2>1. files[s].key # 0 /\ task.cert.key = files[s].key
    BY <1>1 DEF MaintenanceInv, Keyed
  <2>2. ASSUME NEW n \in Names, files'[n].cert # NoServiceCert
        PROVE  files'[n].cert.key = files'[n].key /\ files'[n].key # 0
    BY <1>3, <2>1, <2>2 DEF MaintenanceInv, Keyed
  <2> QED
    BY <1>1, <2>2, AfterIs DEF Keyed
<1>6. ListKnown'
  BY <1>1, AfterIs, SameList DEF MaintenanceInv
<1>7. Waits'
  <2>1. task.op = "cli" => s = Broker /\ files'[Broker].cert.names = names.read
    BY <1>1, <1>3 DEF MaintenanceInv, Waits, Broker
  <2> QED
    BY <1>1, <2>1, AfterIs DEF MaintenanceInv, Waits
<1> QED
  BY <1>4, <1>5, <1>6, <1>7 DEF MaintenanceInv

-----------------------------------------------------------------------------
(* The revision, and the supervisor that reads it. *)

LEMMA WriteCursorKeeps ==
  ASSUME MaintenanceInv, WriteCursor
  PROVE  MaintenanceInv'
<1>1. /\ task.pc = "cursor" /\ task' = [task EXCEPT !.pc = "revision"]
      /\ cursor' = [matches |-> Same, id |-> audit]
      /\ UNCHANGED <<names, files, process, pending, audit, submittedAt, unsubmitted, applied,
                     supervisor, mishaps>>
  BY DEF WriteCursor, Continues
<1>2. /\ task' \in Tasks /\ task'.op = task.op /\ task'.at = task.at /\ task'.pc = "revision"
  BY <1>1 DEF MaintenanceInv, FileTypes, Tasks
<1>3. cursor' \in [matches : BOOLEAN, id : Nat] /\ cursor'.id = audit
      /\ (cursor'.matches => pending = "current")
  BY <1>1 DEF MaintenanceInv, BrokerTypes, Same
<1>4. FileTypes' /\ BrokerTypes'
  BY <1>1, <1>2, <1>3 DEF MaintenanceInv, FileTypes, BrokerTypes
<1>5. Keyed'
  BY <1>1, <1>2, SameKeyed DEF MaintenanceInv
<1>6. ListKnown'
  BY <1>1, <1>2, <1>3 DEF MaintenanceInv, ListKnown
<1>7. Waits'
  BY <1>1, <1>2 DEF MaintenanceInv, Waits
<1> QED
  BY <1>4, <1>5, <1>6, <1>7 DEF MaintenanceInv

LEMMA WriteRevisionKeeps ==
  ASSUME MaintenanceInv, WriteRevision
  PROVE  MaintenanceInv'
<1> DEFINE pc == IF task.op = "cli" THEN "wait" ELSE "clear"
<1>1. /\ task.pc = "revision" /\ task' = [task EXCEPT !.pc = pc]
      /\ submittedAt' = audit /\ unsubmitted' = {} /\ cursor' = [cursor EXCEPT !.matches = TRUE]
      /\ UNCHANGED <<names, files, process, audit, mishaps>>
  BY DEF WriteRevision, Continues
<1>2. /\ task' \in Tasks /\ task'.op = task.op /\ task'.at = task.at /\ task'.pc = pc
  BY <1>1 DEF MaintenanceInv, FileTypes, Tasks
<1>3. cursor' \in [matches : BOOLEAN, id : Nat] /\ submittedAt' \in Int
  <2>1. cursor \in [matches : BOOLEAN, id : Nat] /\ audit \in Nat
    BY DEF MaintenanceInv, BrokerTypes
  <2>2. cursor' = [cursor EXCEPT !.matches = TRUE] /\ submittedAt' = audit
    BY <1>1
  <2>3. cursor' \in [matches : BOOLEAN, id : Nat]
    BY <2>1, <2>2
  <2> QED
    BY <2>1, <2>2, <2>3
<1>4. ASSUME Same, UNCHANGED <<pending, applied, supervisor>>
      PROVE  BrokerTypes' /\ Waits'
  <2>1. BrokerTypes'
    <3>1. pending' = pending /\ applied' = applied /\ supervisor' = supervisor
      BY <1>4
    <3>2. audit' = audit /\ mishaps' = mishaps
      BY <1>1
    <3> QED
      BY <1>3, <3>1, <3>2 DEF MaintenanceInv, BrokerTypes
  <2>2. Waits'
    BY <1>1, <1>2, <1>4 DEF MaintenanceInv, Waits, Same
  <2> QED
    BY <2>1, <2>2
<1>5. ASSUME ~Same
      PROVE  BrokerTypes' /\ Waits'
  <2>1. /\ applied' = FALSE /\ supervisor' = [supervisor EXCEPT !.current = FALSE]
        /\ pending' = IF task.op = "apply" THEN "current"
                      ELSE IF pending = "current" THEN "staged" ELSE pending
    BY <1>5 DEF WriteRevision
  <2>2. BrokerTypes'
    <3>1. supervisor' \in [pc : {"down", "load", "record", "run"}, current : BOOLEAN,
                           cert : ServiceCerts]
      BY <2>1 DEF MaintenanceInv, BrokerTypes
    <3>2. pending' \in {"none", "staged", "current"}
      BY <2>1 DEF MaintenanceInv, BrokerTypes
    <3> QED
      BY <1>1, <1>3, <2>1, <3>1, <3>2 DEF MaintenanceInv, BrokerTypes
  <2>3. supervisor'.current = FALSE
    BY <2>1 DEF MaintenanceInv, BrokerTypes
  <2>4. Waits'
    BY <1>1, <1>2, <2>1, <2>3 DEF MaintenanceInv, Waits
  <2> QED
    BY <2>2, <2>4
<1>6. BrokerTypes' /\ Waits'
  BY <1>4, <1>5 DEF WriteRevision
<1>7. FileTypes' /\ Keyed'
  BY <1>1, <1>2, SameKeyed DEF MaintenanceInv, FileTypes
<1>8. ListKnown'
  <2>1. audit \in Nat /\ cursor.id = audit /\ cursor'.id = audit
    BY <1>1 DEF MaintenanceInv, BrokerTypes, ListKnown
  <2>2. {e \in 1..audit : e > audit} = {}
    BY <2>1
  <2> QED
    BY <1>1, <1>2, <2>1, <2>2 DEF ListKnown
<1> QED
  BY <1>6, <1>7, <1>8 DEF MaintenanceInv

LEMMA SuperviseKeeps ==
  ASSUME MaintenanceInv, Supervise(Supervisor)
  PROVE  MaintenanceInv'
<1>1. /\ Supervisor
      /\ UNCHANGED <<names, files, process, task, pending, cursor, audit, submittedAt,
                     unsubmitted, mishaps>>
  BY DEF Supervise
<1>2. /\ files[Broker].cert \in ServiceCerts
      /\ supervisor \in [pc : {"down", "load", "record", "run"}, current : BOOLEAN,
                         cert : ServiceCerts]
      /\ applied \in BOOLEAN
  BY NamesOK DEF MaintenanceInv, FileTypes, BrokerTypes
<1>3. /\ supervisor' \in [pc : {"down", "load", "record", "run"}, current : BOOLEAN,
                          cert : ServiceCerts]
      /\ applied' \in BOOLEAN
  BY <1>1, <1>2 DEF Supervisor, ReadRevision, MosquittoLoads, RecordRevision, MosquittoEnds
<1>4. FileTypes' /\ BrokerTypes' /\ Keyed' /\ ListKnown'
  BY <1>1, <1>3 DEF MaintenanceInv, FileTypes, BrokerTypes, Keyed, ListKnown
<1>5. ASSUME task.pc = "wait"
      PROVE  /\ applied' => supervisor'.cert = files[Broker].cert
             /\ supervisor'.current /\ supervisor'.pc = "record" =>
                    supervisor'.cert = files[Broker].cert
  <2>1. CASE ReadRevision
    BY <1>2, <1>5, <2>1 DEF ReadRevision, MaintenanceInv, Waits
  <2>2. CASE MosquittoLoads
    BY <1>2, <1>5, <2>2 DEF MosquittoLoads, MaintenanceInv, Waits
  <2>3. CASE RecordRevision
    BY <1>2, <1>5, <2>3 DEF RecordRevision, MaintenanceInv, Waits
  <2>4. CASE MosquittoEnds
    BY <1>2, <1>5, <2>4 DEF MosquittoEnds, MaintenanceInv, Waits
  <2> QED
    BY <1>1, <2>1, <2>2, <2>3, <2>4 DEF Supervisor
<1>6. Waits'
  BY <1>1, <1>5 DEF MaintenanceInv, Waits
<1> QED
  BY <1>4, <1>6 DEF MaintenanceInv

LEMMA StillKeeps ==
  ASSUME MaintenanceInv,
         UNCHANGED <<names, files, process, task, pending, cursor, audit, submittedAt,
                     unsubmitted, applied, supervisor, mishaps>>
  PROVE  MaintenanceInv'
  BY DEF MaintenanceInv, FileTypes, BrokerTypes, Keyed, ListKnown, Waits

LEMMA StepMaintenanceInv ==
  MaintenanceInv /\ [MaintenanceNext]_maintenanceVars => MaintenanceInv'
<1> SUFFICES ASSUME MaintenanceInv, [MaintenanceNext]_maintenanceVars
             PROVE  MaintenanceInv'
  OBVIOUS
<1>1. ASSUME NEW i \in DOMAIN Services, Age(Services[i])
      PROVE  MaintenanceInv'
  BY <1>1, StillKeeps DEF Age
<1>2. CASE UNCHANGED maintenanceVars
  BY <1>2, StillKeeps DEF maintenanceVars
<1> QED
  BY <1>1, <1>2, StartKeeps, StartAdminKeeps, OverKeeps, StopKeeps, AuditKeeps, CheckKeeps,
     SkipKeeps, SignKeeps, PublishKeyKeeps, PublishCertKeeps, WriteCursorKeeps,
     WriteRevisionKeeps, SuperviseKeeps
     DEF MaintenanceNext

LEMMA MaintenanceInvAlways == MaintenanceSpec => []MaintenanceInv
  BY InitMaintenanceInv, StepMaintenanceInv, PTL DEF MaintenanceSpec

\* A service of the gateway never finds a certificate beside a key it was not made for, wherever
\* a renewal is interrupted (certificate-service.js:499).
THEOREM ServiceKeysFit == MaintenanceSpec => []CertificatesFitKeys
<1>1. MaintenanceInv => CertificatesFitKeys
  BY DEF MaintenanceInv, Keyed, CertificatesFitKeys, Names
<1> QED
  BY <1>1, MaintenanceInvAlways, PTL

\* What waits for the owner is listed, all of it and nothing that was submitted, also after a
\* death between the cursor and the revision (pending-broker-changes.js, db.js).
THEOREM PendingListIsExact == MaintenanceSpec => []ListIsExact
<1>1. MaintenanceInv => ListIsExact
  BY DEF MaintenanceInv, BrokerTypes, ListKnown, ListIsExact, Listed
<1> QED
  BY <1>1, MaintenanceInvAlways, PTL

\* The command line says that the broker's restart is acknowledged only when the broker that
\* runs has read the certificate on disk, with the configured names (cli.js:45).
THEOREM AcknowledgedLoaded == MaintenanceSpec => AcknowledgedIsLoaded
<1>1. MaintenanceInv /\ [MaintenanceNext]_maintenanceVars =>
          [AcknowledgesLoaded]_maintenanceVars
  <2> SUFFICES ASSUME MaintenanceInv, [MaintenanceNext]_maintenanceVars,
                      report # "updated", report' = "updated"
               PROVE  supervisor.cert = files[Broker].cert
                      /\ supervisor.cert.names = names.read
    BY DEF AcknowledgesLoaded
  <2>1. AwaitBroker
    BY DEF MaintenanceNext, maintenanceVars, Prepare, StartAdmin, Refresh, Stage, Audit,
           ApplyBrokerChanges, UpdateBrokerCertificate, EditEnvironment, CheckBrokerCertificate,
           SkipService, SignService, SignFor, PublishKey, PublishCert, WriteCursor,
           WriteRevision, ClearPending, Fails, StopAll, Supervise, Age
  <2>2. task.pc = "wait" /\ applied
    BY <2>1 DEF AwaitBroker, Acknowledged
  <2> QED
    BY <2>2 DEF MaintenanceInv, Waits
<1> QED
  BY <1>1, MaintenanceInvAlways, PTL DEF MaintenanceSpec, AcknowledgedIsLoaded

-----------------------------------------------------------------------------
(* The order of versions, in which Admin and the host must agree.          *)

Identifiers == {0, 1} \X Nat

LEMMA IdentifierOrder ==
  ASSUME NEW x \in Identifiers, NEW y \in Identifiers
  PROVE  IdentifierBefore(x, y) <=> NumbersLess(x, y)
<1>1. /\ Len(x) = 2 /\ x[1] \in {0, 1} /\ x[2] \in Nat
      /\ Len(y) = 2 /\ y[1] \in {0, 1} /\ y[2] \in Nat
  BY DEF Identifiers
<1>2. 1..2 = {1, 2} /\ 1..0 = {} /\ 1..1 = {1}
  OBVIOUS
<1>3. NumbersLess(x, y) <=> x[1] < y[1] \/ (x[2] < y[2] /\ x[1] = y[1])
  BY <1>1, <1>2 DEF NumbersLess, TupleLess, NumberLess
<1> QED
  BY <1>1, <1>3 DEF IdentifierBefore

LEMMA PrereleaseOrder ==
  ASSUME NEW p \in Seq(Identifiers), NEW q \in Seq(Identifiers)
  PROVE  PrereleaseBefore(p, q) <=> PrereleaseLess(p, q)
<1>1. ASSUME NEW i \in 1..Len(q), i <= Len(p)
      PROVE  IdentifierBefore(p[i], q[i]) <=> NumbersLess(p[i], q[i])
  <2>1. p[i] \in Identifiers /\ q[i] \in Identifiers
    BY <1>1
  <2> QED
    BY <2>1, IdentifierOrder
<1>2. ASSUME PrereleaseBefore(p, q)
      PROVE  PrereleaseLess(p, q)
  <2>1. PICK i \in 1..Len(q) :
             /\ \A j \in 1..(i - 1) : j <= Len(p) /\ p[j] = q[j]
             /\ i > Len(p) \/ IdentifierBefore(p[i], q[i])
    BY <1>2 DEF PrereleaseBefore
  <2>2. CASE i > Len(p)
    <3>1. Len(p) < Len(q) /\ \A j \in 1..Len(p) : p[j] = q[j]
      BY <2>1, <2>2
    <3> QED
      BY <3>1 DEF PrereleaseLess, TupleLess
  <2>3. CASE i <= Len(p)
    <3>1. i \in 1..Len(p) /\ NumbersLess(p[i], q[i])
      BY <1>1, <2>1, <2>3
    <3> QED
      BY <2>1, <3>1 DEF PrereleaseLess, TupleLess
  <2> QED
    BY <2>2, <2>3
<1>3. ASSUME PrereleaseLess(p, q)
      PROVE  PrereleaseBefore(p, q)
  <2>1. ASSUME NEW i \in 1..Len(p), i <= Len(q), NumbersLess(p[i], q[i]),
               \A j \in 1..(i - 1) : p[j] = q[j]
        PROVE  PrereleaseBefore(p, q)
    <3>1. i \in 1..Len(q) /\ IdentifierBefore(p[i], q[i])
      BY <1>1, <2>1
    <3>2. \A j \in 1..(i - 1) : j <= Len(p) /\ p[j] = q[j]
      BY <2>1
    <3> QED
      BY <3>1, <3>2 DEF PrereleaseBefore
  <2>2. CASE Len(p) < Len(q) /\ \A j \in 1..Len(p) : p[j] = q[j]
    <3>1. Len(p) + 1 \in 1..Len(q) /\ Len(p) + 1 > Len(p)
      BY <2>2
    <3>2. \A j \in 1..(Len(p) + 1 - 1) : j <= Len(p) /\ p[j] = q[j]
      BY <2>2
    <3> QED
      BY <3>1, <3>2 DEF PrereleaseBefore
  <2> QED
    BY <1>3, <2>1, <2>2 DEF PrereleaseLess, TupleLess
<1> QED
  BY <1>2, <1>3

LEMMA CoreIs ==
  ASSUME NEW v \in SemVers
  PROVE  /\ v.core[1] \in Nat /\ v.core[2] \in Nat /\ v.core[3] \in Nat
         /\ v.pre \in Seq(Identifiers)
         /\ v.core = <<v.core[1], v.core[2], v.core[3]>>
  BY DEF SemVers, Identifiers

LEMMA CoresEqual ==
  ASSUME NEW v \in SemVers, NEW w \in SemVers
  PROVE  v.core = w.core
           <=> v.core[1] = w.core[1] /\ v.core[2] = w.core[2] /\ v.core[3] = w.core[3]
  <1>1. v.core = <<v.core[1], v.core[2], v.core[3]>> /\ w.core = <<w.core[1], w.core[2], w.core[3]>>
    BY CoreIs
  <1> QED
    BY <1>1

\* The cores are compared before the prereleases.
CoreLess(v, w) ==
  LET a == v.core  b == w.core
  IN  \/ a[1] < b[1]
      \/ a[1] = b[1] /\ a[2] < b[2]
      \/ a[1] = b[1] /\ a[2] = b[2] /\ a[3] < b[3]

LEMMA CoreOrder ==
  ASSUME NEW v \in SemVers, NEW w \in SemVers
  PROVE  Before(v, w)
           <=> \/ CoreLess(v, w)
               \/ /\ v.core = w.core /\ v.pre # <<>>
                  /\ w.pre = <<>> \/ PrereleaseBefore(v.pre, w.pre)
<1>1. 1..3 = {1, 2, 3} /\ 1..(1 - 1) = {} /\ 1..(2 - 1) = {1} /\ 1..(3 - 1) = {1, 2}
  OBVIOUS
<1>2. (\E i \in 1..3 : v.core[i] < w.core[i] /\ \A j \in 1..(i - 1) : v.core[j] = w.core[j])
         <=> CoreLess(v, w)
  BY <1>1 DEF CoreLess
<1> QED
  BY <1>2 DEF Before

\* Admin and the host order versions alike.
LEMMA VersionOrder ==
  ASSUME NEW v \in SemVers, NEW w \in SemVers
  PROVE  Before(v, w) <=> VersionKeyLess(v, w)
<1> DEFINE key(u) == <<u.core[1], u.core[2], u.core[3], IF u.pre = <<>> THEN 1 ELSE 0>>
           KeyLess == \E i \in 1..Len(key(v)) :
                         /\ i <= Len(key(w)) /\ key(v)[i] < key(w)[i]
                         /\ \A j \in 1..(i - 1) : key(v)[j] = key(w)[j]
<1>1. ASSUME NEW u \in SemVers
      PROVE  /\ Len(key(u)) = 4 /\ key(u) \in Seq(Nat)
             /\ key(u)[1] = u.core[1] /\ key(u)[2] = u.core[2] /\ key(u)[3] = u.core[3]
             /\ key(u)[4] = IF u.pre = <<>> THEN 1 ELSE 0
  <2> DEFINE stable == IF u.pre = <<>> THEN 1 ELSE 0
  <2>1. stable \in Nat
    OBVIOUS
  <2> HIDE DEF stable
  <2>2. key(u) = <<u.core[1], u.core[2], u.core[3], stable>>
    BY DEF stable
  <2>3. /\ Len(key(u)) = 4 /\ key(u) \in Seq(Nat)
        /\ key(u)[1] = u.core[1] /\ key(u)[2] = u.core[2] /\ key(u)[3] = u.core[3]
        /\ key(u)[4] = stable
    <3>1. u.core[1] \in Nat /\ u.core[2] \in Nat /\ u.core[3] \in Nat
      BY CoreIs
    <3> HIDE DEF key
    <3> QED
      BY <2>1, <2>2, <3>1
  <2> QED
    BY <2>3 DEF stable
<1>2. 1..4 = {1, 2, 3, 4} /\ 1..(1 - 1) = {} /\ 1..(2 - 1) = {1} /\ 1..(3 - 1) = {1, 2}
      /\ 1..(4 - 1) = {1, 2, 3}
  OBVIOUS
<1>3. KeyLess <=> \/ CoreLess(v, w)
                  \/ v.core = w.core /\ v.pre # <<>> /\ w.pre = <<>>
  <2>1. KeyLess <=> \E i \in 1..4 : /\ key(v)[i] < key(w)[i]
                                    /\ \A j \in 1..(i - 1) : key(v)[j] = key(w)[j]
    <3>1. Len(key(v)) = 4 /\ Len(key(w)) = 4
      BY <1>1
    <3> HIDE DEF key
    <3>2. \A i \in 1..4 : i <= 4
      OBVIOUS
    <3> QED
      BY <3>1, <3>2
  <2> HIDE DEF KeyLess, key
  <2>2. KeyLess <=>
          \/ key(v)[1] < key(w)[1]
          \/ key(v)[1] = key(w)[1] /\ key(v)[2] < key(w)[2]
          \/ key(v)[1] = key(w)[1] /\ key(v)[2] = key(w)[2] /\ key(v)[3] < key(w)[3]
          \/ /\ key(v)[1] = key(w)[1] /\ key(v)[2] = key(w)[2] /\ key(v)[3] = key(w)[3]
             /\ key(v)[4] < key(w)[4]
    BY <2>1, <1>2
  <2> QED
    BY <1>1, <2>2, CoresEqual DEF CoreLess
<1>4. key(v) = key(w) <=> v.core = w.core /\ (v.pre = <<>> <=> w.pre = <<>>)
  <2>1. ASSUME key(v) = key(w)
        PROVE  v.core = w.core /\ (v.pre = <<>> <=> w.pre = <<>>)
    <3> HIDE DEF key
    <3> QED
      BY <1>1, <2>1, CoresEqual
  <2> QED
    BY <2>1
<1>5. VersionKeyLess(v, w)
        <=> KeyLess \/ (key(v) = key(w) /\ PrereleaseLess(v.pre, w.pre))
  <2>1. VersionKeyLess(v, w)
           <=> NumbersLess(key(v), key(w)) \/ (key(v) = key(w) /\ PrereleaseLess(v.pre, w.pre))
    BY DEF VersionKeyLess
  <2>2. NumbersLess(key(v), key(w)) <=> KeyLess
    <3>1. Len(key(v)) = 4 /\ Len(key(w)) = 4
      BY <1>1
    <3> HIDE DEF key
    <3>2. ~(Len(key(v)) < Len(key(w)))
      BY <3>1
    <3> QED
      BY <3>2 DEF NumbersLess, TupleLess, NumberLess
  <2> QED
    BY <2>1, <2>2
<1>6. ~PrereleaseLess(<<>>, <<>>)
  BY DEF PrereleaseLess, TupleLess
<1>7. PrereleaseBefore(v.pre, w.pre) <=> PrereleaseLess(v.pre, w.pre)
  BY CoreIs, PrereleaseOrder
<1> HIDE DEF KeyLess, key
<1>8. Before(v, w)
        <=> \/ CoreLess(v, w)
            \/ /\ v.core = w.core /\ v.pre # <<>>
               /\ w.pre = <<>> \/ PrereleaseLess(v.pre, w.pre)
  BY <1>7, CoreOrder
<1>9. v.pre = <<>> /\ w.pre = <<>> => ~PrereleaseLess(v.pre, w.pre)
  BY <1>6
<1> QED
  BY <1>3, <1>4, <1>5, <1>8, <1>9

LEMMA IdentifiersOrdered ==
  ASSUME NEW x \in Identifiers, NEW y \in Identifiers, NEW z \in Identifiers
  PROVE  /\ ~IdentifierBefore(x, x)
         /\ IdentifierBefore(x, y) /\ IdentifierBefore(y, z) => IdentifierBefore(x, z)
<1>1. /\ x[1] \in {0, 1} /\ x[2] \in Nat /\ y[1] \in {0, 1} /\ y[2] \in Nat
      /\ z[1] \in {0, 1} /\ z[2] \in Nat
  BY DEF Identifiers
<1> QED
  BY <1>1 DEF IdentifierBefore

LEMMA PrereleaseIrreflexive ==
  ASSUME NEW p \in Seq(Identifiers)
  PROVE  ~PrereleaseBefore(p, p)
<1> SUFFICES ASSUME NEW i \in 1..Len(p), i > Len(p) \/ IdentifierBefore(p[i], p[i])
             PROVE  FALSE
  BY DEF PrereleaseBefore
<1> QED
  BY IdentifiersOrdered

LEMMA PrereleaseTransitive ==
  ASSUME NEW p \in Seq(Identifiers), NEW q \in Seq(Identifiers), NEW r \in Seq(Identifiers),
         PrereleaseBefore(p, q), PrereleaseBefore(q, r)
  PROVE  PrereleaseBefore(p, r)
<1>1. PICK i \in 1..Len(q) : /\ \A k \in 1..(i - 1) : k <= Len(p) /\ p[k] = q[k]
                             /\ i > Len(p) \/ IdentifierBefore(p[i], q[i])
  BY DEF PrereleaseBefore
<1>2. PICK j \in 1..Len(r) : /\ \A k \in 1..(j - 1) : k <= Len(q) /\ q[k] = r[k]
                             /\ j > Len(q) \/ IdentifierBefore(q[j], r[j])
  BY DEF PrereleaseBefore
<1>3. Len(p) \in Nat /\ Len(q) \in Nat /\ Len(r) \in Nat /\ i \in Nat /\ j \in Nat
  OBVIOUS
<1>4. CASE i < j
  <2>1. i \in 1..Len(r) /\ q[i] = r[i]
    BY <1>2, <1>3, <1>4
  <2>2. \A k \in 1..(i - 1) : k <= Len(p) /\ p[k] = r[k]
    BY <1>1, <1>2, <1>3, <1>4
  <2> QED
    BY <1>1, <2>1, <2>2 DEF PrereleaseBefore
<1>5. CASE i = j
  <2>1. IdentifierBefore(q[i], r[i])
    BY <1>2, <1>3, <1>5
  <2>2. i > Len(p) \/ IdentifierBefore(p[i], r[i])
    <3>1. SUFFICES ASSUME i <= Len(p)
                   PROVE  IdentifierBefore(p[i], r[i])
      BY <1>3
    <3>2. p[i] \in Identifiers /\ q[i] \in Identifiers /\ r[i] \in Identifiers
      BY <1>3, <1>5, <3>1
    <3> QED
      BY <1>1, <1>3, <2>1, <3>1, <3>2, IdentifiersOrdered
  <2>3. \A k \in 1..(i - 1) : k <= Len(p) /\ p[k] = r[k]
    BY <1>1, <1>2, <1>3, <1>5
  <2> QED
    BY <1>5, <2>2, <2>3 DEF PrereleaseBefore
<1>6. CASE j < i
  <2>1. j <= Len(p) /\ p[j] = q[j] /\ j <= Len(q) /\ IdentifierBefore(q[j], r[j])
    BY <1>1, <1>2, <1>3, <1>6
  <2>2. \A k \in 1..(j - 1) : k <= Len(p) /\ p[k] = r[k]
    BY <1>1, <1>2, <1>3, <1>6
  <2>3. IdentifierBefore(p[j], r[j])
    BY <2>1
  <2> QED
    BY <2>2, <2>3 DEF PrereleaseBefore
<1> QED
  BY <1>3, <1>4, <1>5, <1>6

LEMMA VersionsOrdered ==
  ASSUME NEW u \in SemVers, NEW v \in SemVers, NEW w \in SemVers
  PROVE  /\ ~Before(u, u)
         /\ Before(u, v) /\ Before(v, w) => Before(u, w)
<1>1. /\ u.core[1] \in Nat /\ u.core[2] \in Nat /\ u.core[3] \in Nat
      /\ v.core[1] \in Nat /\ v.core[2] \in Nat /\ v.core[3] \in Nat
      /\ w.core[1] \in Nat /\ w.core[2] \in Nat /\ w.core[3] \in Nat
      /\ u.pre \in Seq(Identifiers) /\ v.pre \in Seq(Identifiers) /\ w.pre \in Seq(Identifiers)
  BY CoreIs
<1>2. ~Before(u, u)
  <2>1. ~CoreLess(u, u)
    BY CoreIs DEF CoreLess
  <2>2. ~PrereleaseBefore(u.pre, u.pre)
    BY <1>1, PrereleaseIrreflexive
  <2> QED
    BY <2>1, <2>2, CoreOrder
<1>3. ASSUME Before(u, v), Before(v, w)
      PROVE  Before(u, w)
  <2>1. CASE CoreLess(u, v) /\ CoreLess(v, w)
    <3>1. CoreLess(u, w)
      <4> DEFINE a == u.core  b == v.core  c == w.core
      <4>1. /\ a[1] \in Nat /\ a[2] \in Nat /\ a[3] \in Nat
            /\ b[1] \in Nat /\ b[2] \in Nat /\ b[3] \in Nat
            /\ c[1] \in Nat /\ c[2] \in Nat /\ c[3] \in Nat
        BY <1>1
      <4>2. \/ a[1] < b[1]
            \/ a[1] = b[1] /\ a[2] < b[2]
            \/ a[1] = b[1] /\ a[2] = b[2] /\ a[3] < b[3]
        BY <2>1 DEF CoreLess
      <4>3. \/ b[1] < c[1]
            \/ b[1] = c[1] /\ b[2] < c[2]
            \/ b[1] = c[1] /\ b[2] = c[2] /\ b[3] < c[3]
        BY <2>1 DEF CoreLess
      <4>4. \/ a[1] < c[1]
            \/ a[1] = c[1] /\ a[2] < c[2]
            \/ a[1] = c[1] /\ a[2] = c[2] /\ a[3] < c[3]
        <5> HIDE DEF a, b, c
        <5> QED
          BY <4>1, <4>2, <4>3
      <4> QED
        BY <4>4 DEF CoreLess
    <3> QED
      BY <3>1, CoreOrder
  <2>2. CASE CoreLess(u, v) /\ v.core = w.core
    BY <2>2, CoreOrder DEF CoreLess
  <2>3. CASE u.core = v.core /\ CoreLess(v, w)
    BY <2>3, CoreOrder DEF CoreLess
  <2>4. CASE ~CoreLess(u, v) /\ ~CoreLess(v, w)
    <3>1. /\ u.core = v.core /\ u.pre # <<>> /\ v.core = w.core /\ v.pre # <<>>
          /\ v.pre = <<>> \/ PrereleaseBefore(u.pre, v.pre)
          /\ w.pre = <<>> \/ PrereleaseBefore(v.pre, w.pre)
      BY <1>3, <2>4, CoreOrder
    <3>2. w.pre = <<>> \/ PrereleaseBefore(u.pre, w.pre)
      BY <1>1, <3>1, PrereleaseTransitive
    <3> QED
      BY <3>1, <3>2, CoreOrder
  <2> QED
    BY <1>3, <2>1, <2>2, <2>3, <2>4, CoreOrder
<1> QED
  BY <1>2, <1>3

-----------------------------------------------------------------------------
(* The greatest release. *)

Newer(r, s) == Before(Info[r].version, Info[s].version)

\* The least number of releases without a greatest one would be one too many.
LEMMA GreatestExists ==
  ASSUME NEW S \in SUBSET Releases, S # {}
  PROVE  \E r \in S : \A s \in S : ~Newer(r, s)
<1> DEFINE Unbounded(T) == T # {} /\ \A r \in T : \E s \in T : Newer(r, s)
           Sizes == {n \in Nat : \E T \in SUBSET Releases : Cardinality(T) = n /\ Unbounded(T)}
<1>1. \A T \in SUBSET Releases : IsFiniteSet(T) /\ Cardinality(T) \in Nat
  BY OfferAssumption, FS_Subset, FS_CardinalityType
<1>2. Sizes = {}
  <2> SUFFICES ASSUME Sizes # {} PROVE FALSE
    OBVIOUS
  <2>1. PICK n \in Sizes : \A m \in Sizes : ~(<<m, n>> \in OpToRel(<, Nat))
    <3>1. Sizes \subseteq Nat
      OBVIOUS
    <3> HIDE DEF Sizes
    <3> QED
      BY <3>1, NatLessThanWellFounded, WFMin
  <2>2. \A m \in Sizes : ~(m < n)
    BY <2>1 DEF OpToRel
  <2>3. PICK T \in SUBSET Releases : Cardinality(T) = n /\ Unbounded(T)
    OBVIOUS
  <2>4. PICK x \in T : TRUE
    BY <2>3
  <2> DEFINE Rest == T \ {x}
  <2>5. Cardinality(Rest) < n /\ Cardinality(Rest) \in Nat
    BY <1>1, <2>3, <2>4, FS_RemoveElement
  <2>6. ~Unbounded(Rest)
    <3>1. Cardinality(Rest) \notin Sizes
      BY <2>2, <2>5
    <3> QED
      BY <2>5, <3>1
  <2>7. ASSUME NEW r \in T, NEW s \in T, NEW t \in T
        PROVE  ~Newer(r, r) /\ (Newer(r, s) /\ Newer(s, t) => Newer(r, t))
    <3>1. Info[r].version \in SemVers /\ Info[s].version \in SemVers
          /\ Info[t].version \in SemVers
      BY OfferAssumption
    <3> QED
      BY <3>1, VersionsOrdered DEF Newer
  <2>8. CASE Rest = {}
    BY <2>3, <2>4, <2>7, <2>8
  <2>9. CASE Rest # {}
    <3>1. PICK r \in Rest : \A s \in Rest : ~Newer(r, s)
      BY <2>6, <2>9
    <3>2. Newer(r, x)
      BY <2>3, <3>1
    <3>3. PICK s \in T : Newer(x, s)
      BY <2>3, <2>4
    <3>4. Newer(r, s) /\ s # x
      BY <2>7, <3>1, <3>2, <3>3, <2>4
    <3> QED
      BY <3>1, <3>3, <3>4
  <2> QED
    BY <2>8, <2>9
<1>3. ~Unbounded(S)
  BY <1>1, <1>2
<1> QED
  BY <1>3

\* What Admin selects is on the list, of the channel, later than what runs, and none is greater.
LEMMA LatestReleaseIs ==
  ASSUME NEW S \in SUBSET Releases, NEW channel
  PROVE  LET r == LatestRelease(S, channel)
             found == Candidates(S, channel)
         IN  \/ r = NoRelease /\ found = {}
             \/ r \in found /\ r # NoRelease /\ \A s \in found : ~Newer(r, s)
<1> DEFINE found == Candidates(S, channel)
<1>1. found \in SUBSET Releases /\ NoRelease \notin Releases
  BY OfferAssumption DEF Candidates, NoRelease
<1>2. CASE found = {}
  BY <1>2 DEF LatestRelease
<1>3. CASE found # {}
  <2>1. \E r \in found : \A s \in found : ~Newer(r, s)
    BY <1>1, <1>3, GreatestExists
  <2>2. LatestRelease(S, channel) = CHOOSE r \in found : \A s \in found : ~Newer(r, s)
    BY <1>3 DEF LatestRelease, Newer
  <2>3. LatestRelease(S, channel) \in found
        /\ \A s \in found : ~Newer(LatestRelease(S, channel), s)
    <3> HIDE DEF found
    <3> QED
      BY <2>1, <2>2
  <2> QED
    BY <1>1, <2>3
<1> QED
  BY <1>2, <1>3

-----------------------------------------------------------------------------
(* Checks that overlap. *)

Statuses == {"off", "idle", "busy"}
CheckRecords ==
    [pc : {"none", "asked", "lookup", "received", "looked", "verify", "answered"},
     channel : Channels, mode : {"cached", "normal", "force"}, status : Statuses,
     leads : BOOLEAN, answer : SUBSET Releases, latest : Releases \cup {NoRelease},
     installable : BOOLEAN]

OfferTypes ==
    /\ published \in SUBSET Releases /\ controller \in Statuses
    /\ listing \in [releases : SUBSET Releases, known : BOOLEAN, fresh : BOOLEAN]
    /\ manifests \in [Releases -> [status : Statuses \cup {"none"}, verified : BOOLEAN,
                                   installable : BOOLEAN, fresh : BOOLEAN]]
    /\ check \in [Checks -> CheckRecords]

\* A release that is later than what runs, and one that can be installed besides.
Upgrade(r) == r \in Releases /\ Before(Installed.version, Info[r].version)
Fit(r, status) == AdminVerifies(r) /\ Installable(Manifest(r), status)

\* What the cache of manifests says holds for the status that it was computed for.
Verified ==
    \A r \in Releases :
        /\ manifests[r].verified => AdminVerifies(r)
        /\ manifests[r].installable => Fit(r, manifests[r].status)

Answers ==
    \A c \in Checks :
        /\ check[c].pc = "verify" => Upgrade(check[c].latest)
        /\ check[c].pc = "answered" /\ check[c].installable =>
               Upgrade(check[c].latest) /\ Fit(check[c].latest, check[c].status)

OfferInv == OfferTypes /\ Verified /\ Answers

LEMMA InitOfferInv == OfferInit => OfferInv
<1> SUFFICES ASSUME OfferInit PROVE OfferInv
  OBVIOUS
<1>1. Unverified \in [status : Statuses \cup {"none"}, verified : BOOLEAN,
                      installable : BOOLEAN, fresh : BOOLEAN]
      /\ Unverified.verified = FALSE /\ Unverified.installable = FALSE
  BY DEF Unverified
<1>2. NoCheck \in CheckRecords /\ NoCheck.pc = "none"
  BY DEF NoCheck, CheckRecords, Channels, Statuses
<1>3. /\ manifests = [r \in Releases |-> Unverified] /\ check = [c \in Checks |-> NoCheck]
      /\ published \in SUBSET Releases /\ controller \in Statuses
      /\ listing = [releases |-> {}, known |-> FALSE, fresh |-> FALSE]
  BY DEF OfferInit, Statuses
<1>4. listing \in [releases : SUBSET Releases, known : BOOLEAN, fresh : BOOLEAN]
  BY <1>3
<1>5. OfferTypes
  BY <1>1, <1>2, <1>3, <1>4 DEF OfferTypes
<1>6. Verified /\ Answers
  BY <1>1, <1>2, <1>3 DEF Verified, Answers
<1> QED
  BY <1>5, <1>6 DEF OfferInv

\* One check changes, and the listing with it.
LEMMA OneCheck ==
  ASSUME OfferInv, NEW c \in Checks, NEW k \in CheckRecords,
         check' = [check EXCEPT ![c] = k],
         k.pc = "verify" => Upgrade(k.latest),
         k.pc = "answered" /\ k.installable => Upgrade(k.latest) /\ Fit(k.latest, k.status),
         UNCHANGED <<published, controller, manifests>>,
         listing' \in [releases : SUBSET Releases, known : BOOLEAN, fresh : BOOLEAN]
  PROVE  OfferInv'
<1>1. check' \in [Checks -> CheckRecords]
  BY DEF OfferInv, OfferTypes
<1>2. OfferTypes' /\ Verified'
  BY <1>1 DEF OfferInv, OfferTypes, Verified
<1>3. \A d \in Checks : check'[d] = IF d = c THEN k ELSE check[d]
  BY DEF OfferInv, OfferTypes
<1>4. Answers'
  BY <1>3 DEF OfferInv, Answers
<1> QED
  BY <1>2, <1>4 DEF OfferInv

LEMMA CheckIs ==
  ASSUME OfferInv, NEW c \in Checks
  PROVE  check[c] \in CheckRecords /\ NoCheck \in CheckRecords
  BY DEF OfferInv, OfferTypes, NoCheck, CheckRecords, Channels, Statuses

\* The steps before the selection.
LEMMA EarlyKeeps ==
  ASSUME OfferInv, NEW c \in Checks,
         \/ \E channel \in Channels, mode \in {"cached", "normal", "force"} : Ask(c, channel, mode)
         \/ Join(c) \/ Lookup(c) \/ GithubAnswers(c) \/ Receive(c) \/ ReceiveNotModified(c)
         \/ LookupFails(c) \/ Done(c)
  PROVE  OfferInv'
<1>1. /\ published \in SUBSET Releases /\ controller \in Statuses
      /\ listing \in [releases : SUBSET Releases, known : BOOLEAN, fresh : BOOLEAN]
  BY DEF OfferInv, OfferTypes
<1>2. check[c] \in CheckRecords /\ NoCheck \in CheckRecords /\ NoCheck.pc = "none"
      /\ check \in [Checks -> CheckRecords]
  BY CheckIs DEF NoCheck, OfferInv, OfferTypes
<1>3. ASSUME NEW channel \in Channels, NEW mode \in {"cached", "normal", "force"},
             Ask(c, channel, mode)
      PROVE  OfferInv'
  <2> DEFINE k == [NoCheck EXCEPT !.pc = "asked", !.channel = channel, !.mode = mode,
                                  !.status = controller]
  <2>1. k \in CheckRecords /\ k.pc = "asked"
    BY <1>1, <1>2 DEF CheckRecords
  <2>2. check' = [check EXCEPT ![c] = k] /\ UNCHANGED <<published, controller, manifests, listing>>
    BY <1>3 DEF Ask
  <2> HIDE DEF k
  <2> QED
    BY <1>1, <2>1, <2>2, OneCheck
<1>4. CASE Join(c) \/ Done(c)
  BY <1>1, <1>2, <1>4, OneCheck DEF Join, Done
<1>5. CASE Lookup(c)
  <2> DEFINE k == [check[c] EXCEPT !.pc = "lookup", !.leads = TRUE, !.mode = "force"]
  <2>1. k \in CheckRecords /\ k.pc = "lookup"
    BY <1>2 DEF CheckRecords
  <2>2. check' = [check EXCEPT ![c] = k] /\ UNCHANGED <<published, controller, manifests, listing>>
    BY <1>2, <1>5 DEF Lookup
  <2> HIDE DEF k
  <2> QED
    BY <1>1, <2>1, <2>2, OneCheck
<1>6. CASE GithubAnswers(c)
  <2> DEFINE k == [check[c] EXCEPT !.pc = "received", !.answer = published]
  <2>1. k \in CheckRecords /\ k.pc = "received"
    BY <1>1, <1>2 DEF CheckRecords
  <2>2. check' = [check EXCEPT ![c] = k] /\ UNCHANGED <<published, controller, manifests, listing>>
    BY <1>2, <1>6 DEF GithubAnswers
  <2> HIDE DEF k
  <2> QED
    BY <1>1, <2>1, <2>2, OneCheck
<1>7. CASE Receive(c) \/ ReceiveNotModified(c) \/ LookupFails(c)
  <2> DEFINE k == [check[c] EXCEPT !.pc = "looked", !.answer = {}]
  <2>1. k \in CheckRecords /\ k.pc = "looked"
    BY <1>2 DEF CheckRecords
  <2>2. check' = [check EXCEPT ![c] = k] /\ UNCHANGED <<published, controller, manifests>>
    BY <1>2, <1>7 DEF Receive, ReceiveNotModified, LookupFails
  <2>3. check[c].answer \in SUBSET Releases
    BY <1>2 DEF CheckRecords
  <2>4. listing' \in [releases : SUBSET Releases, known : BOOLEAN, fresh : BOOLEAN]
    <3>1. CASE Receive(c)
      BY <2>3, <3>1 DEF Receive
    <3>2. CASE ReceiveNotModified(c) \/ LookupFails(c)
      BY <1>1, <3>2 DEF ReceiveNotModified, LookupFails
    <3> QED
      BY <1>7, <3>1, <3>2
  <2> HIDE DEF k
  <2> QED
    BY <2>1, <2>2, <2>4, OneCheck
<1> QED
  BY <1>3, <1>4, <1>5, <1>6, <1>7

\* What an answer is.
LEMMA AnsweredIs ==
  ASSUME OfferInv, NEW c \in Checks, NEW r \in Releases \cup {NoRelease}, NEW b \in BOOLEAN,
         Answered(c, r, b)
  PROVE  \E k \in CheckRecords :
             /\ check' = [check EXCEPT ![c] = k] /\ k.pc = "answered" /\ k.latest = r
             /\ k.installable = b /\ k.status = check[c].status
<1> DEFINE k == [NoCheck EXCEPT !.pc = "answered", !.status = check[c].status, !.latest = r,
                                !.installable = b]
<1>1. check[c].status \in Statuses /\ NoCheck \in CheckRecords
  BY CheckIs DEF CheckRecords
<1>2. k \in CheckRecords /\ k.pc = "answered" /\ k.latest = r /\ k.installable = b
      /\ k.status = check[c].status
  BY <1>1 DEF CheckRecords
<1>3. check' = [check EXCEPT ![c] = k]
  BY DEF Answered
<1> HIDE DEF k
<1> QED
  BY <1>2, <1>3

LEMMA SelectKeeps ==
  ASSUME OfferInv, NEW c \in Checks, Select(c)
  PROVE  OfferInv'
<1> DEFINE j == check[c]
           r == LatestRelease(listing.releases, j.channel)
           now == manifests[r].verified /\ Installable(Manifest(r), j.status)
<1>1. /\ listing \in [releases : SUBSET Releases, known : BOOLEAN, fresh : BOOLEAN]
      /\ j \in CheckRecords /\ check \in [Checks -> CheckRecords]
  BY DEF OfferInv, OfferTypes
<1>2. r = NoRelease \/ Upgrade(r)
  BY <1>1, LatestReleaseIs DEF Candidates, Upgrade
<1>3. /\ r \in Releases \cup {NoRelease}
      /\ UNCHANGED <<published, controller, listing, manifests>>
      /\ listing' \in [releases : SUBSET Releases, known : BOOLEAN, fresh : BOOLEAN]
  BY <1>1, <1>2 DEF Select, Upgrade
<1>4. \/ Answered(c, r, FALSE)
      \/ r # NoRelease /\ Remembered(r, j.status) /\ Answered(c, r, manifests[r].installable)
      \/ r # NoRelease /\ Answered(c, r, now)
      \/ r # NoRelease /\ check' = [check EXCEPT ![c].pc = "verify", ![c].latest = r]
  BY DEF Select
<1> HIDE DEF j, r, now
<1>5. ASSUME NEW b \in BOOLEAN, Answered(c, r, b), b => Upgrade(r) /\ Fit(r, j.status)
      PROVE  OfferInv'
  <2>1. PICK k \in CheckRecords :
             /\ check' = [check EXCEPT ![c] = k] /\ k.pc = "answered" /\ k.latest = r
             /\ k.installable = b /\ k.status = check[c].status
    BY <1>3, <1>5, AnsweredIs
  <2> QED
    BY <1>3, <1>5, <2>1, OneCheck DEF j
<1>6. CASE Answered(c, r, FALSE)
  BY <1>5, <1>6
<1>7. CASE r # NoRelease /\ Remembered(r, j.status) /\ Answered(c, r, manifests[r].installable)
  <2>1. r \in Releases
    BY <1>2, <1>7 DEF Upgrade
  <2>2. manifests[r].installable \in BOOLEAN
    BY <2>1 DEF OfferInv, OfferTypes
  <2>3. manifests[r].installable => Fit(r, j.status)
    BY <1>7, <2>1 DEF OfferInv, Verified, Remembered
  <2> QED
    BY <1>2, <1>5, <1>7, <2>2, <2>3
<1>8. CASE r # NoRelease /\ Answered(c, r, now)
  <2>1. r \in Releases
    BY <1>2, <1>8 DEF Upgrade
  <2>2. now \in BOOLEAN
    BY DEF now
  <2>3. now => Fit(r, j.status)
    BY <2>1 DEF OfferInv, Verified, Fit, now
  <2> QED
    BY <1>2, <1>5, <1>8, <2>2, <2>3
<1>9. CASE r # NoRelease /\ check' = [check EXCEPT ![c].pc = "verify", ![c].latest = r]
  <2> DEFINE k == [check[c] EXCEPT !.pc = "verify", !.latest = r]
  <2>1. k \in CheckRecords /\ k.pc = "verify" /\ k.latest = r
    BY <1>1, <1>3 DEF CheckRecords, j
  <2>2. check' = [check EXCEPT ![c] = k]
    BY <1>1, <1>9 DEF j
  <2> HIDE DEF k
  <2> QED
    BY <1>2, <1>3, <1>9, <2>1, <2>2, OneCheck
<1> QED
  BY <1>4, <1>6, <1>7, <1>8, <1>9

\* What is in the cache changes, and a check with it.
LEMMA CacheKeeps ==
  ASSUME OfferInv, NEW r \in Releases,
         NEW m \in [status : Statuses \cup {"none"}, verified : BOOLEAN, installable : BOOLEAN,
                    fresh : BOOLEAN],
         manifests' = [manifests EXCEPT ![r] = m],
         m.verified => AdminVerifies(r), m.installable => Fit(r, m.status)
  PROVE  manifests' \in [Releases -> [status : Statuses \cup {"none"}, verified : BOOLEAN,
                                      installable : BOOLEAN, fresh : BOOLEAN]]
         /\ Verified'
  BY DEF OfferInv, OfferTypes, Verified

LEMMA VerifyKeeps ==
  ASSUME OfferInv, NEW c \in Checks, Verify(c)
  PROVE  OfferInv'
<1> DEFINE j == check[c]
<1>1. /\ j \in CheckRecords /\ check \in [Checks -> CheckRecords] /\ Upgrade(j.latest)
      /\ UNCHANGED <<published, controller, listing>>
  BY DEF OfferInv, OfferTypes, Answers, Verify
<1>2. j.latest \in Releases /\ j.status \in Statuses /\ AdminVerifies(j.latest) \in BOOLEAN
  BY <1>1, OfferAssumption DEF Upgrade, CheckRecords, AdminVerifies
<1>3. PICK downloaded \in BOOLEAN :
          LET verified == downloaded /\ AdminVerifies(j.latest)
              installable == verified /\ Installable(Manifest(j.latest), j.status)
          IN  /\ manifests' = [manifests EXCEPT ![j.latest] =
                     [status |-> j.status, verified |-> verified, installable |-> installable,
                      fresh |-> TRUE]]
              /\ Answered(c, j.latest, installable)
  BY DEF Verify
<1> DEFINE verified == downloaded /\ AdminVerifies(j.latest)
           installable == verified /\ Installable(Manifest(j.latest), j.status)
           m == [status |-> j.status, verified |-> verified, installable |-> installable,
                 fresh |-> TRUE]
<1>4. /\ verified \in BOOLEAN /\ installable \in BOOLEAN
      /\ verified => AdminVerifies(j.latest)
      /\ installable => Fit(j.latest, j.status)
  BY <1>2 DEF Fit
<1>5. manifests' = [manifests EXCEPT ![j.latest] = m] /\ Answered(c, j.latest, installable)
  BY <1>3
<1> HIDE DEF verified, installable
<1>6. /\ m \in [status : Statuses \cup {"none"}, verified : BOOLEAN, installable : BOOLEAN,
                fresh : BOOLEAN]
      /\ m.verified = verified /\ m.installable = installable /\ m.status = j.status
  BY <1>2, <1>4
<1> HIDE DEF m
<1>7. manifests' \in [Releases -> [status : Statuses \cup {"none"}, verified : BOOLEAN,
                                   installable : BOOLEAN, fresh : BOOLEAN]]
      /\ Verified'
  <2>1. (m.verified => AdminVerifies(j.latest)) /\ (m.installable => Fit(j.latest, m.status))
    BY <1>4, <1>6
  <2> HIDE DEF j
  <2> QED
    BY <1>2, <1>5, <1>6, <2>1, CacheKeeps
<1>8. PICK k \in CheckRecords :
           /\ check' = [check EXCEPT ![c] = k] /\ k.pc = "answered" /\ k.latest = j.latest
           /\ k.installable = installable /\ k.status = check[c].status
  BY <1>2, <1>4, <1>5, AnsweredIs
<1>9. check' \in [Checks -> CheckRecords]
      /\ \A d \in Checks : check'[d] = IF d = c THEN k ELSE check[d]
  BY <1>1, <1>8
<1>10. Answers'
  <2>1. k.pc = "answered" /\ (k.installable => Upgrade(k.latest) /\ Fit(k.latest, k.status))
    BY <1>1, <1>4, <1>8
  <2> QED
    BY <1>9, <2>1 DEF OfferInv, Answers
<1> QED
  BY <1>1, <1>7, <1>9, <1>10 DEF OfferInv, OfferTypes

LEMMA AroundKeeps ==
  ASSUME OfferInv,
         \/ \E r \in Releases : PublishRelease(r) \/ ManifestExpires(r)
         \/ \E status \in {"off", "idle", "busy"} : Controller(status)
         \/ ListingExpires
  PROVE  OfferInv'
<1>1. ASSUME NEW r \in Releases, PublishRelease(r)
      PROVE  OfferInv'
  BY <1>1 DEF PublishRelease, OfferInv, OfferTypes, Verified, Answers
<1>2. ASSUME NEW r \in Releases, ManifestExpires(r)
      PROVE  OfferInv'
  <2> DEFINE m == [manifests[r] EXCEPT !.fresh = FALSE]
  <2>1. manifests[r] \in [status : Statuses \cup {"none"}, verified : BOOLEAN,
                          installable : BOOLEAN, fresh : BOOLEAN]
    BY DEF OfferInv, OfferTypes
  <2>2. /\ m \in [status : Statuses \cup {"none"}, verified : BOOLEAN, installable : BOOLEAN,
                  fresh : BOOLEAN]
        /\ m.verified = manifests[r].verified /\ m.installable = manifests[r].installable
        /\ m.status = manifests[r].status
    BY <2>1
  <2>3. manifests' = [manifests EXCEPT ![r] = m]
        /\ UNCHANGED <<published, controller, listing, check>>
    BY <1>2 DEF ManifestExpires, OfferInv, OfferTypes
  <2> HIDE DEF m
  <2>4. manifests' \in [Releases -> [status : Statuses \cup {"none"}, verified : BOOLEAN,
                                     installable : BOOLEAN, fresh : BOOLEAN]]
        /\ Verified'
    BY <2>2, <2>3, CacheKeeps DEF OfferInv, Verified
  <2> QED
    BY <2>3, <2>4 DEF OfferInv, OfferTypes, Answers
<1>3. ASSUME NEW status \in {"off", "idle", "busy"}, Controller(status)
      PROVE  OfferInv'
  BY <1>3 DEF Controller, OfferInv, OfferTypes, Verified, Answers, Statuses
<1>4. CASE ListingExpires
  BY <1>4 DEF ListingExpires, OfferInv, OfferTypes, Verified, Answers
<1> QED
  BY <1>1, <1>2, <1>3, <1>4

LEMMA StepOfferInv == OfferInv /\ [OfferNext]_offerVars => OfferInv'
<1> SUFFICES ASSUME OfferInv, [OfferNext]_offerVars PROVE OfferInv'
  OBVIOUS
<1>1. CASE UNCHANGED offerVars
  BY <1>1 DEF offerVars, OfferInv, OfferTypes, Verified, Answers
<1>2. CASE OfferNext
  BY <1>2, EarlyKeeps, SelectKeeps, VerifyKeeps, AroundKeeps DEF OfferNext
<1> QED
  BY <1>1, <1>2

LEMMA OfferInvAlways == OfferSpec => []OfferInv
  BY InitOfferInv, StepOfferInv, PTL DEF OfferSpec

\* The host would install what Admin verified as an upgrade that fits, with the updater idle,
\* unless its own verifier is stricter.
LEMMA FitIsAccepted ==
  ASSUME NEW r, NEW status, Upgrade(r), Fit(r, status)
  PROVE  /\ status = "idle" /\ HostCompatible(r)
         /\ HostVerifies(r) \/ OnlyAdminTakes(r)
<1>1. /\ Installed.version \in SemVers /\ Installed.schema \in Nat /\ Podman \in SemVers
      /\ Info[r].version \in SemVers /\ Info[r].form \in Forms
      /\ Manifest(r).minGateway \in SemVers
      /\ Manifest(r).minPodman # NoVersion => Manifest(r).minPodman \in SemVers
      /\ Manifest(r).schema \in Nat
  BY OfferAssumption DEF Upgrade, Manifest
<1>2. /\ AdminVerifies(r) /\ status = "idle"
      /\ ~Before(Installed.version, Manifest(r).minGateway)
      /\ Manifest(r).minPodman # NoVersion => ~Before(Podman, Manifest(r).minPodman)
      /\ SchemaFits(Manifest(r))
  BY DEF Fit, Installable, Compatible
<1>3. /\ VersionKeyLess(Installed.version, Info[r].version)
      /\ ~VersionKeyLess(Installed.version, Manifest(r).minGateway)
  BY <1>1, <1>2, VersionOrder DEF Upgrade
<1>4. Manifest(r).minPodman # NoVersion => ~VersionKeyLess(Podman, Manifest(r).minPodman)
  BY <1>1, <1>2, VersionOrder
<1>5. /\ Manifest(r).schema >= Installed.schema
      /\ Manifest(r).schema # Installed.schema => Manifest(r).migratesFrom = Installed.schema
  BY <1>1, <1>2 DEF SchemaFits
<1>6. HostVerifies(r) \/ OnlyAdminTakes(r)
  BY <1>1, <1>2 DEF HostVerifies, OnlyAdminTakes, AdminVerifies, Forms
<1> QED
  BY <1>2, <1>3, <1>4, <1>5, <1>6 DEF HostCompatible

\* Whatever an answer was made from, what it calls installable suits the host, whose updater was
\* idle when it was asked, and the host verifies the manifest too, unless it names no version of
\* podman or has an image in another case, which only Admin takes (system-updates.js:159, 151).
THEOREM OffersAccepted == OfferSpec => []OfferIsAccepted
<1>1. OfferInv => OfferIsAccepted
  BY FitIsAccepted DEF OfferInv, Answers, OfferIsAccepted
<1> QED
  BY <1>1, OfferInvAlways, PTL

\* The release in an answer is the last one of its channel in the order of the host's updater,
\* whatever releases there are (system-updates.js:24, 179, releases.py:14).
THEOREM OffersTheGreatest == OfferSpec => []LatestIsGreatest
<1>1. OfferInv => LatestIsGreatest
  <2> SUFFICES ASSUME OfferInv, NEW channel \in Channels
               PROVE  LET r == LatestRelease(listing.releases, channel)
                          newer == {s \in listing.releases :
                                       /\ VersionKeyLess(Installed.version, Info[s].version)
                                       /\ channel = "stable" => Channel(s) = "stable"}
                      IN  IF r = NoRelease THEN newer = {}
                          ELSE /\ r \in newer
                               /\ \A s \in newer : ~VersionKeyLess(Info[r].version, Info[s].version)
    BY DEF LatestIsGreatest
  <2> DEFINE r == LatestRelease(listing.releases, channel)
             found == Candidates(listing.releases, channel)
             newer == {s \in listing.releases :
                          /\ VersionKeyLess(Installed.version, Info[s].version)
                          /\ channel = "stable" => Channel(s) = "stable"}
  <2>1. listing.releases \in SUBSET Releases
    BY DEF OfferInv, OfferTypes
  <2>2. \A s \in listing.releases :
           Before(Installed.version, Info[s].version)
             <=> VersionKeyLess(Installed.version, Info[s].version)
    BY <2>1, VersionOrder, OfferAssumption
  <2>3. found = newer
    BY <2>2 DEF Candidates, Channels
  <2>4. \/ r = NoRelease /\ found = {}
        \/ r \in found /\ r # NoRelease /\ \A s \in found : ~Newer(r, s)
    BY <2>1, LatestReleaseIs
  <2>5. ASSUME NEW s \in found, NEW t \in found
        PROVE  Newer(s, t) <=> VersionKeyLess(Info[s].version, Info[t].version)
    <3>1. Info[s].version \in SemVers /\ Info[t].version \in SemVers
      BY <2>1, OfferAssumption DEF Candidates
    <3> QED
      BY <3>1, VersionOrder DEF Newer
  <2> HIDE DEF r, found, newer
  <2>6. IF r = NoRelease THEN newer = {}
        ELSE r \in newer /\ \A s \in newer : ~VersionKeyLess(Info[r].version, Info[s].version)
    BY <2>3, <2>4, <2>5
  <2> QED
    BY <2>6 DEF r, newer
<1> QED
  BY <1>1, OfferInvAlways, PTL

-----------------------------------------------------------------------------
(* The hours that are counted.  Total is a fold over the hours; what it    *)
(* adds up to is found by looking at a smallest set of hours for which a   *)
(* claim fails.                                                            *)

Rows(r) == r \in [DOMAIN r -> Nat] /\ DOMAIN r \subseteq Nat /\ IsFiniteSet(DOMAIN r)

Pick(hours) == CHOOSE h \in hours : TRUE
AddsUp(sum, r, sets) ==
    sum = [s \in sets |-> IF s = {} THEN 0 ELSE r[Pick(s)] + sum[s \ {Pick(s)}]]
Sum(r) == CHOOSE sum : AddsUp(sum, r, SUBSET DOMAIN r)

LEMMA TotalIs ==
  ASSUME NEW r
  PROVE  Total(r) = Sum(r)[DOMAIN r]
  BY DEF Total, MapThenSumSet, MapThenFoldSet, Sum, AddsUp, Pick

LEMMA PickIs ==
  ASSUME NEW s, s # {}
  PROVE  Pick(s) \in s
  BY DEF Pick

LEMMA SmallestNumber ==
  ASSUME NEW N \in SUBSET Nat, N # {}
  PROVE  \E n \in N : \A m \in N : n <= m
<1>1. PICK n \in N : \A m \in N : ~(<<m, n>> \in OpToRel(<, Nat))
  BY NatLessThanWellFounded, WFMin
<1>2. \A m \in N : ~(m < n)
  BY <1>1 DEF OpToRel
<1> QED
  BY <1>2

LEMMA SmallestSet ==
  ASSUME NEW D, IsFiniteSet(D), NEW F \in SUBSET SUBSET D, F # {}
  PROVE  \E s \in F : \A t \in SUBSET s : t # s => t \notin F
<1>1. IsWellFoundedOn(StrictSubsetOrdering(D), SUBSET D)
  BY FS_StrictSubsetOrderingWellFounded, FS_FiniteSubsetsOfFinite
<1>2. PICK s \in F : \A t \in F : ~(<<t, s>> \in StrictSubsetOrdering(D))
  BY <1>1, WFMin
<1> QED
  BY <1>2 DEF StrictSubsetOrdering

\* There is such a function, on the sets of at most n hours first.
LEMMA SumExists ==
  ASSUME NEW r, IsFiniteSet(DOMAIN r)
  PROVE  AddsUp(Sum(r), r, SUBSET DOMAIN r)
<1> DEFINE Small(n) == {s \in SUBSET DOMAIN r : Cardinality(s) <= n}
           Failing == {n \in Nat : ~\E sum : AddsUp(sum, r, Small(n))}
<1>1. \A s \in SUBSET DOMAIN r :
         /\ IsFiniteSet(s) /\ Cardinality(s) \in Nat
         /\ Cardinality(s) <= Cardinality(DOMAIN r)
         /\ Cardinality(s) = 0 <=> s = {}
         /\ \A x \in s : Cardinality(s \ {x}) = Cardinality(s) - 1
  BY FS_Subset, FS_CardinalityType, FS_EmptySet, FS_RemoveElement
<1>2. 0 \notin Failing
  <2>1. Small(0) = {{}}
    BY <1>1
  <2> DEFINE sum == [s \in Small(0) |-> 0]
  <2>2. AddsUp(sum, r, Small(0))
    BY <2>1 DEF AddsUp
  <2> QED
    BY <2>2
<1>3. ASSUME NEW n \in Nat, n \notin Failing
      PROVE  n + 1 \notin Failing
  <2>1. PICK sum : AddsUp(sum, r, Small(n))
    BY <1>3
  <2> DEFINE more == [s \in Small(n + 1) |->
                         IF s = {} THEN 0 ELSE r[Pick(s)] + sum[s \ {Pick(s)}]]
  <2>2. ASSUME NEW s \in Small(n + 1), s # {}
        PROVE  more[s \ {Pick(s)}] = sum[s \ {Pick(s)}]
    <3> DEFINE t == s \ {Pick(s)}
    <3>1. t \in SUBSET DOMAIN r /\ Cardinality(t) = Cardinality(s) - 1
      BY <1>1, <2>2, PickIs
    <3>2. Cardinality(s) \in Nat /\ Cardinality(s) <= n + 1 /\ Cardinality(t) \in Nat
      BY <1>1, <3>1
    <3>3. t \in Small(n) /\ t \in Small(n + 1)
      BY <3>1, <3>2
    <3> HIDE DEF Small, t
    <3>4. sum[t] = IF t = {} THEN 0 ELSE r[Pick(t)] + sum[t \ {Pick(t)}]
      BY <2>1, <3>3 DEF AddsUp
    <3> QED
      BY <3>3, <3>4 DEF t
  <2>3. AddsUp(more, r, Small(n + 1))
    <3> HIDE DEF Small
    <3>1. more = [s \in Small(n + 1) |->
                     IF s = {} THEN 0 ELSE r[Pick(s)] + more[s \ {Pick(s)}]]
      BY <2>2
    <3> QED
      BY <3>1 DEF AddsUp
  <2> QED
    BY <2>3
<1>4. Failing = {}
  <2> SUFFICES ASSUME Failing # {} PROVE FALSE
    OBVIOUS
  <2>1. Failing \in SUBSET Nat
    OBVIOUS
  <2> HIDE DEF Failing
  <2>2. PICK n \in Failing : \A m \in Failing : n <= m
    BY <2>1, SmallestNumber
  <2>3. n \in Nat /\ n # 0
    BY <1>2, <2>1, <2>2
  <2>4. n - 1 \in Nat /\ (n - 1) + 1 = n /\ ~(n <= n - 1)
    BY <2>3
  <2>5. (n - 1) + 1 \notin Failing
    BY <1>3, <2>2, <2>4
  <2> QED
    BY <2>2, <2>4, <2>5
<1>5. Small(Cardinality(DOMAIN r)) = SUBSET DOMAIN r
  BY <1>1
<1>6. \E sum : AddsUp(sum, r, SUBSET DOMAIN r)
  <2>1. Cardinality(DOMAIN r) \in Nat
    BY FS_CardinalityType
  <2> QED
    BY <1>4, <1>5, <2>1
<1> QED
  BY <1>6 DEF Sum

LEMMA SumIs ==
  ASSUME NEW r, Rows(r), NEW s \in SUBSET DOMAIN r
  PROVE  /\ s = {} => Sum(r)[s] = 0
         /\ s # {} => /\ Pick(s) \in s /\ s \ {Pick(s)} \in SUBSET DOMAIN r
                      /\ Sum(r)[s] = r[Pick(s)] + Sum(r)[s \ {Pick(s)}]
<1>1. Sum(r)[s] = IF s = {} THEN 0 ELSE r[Pick(s)] + Sum(r)[s \ {Pick(s)}]
  BY SumExists DEF AddsUp, Rows
<1> QED
  BY <1>1, PickIs

LEMMA SumIsNatural ==
  ASSUME NEW r, Rows(r)
  PROVE  \A s \in SUBSET DOMAIN r : Sum(r)[s] \in Nat
<1> DEFINE F == {s \in SUBSET DOMAIN r : Sum(r)[s] \notin Nat}
<1> SUFFICES ASSUME F # {} PROVE FALSE
  OBVIOUS
<1>1. PICK s \in F : \A t \in SUBSET s : t # s => t \notin F
  <2>1. F \in SUBSET SUBSET DOMAIN r /\ IsFiniteSet(DOMAIN r)
    BY DEF Rows
  <2> HIDE DEF F
  <2> QED
    BY <2>1, SmallestSet
<1>2. s \in SUBSET DOMAIN r /\ Sum(r)[s] \notin Nat
  OBVIOUS
<1>3. s # {} /\ Pick(s) \in s /\ Sum(r)[s] = r[Pick(s)] + Sum(r)[s \ {Pick(s)}]
  BY <1>2, SumIs
<1>4. Sum(r)[s \ {Pick(s)}] \in Nat /\ r[Pick(s)] \in Nat
  BY <1>1, <1>2, <1>3 DEF Rows
<1> QED
  BY <1>2, <1>3, <1>4

\* It does not matter which hour is taken out first.
LEMMA SumSplits ==
  ASSUME NEW r, Rows(r)
  PROVE  \A s \in SUBSET DOMAIN r : \A x \in s : Sum(r)[s] = r[x] + Sum(r)[s \ {x}]
<1> DEFINE F == {s \in SUBSET DOMAIN r : \E x \in s : Sum(r)[s] # r[x] + Sum(r)[s \ {x}]}
<1> SUFFICES ASSUME F # {} PROVE FALSE
  OBVIOUS
<1>1. PICK s \in F : \A t \in SUBSET s : t # s => t \notin F
  <2>1. F \in SUBSET SUBSET DOMAIN r /\ IsFiniteSet(DOMAIN r)
    BY DEF Rows
  <2> HIDE DEF F
  <2> QED
    BY <2>1, SmallestSet
<1>2. PICK x \in s : Sum(r)[s] # r[x] + Sum(r)[s \ {x}]
  OBVIOUS
<1> DEFINE y == Pick(s)
<1>3. y \in s /\ Sum(r)[s] = r[y] + Sum(r)[s \ {y}]
  BY <1>2, SumIs
<1> HIDE DEF y
<1>4. x # y
  BY <1>2, <1>3
<1>5. Sum(r)[s \ {y}] = r[x] + Sum(r)[(s \ {y}) \ {x}]
  <2>1. s \ {y} \in SUBSET DOMAIN r /\ s \ {y} \notin F /\ x \in s \ {y}
    BY <1>1, <1>3, <1>4
  <2> QED
    BY <2>1
<1>6. Sum(r)[s \ {x}] = r[y] + Sum(r)[(s \ {x}) \ {y}]
  <2>1. s \ {x} \in SUBSET DOMAIN r /\ s \ {x} \notin F /\ y \in s \ {x}
    BY <1>1, <1>2, <1>3, <1>4
  <2> QED
    BY <2>1
<1>7. (s \ {x}) \ {y} = (s \ {y}) \ {x} /\ (s \ {y}) \ {x} \in SUBSET DOMAIN r
  OBVIOUS
<1>8. r[x] \in Nat /\ r[y] \in Nat /\ Sum(r)[(s \ {y}) \ {x}] \in Nat
  BY <1>3, <1>7, SumIsNatural DEF Rows
<1> HIDE DEF F
<1>9. Sum(r)[s] = r[y] + (r[x] + Sum(r)[(s \ {y}) \ {x}])
  BY <1>3, <1>5
<1>10. r[x] + Sum(r)[s \ {x}] = r[x] + (r[y] + Sum(r)[(s \ {y}) \ {x}])
  BY <1>6, <1>7
<1> QED
  BY <1>2, <1>8, <1>9, <1>10

\* Hours with less or nothing add up to less.
LEMMA SumAtMost ==
  ASSUME NEW r, Rows(r), NEW m, Rows(m)
  PROVE  \A s \in SUBSET DOMAIN r : \A t \in SUBSET DOMAIN m :
            (\A h \in s : r[h] = 0 \/ (h \in t /\ r[h] <= m[h])) => Sum(r)[s] <= Sum(m)[t]
<1> DEFINE Less(s, t) == \A h \in s : r[h] = 0 \/ (h \in t /\ r[h] <= m[h])
           F == {s \in SUBSET DOMAIN r :
                    \E t \in SUBSET DOMAIN m : Less(s, t) /\ ~(Sum(r)[s] <= Sum(m)[t])}
<1> SUFFICES ASSUME F # {} PROVE FALSE
  OBVIOUS
<1>1. PICK s \in F : \A t \in SUBSET s : t # s => t \notin F
  <2>1. F \in SUBSET SUBSET DOMAIN r /\ IsFiniteSet(DOMAIN r)
    BY DEF Rows
  <2> HIDE DEF F
  <2> QED
    BY <2>1, SmallestSet
<1>2. PICK t \in SUBSET DOMAIN m : Less(s, t) /\ ~(Sum(r)[s] <= Sum(m)[t])
  OBVIOUS
<1>3. Sum(r)[s] \in Nat /\ Sum(m)[t] \in Nat
  BY SumIsNatural
<1>4. s # {}
  <2>1. s = {} => Sum(r)[s] = 0
    BY SumIs
  <2> QED
    BY <1>2, <1>3, <2>1
<1>5. PICK x \in s : TRUE
  BY <1>4
<1>6. s \ {x} \in SUBSET DOMAIN r /\ s \ {x} \notin F /\ r[x] \in Nat
  BY <1>1, <1>5 DEF Rows
<1>7. Sum(r)[s] = r[x] + Sum(r)[s \ {x}] /\ Sum(r)[s \ {x}] \in Nat
  BY <1>5, <1>6, SumSplits, SumIsNatural
<1>8. CASE r[x] = 0
  <2>1. Less(s \ {x}, t)
    BY <1>2
  <2>2. Sum(r)[s \ {x}] <= Sum(m)[t]
    BY <1>6, <2>1
  <2> QED
    BY <1>2, <1>7, <1>8, <2>2
<1>9. CASE r[x] # 0
  <2>1. x \in t /\ r[x] <= m[x] /\ m[x] \in Nat
    BY <1>2, <1>5, <1>9 DEF Rows
  <2>2. Less(s \ {x}, t \ {x}) /\ t \ {x} \in SUBSET DOMAIN m
    BY <1>2
  <2>3. Sum(r)[s \ {x}] <= Sum(m)[t \ {x}]
    BY <1>6, <2>2
  <2>4. Sum(m)[t \ {x}] \in Nat
    BY <2>2, SumIsNatural
  <2>5. Sum(m)[t] = m[x] + Sum(m)[t \ {x}]
    BY <2>1, SumSplits
  <2> QED
    BY <1>2, <1>6, <1>7, <2>1, <2>3, <2>4, <2>5
<1> QED
  BY <1>8, <1>9

LEMMA TotalAtMost ==
  ASSUME NEW r, Rows(r), NEW m, Rows(m),
         \A h \in DOMAIN r : r[h] = 0 \/ (h \in DOMAIN m /\ r[h] <= m[h])
  PROVE  /\ Total(r) \in Nat /\ Total(m) \in Nat
         /\ Total(r) <= Total(m)
  BY TotalIs, SumIsNatural, SumAtMost

\* One more message in an hour is one more in total.
LEMMA TotalAdds ==
  ASSUME NEW r, Rows(r), NEW x \in DOMAIN r, NEW n \in Nat
  PROVE  LET m == [r EXCEPT ![x] = @ + n] IN Rows(m) /\ Total(m) = Total(r) + n
<1> DEFINE m == [r EXCEPT ![x] = @ + n]
           D == DOMAIN r
<1>1. Rows(m) /\ DOMAIN m = D /\ m[x] = r[x] + n /\ r[x] \in Nat
      /\ \A h \in D \ {x} : m[h] = r[h] /\ r[h] \in Nat
  BY DEF Rows
<1> HIDE DEF m
<1>2. Sum(r)[D] = r[x] + Sum(r)[D \ {x}] /\ Sum(m)[D] = m[x] + Sum(m)[D \ {x}]
  <2>1. D \in SUBSET DOMAIN r /\ D \in SUBSET DOMAIN m /\ x \in D
    BY <1>1
  <2>2. Sum(r)[D] = r[x] + Sum(r)[D \ {x}]
    BY <2>1, SumSplits
  <2> HIDE DEF D
  <2>3. Sum(m)[D] = m[x] + Sum(m)[D \ {x}]
    BY <1>1, <2>1, SumSplits
  <2> QED
    BY <2>2, <2>3
<1>3. D \ {x} \in SUBSET DOMAIN r /\ D \ {x} \in SUBSET DOMAIN m
  BY <1>1
<1>4. Sum(r)[D \ {x}] <= Sum(m)[D \ {x}]
  <2>1. \A h \in D \ {x} : h \in D \ {x} /\ r[h] <= m[h]
    BY <1>1
  <2> QED
    BY <1>1, <1>3, <2>1, SumAtMost
<1>5. Sum(m)[D \ {x}] <= Sum(r)[D \ {x}]
  <2>1. \A h \in D \ {x} : h \in D \ {x} /\ m[h] <= r[h]
    BY <1>1
  <2> QED
    BY <1>1, <1>3, <2>1, SumAtMost
<1>6. Sum(r)[D \ {x}] \in Nat /\ Sum(m)[D \ {x}] \in Nat
  BY <1>1, <1>3, SumIsNatural
<1>7. Total(r) = Sum(r)[D] /\ Total(m) = Sum(m)[D]
  BY <1>1, TotalIs
<1> QED
  BY <1>1, <1>2, <1>4, <1>5, <1>6, <1>7 DEF m

-----------------------------------------------------------------------------
(* The traffic.  What the next reading will count went through the broker  *)
(* already, and no hour that is kept has more in its row than in memory.   *)

Unseen == IF counter = Unknown \/ brokerCount < counter THEN 0 ELSE brokerCount - counter

TrafficTypes ==
    /\ hour \in Nat /\ counter \in Nat /\ traffic \in Nat /\ brokerCount \in 0..MaxCount
    /\ Rows(buckets) /\ Rows(stored)
StoredWithin ==
    \A h \in DOMAIN stored : h >= Cutoff(hour) => h \in DOMAIN buckets /\ stored[h] <= buckets[h]
TrafficInv ==
    TrafficTypes /\ StoredWithin /\ Total(buckets) + Unseen <= traffic /\ Total(stored) <= traffic

LEMMA NoTraffic ==
  Rows(<<>>) /\ Total(<<>>) = 0
<1>1. DOMAIN <<>> = {} /\ Rows(<<>>)
  BY FS_EmptySet DEF Rows
<1>2. Sum(<<>>)[{}] = 0
  BY <1>1, SumIs
<1> QED
  BY <1>1, <1>2, TotalIs

LEMMA InitTraffic == TrafficInit => TrafficInv
<1> SUFFICES ASSUME TrafficInit PROVE TrafficInv
  OBVIOUS
<1>1. TrafficTypes
  BY NoTraffic, TrafficAssumption DEF TrafficInit, TrafficTypes, Unknown
<1>2. Unseen = 0 /\ traffic = 0 /\ Total(buckets) = 0 /\ Total(stored) = 0
  BY NoTraffic DEF TrafficInit, Unseen
<1> QED
  BY <1>1, <1>2 DEF TrafficInit, TrafficInv, StoredWithin

LEMMA InWindowIs ==
  ASSUME NEW r, Rows(r), NEW first \in Int
  PROVE  LET w == InWindow(r, first) IN
         /\ Rows(w) /\ DOMAIN w = {h \in DOMAIN r : h >= first}
         /\ \A h \in DOMAIN w : w[h] = r[h]
         /\ Total(w) \in Nat /\ Total(r) \in Nat /\ Total(w) <= Total(r)
<1> DEFINE w == InWindow(r, first)
<1>1. DOMAIN w = {h \in DOMAIN r : h >= first} /\ \A h \in DOMAIN w : w[h] = r[h]
  BY DEF InWindow
<1>2. Rows(w)
  <2>1. IsFiniteSet(DOMAIN w)
    BY <1>1, FS_Subset DEF Rows
  <2> QED
    BY <1>1, <2>1 DEF Rows, InWindow
<1> HIDE DEF w
<1>3. \A h \in DOMAIN w : h \in DOMAIN r /\ w[h] <= r[h]
  BY <1>1 DEF Rows
<1> QED
  BY <1>1, <1>2, <1>3, TotalAtMost DEF w

\* An hour of its own is nothing more in total.
LEMMA WithBucketIs ==
  ASSUME NEW r, Rows(r), NEW now \in Nat
  PROVE  LET b == WithBucket(r, now) IN
         /\ Rows(b) /\ DOMAIN b = {h \in DOMAIN r \cup {now} : h >= Cutoff(now)}
         /\ now \in DOMAIN b
         /\ \A h \in DOMAIN b : b[h] = IF h \in DOMAIN r THEN r[h] ELSE 0
         /\ Total(b) \in Nat /\ Total(r) \in Nat /\ Total(b) <= Total(r)
<1> DEFINE b == WithBucket(r, now)
           all == [h \in DOMAIN r \cup {now} |-> IF h \in DOMAIN r THEN r[h] ELSE 0]
<1>1. b = InWindow(all, Cutoff(now)) /\ DOMAIN all = DOMAIN r \cup {now}
      /\ \A h \in DOMAIN all : all[h] = IF h \in DOMAIN r THEN r[h] ELSE 0
  BY DEF WithBucket
<1>2. Cutoff(now) \in Int /\ now >= Cutoff(now)
  BY TrafficAssumption DEF Cutoff
<1>3. Rows(all)
  BY FS_AddElement DEF Rows
<1> HIDE DEF b, all
<1>4. /\ Rows(b) /\ DOMAIN b = {h \in DOMAIN all : h >= Cutoff(now)}
      /\ \A h \in DOMAIN b : b[h] = all[h]
  BY <1>1, <1>2, <1>3, InWindowIs
<1>5. \A h \in DOMAIN b : b[h] = IF h \in DOMAIN r THEN r[h] ELSE 0
  BY <1>1, <1>4
<1>6. \A h \in DOMAIN b : b[h] = 0 \/ (h \in DOMAIN r /\ b[h] <= r[h])
  BY <1>5 DEF Rows
<1>7. Total(b) \in Nat /\ Total(r) \in Nat /\ Total(b) <= Total(r)
  BY <1>4, <1>6, TotalAtMost
<1> QED
  BY <1>1, <1>2, <1>4, <1>5, <1>7 DEF b

LEMMA SavedIs ==
  ASSUME NEW r, Rows(r), NEW now \in Nat, NEW sample \in Nat,
         NEW s, s = Saved(r, now, sample)
  PROVE  /\ Rows(s) /\ DOMAIN s = {h \in DOMAIN r \cup {now} : h >= Cutoff(now)}
         /\ \A h \in DOMAIN s : s[h] = IF h = now THEN sample ELSE r[h]
<1> DEFINE all == [h \in DOMAIN r \cup {now} |-> IF h = now THEN sample ELSE r[h]]
<1>1. s = InWindow(all, Cutoff(now)) /\ DOMAIN all = DOMAIN r \cup {now}
      /\ \A h \in DOMAIN all : all[h] = IF h = now THEN sample ELSE r[h]
  BY DEF Saved
<1>2. Cutoff(now) \in Int
  BY TrafficAssumption DEF Cutoff
<1>3. Rows(all)
  BY FS_AddElement DEF Rows
<1> HIDE DEF all
<1>4. /\ Rows(s) /\ DOMAIN s = {h \in DOMAIN all : h >= Cutoff(now)}
      /\ \A h \in DOMAIN s : s[h] = all[h]
  BY <1>1, <1>2, <1>3, InWindowIs
<1>5. \A h \in DOMAIN s : s[h] = IF h = now THEN sample ELSE r[h]
  BY <1>1, <1>4
<1> QED
  BY <1>1, <1>4, <1>5

LEMMA UpdateKeeps ==
  ASSUME TrafficInv, Update
  PROVE  TrafficInv'
<1>1. PICK later \in Later :
         LET seen == IF counter = Unknown \/ brokerCount < counter THEN 0
                     ELSE IF counter = Unknown THEN brokerCount ELSE brokerCount - counter
             mine == WithBucket(buckets, hour)
             after == WithBucket([mine EXCEPT ![hour] = @ + seen], later)
         IN  /\ counter' = brokerCount /\ hour' = later
             /\ buckets' = after /\ stored' = Saved(stored, later, after[later])
             /\ UNCHANGED <<brokerCount, traffic, reboots>>
  BY DEF Update, Observe
<1> DEFINE mine == WithBucket(buckets, hour)
           added == [mine EXCEPT ![hour] = @ + Unseen]
           after == WithBucket(added, later)
<1>2. /\ counter' = brokerCount /\ hour' = later
      /\ buckets' = after /\ stored' = Saved(stored, later, after[later])
      /\ UNCHANGED <<brokerCount, traffic>>
  <2>1. Unseen = IF counter = Unknown \/ brokerCount < counter THEN 0
                 ELSE IF counter = Unknown THEN brokerCount ELSE brokerCount - counter
    BY DEF Unseen
  <2> QED
    BY <1>1, <2>1
<1>3. /\ hour \in Nat /\ counter \in Nat /\ traffic \in Nat /\ brokerCount \in Nat
      /\ brokerCount <= MaxCount /\ Rows(buckets) /\ Rows(stored)
  BY TrafficAssumption DEF TrafficInv, TrafficTypes
<1>4. later \in Nat /\ later >= hour /\ later >= Cutoff(hour) /\ Cutoff(later) >= Cutoff(hour)
      /\ Cutoff(later) \in Int /\ Cutoff(hour) \in Int /\ later >= Cutoff(later)
  BY <1>3, TrafficAssumption DEF Later, Cutoff
<1>5. Unseen \in Nat
  BY <1>3 DEF Unseen
<1>6. /\ Rows(mine) /\ DOMAIN mine = {h \in DOMAIN buckets \cup {hour} : h >= Cutoff(hour)}
      /\ hour \in DOMAIN mine
      /\ \A h \in DOMAIN mine : mine[h] = IF h \in DOMAIN buckets THEN buckets[h] ELSE 0
      /\ Total(mine) \in Nat /\ Total(buckets) \in Nat /\ Total(mine) <= Total(buckets)
  BY <1>3, WithBucketIs
<1> HIDE DEF mine
<1>7. Rows(added) /\ Total(added) = Total(mine) + Unseen
  BY <1>5, <1>6, TotalAdds
<1>8. DOMAIN added = DOMAIN mine /\ \A h \in DOMAIN mine : mine[h] <= added[h]
  BY <1>5, <1>6 DEF Rows
<1> HIDE DEF added
<1>9. /\ Rows(after) /\ DOMAIN after = {h \in DOMAIN added \cup {later} : h >= Cutoff(later)}
      /\ later \in DOMAIN after
      /\ \A h \in DOMAIN after : after[h] = IF h \in DOMAIN added THEN added[h] ELSE 0
      /\ Total(after) \in Nat /\ Total(added) \in Nat /\ Total(after) <= Total(added)
  BY <1>4, <1>7, WithBucketIs
<1> HIDE DEF after
<1>10. after[later] \in Nat
  BY <1>9 DEF Rows
<1>11. /\ Rows(stored')
       /\ DOMAIN stored' = {h \in DOMAIN stored \cup {later} : h >= Cutoff(later)}
       /\ \A h \in DOMAIN stored' : stored'[h] = IF h = later THEN after[later] ELSE stored[h]
  <2> DEFINE sample == after[later]
  <2>1. sample \in Nat /\ stored' = Saved(stored, later, sample)
        /\ Rows(stored) /\ later \in Nat
    BY <1>2, <1>3, <1>4, <1>10
  <2> HIDE DEF sample
  <2>2. /\ Rows(stored')
        /\ DOMAIN stored' = {h \in DOMAIN stored \cup {later} : h >= Cutoff(later)}
        /\ \A h \in DOMAIN stored' : stored'[h] = IF h = later THEN sample ELSE stored[h]
    BY <2>1, SavedIs
  <2> QED
    BY <2>2 DEF sample
<1>12. \A h \in DOMAIN stored' : h \in DOMAIN after /\ stored'[h] <= after[h]
  <2> SUFFICES ASSUME NEW h \in DOMAIN stored', h # later
               PROVE  h \in DOMAIN after /\ stored'[h] <= after[h]
    BY <1>9, <1>10, <1>11
  <2>1. h \in DOMAIN stored /\ h >= Cutoff(later) /\ stored'[h] = stored[h] /\ h \in Nat
    BY <1>3, <1>11 DEF Rows
  <2>2. h >= Cutoff(hour)
    BY <1>4, <2>1
  <2>3. h \in DOMAIN buckets /\ stored[h] <= buckets[h]
    BY <2>1, <2>2 DEF TrafficInv, StoredWithin
  <2>4. h \in DOMAIN mine /\ mine[h] = buckets[h]
    BY <1>6, <2>2, <2>3
  <2>5. h \in DOMAIN after /\ after[h] = added[h] /\ mine[h] <= added[h]
    BY <1>8, <1>9, <2>1, <2>4
  <2>6. stored[h] \in Nat /\ mine[h] \in Nat /\ added[h] \in Nat
    BY <1>3, <1>6, <1>7, <1>8, <2>1, <2>4 DEF Rows
  <2> QED
    BY <2>1, <2>3, <2>4, <2>5, <2>6
<1>13. Total(buckets) + Unseen <= traffic
  BY DEF TrafficInv
<1>14. Total(after) <= traffic
  BY <1>3, <1>5, <1>6, <1>7, <1>9, <1>13
<1>15. Total(stored') <= Total(after) /\ Total(stored') \in Nat
  BY <1>9, <1>11, <1>12, TotalAtMost
<1>16. Unseen' = 0
  BY <1>2, <1>3 DEF Unseen
<1>17. TrafficTypes'
  BY <1>2, <1>3, <1>4, <1>9, <1>11 DEF TrafficInv, TrafficTypes
<1>18. StoredWithin'
  BY <1>2, <1>12 DEF StoredWithin
<1>19. Total(buckets)' = Total(after) /\ Total(stored)' = Total(stored') /\ traffic' = traffic
  BY <1>2
<1> QED
  BY <1>3, <1>9, <1>14, <1>15, <1>16, <1>17, <1>18, <1>19 DEF TrafficInv

LEMMA TotalsAre ==
  ASSUME TrafficInv
  PROVE  Total(buckets) \in Nat /\ Total(stored) \in Nat /\ Unseen \in Nat
         /\ counter \in Nat /\ brokerCount \in Nat /\ traffic \in Nat /\ MaxCount \in Nat
<1>1. Rows(buckets) /\ Rows(stored) /\ counter \in Nat /\ traffic \in Nat
      /\ brokerCount \in Nat /\ MaxCount \in Nat
  BY TrafficAssumption DEF TrafficInv, TrafficTypes
<1>2. Total(buckets) \in Nat /\ Total(stored) \in Nat
  BY <1>1, TotalIs, SumIsNatural
<1> QED
  BY <1>1, <1>2 DEF Unseen

LEMMA TickKeeps ==
  ASSUME TrafficInv, Tick
  PROVE  TrafficInv'
<1>1. hour \in Nat /\ hour' = hour + 1
      /\ UNCHANGED <<counter, buckets, stored, brokerCount, traffic>>
  BY DEF Tick, TrafficInv, TrafficTypes
<1>2. Cutoff(hour) \in Int /\ Cutoff(hour)' = Cutoff(hour) + 1
  BY <1>1, TrafficAssumption DEF Cutoff
<1>3. StoredWithin'
  <2> SUFFICES ASSUME NEW h \in DOMAIN stored, h >= Cutoff(hour)'
               PROVE  h \in DOMAIN buckets /\ stored[h] <= buckets[h]
    BY <1>1 DEF StoredWithin
  <2>1. h \in Nat
    BY DEF TrafficInv, TrafficTypes, Rows
  <2>2. h >= Cutoff(hour)
    BY <1>2, <2>1
  <2> QED
    BY <2>2 DEF TrafficInv, StoredWithin
<1> QED
  BY <1>1, <1>3 DEF TrafficInv, TrafficTypes, Unseen

LEMMA MessageKeeps ==
  ASSUME TrafficInv, Message
  PROVE  TrafficInv'
<1>1. /\ brokerCount < MaxCount /\ brokerCount' = brokerCount + 1 /\ traffic' = traffic + 1
      /\ UNCHANGED <<hour, counter, buckets, stored>>
  BY DEF Message
<1>2. Unseen' <= Unseen + 1 /\ Unseen' \in Nat
  BY <1>1, TotalsAre DEF Unseen
<1>3. TrafficTypes' /\ StoredWithin'
  BY <1>1, TotalsAre DEF TrafficInv, TrafficTypes, StoredWithin
<1>4. Total(buckets)' = Total(buckets) /\ Total(stored)' = Total(stored)
  BY <1>1
<1>5. Total(buckets) + Unseen <= traffic /\ Total(stored) <= traffic
  BY DEF TrafficInv
<1> HIDE DEF Unseen
<1>6. Total(buckets)' + Unseen' <= traffic' /\ Total(stored)' <= traffic'
  BY <1>1, <1>2, <1>4, <1>5, TotalsAre
<1> QED
  BY <1>3, <1>6 DEF TrafficInv

LEMMA BrokerRestartKeeps ==
  ASSUME TrafficInv, BrokerRestart
  PROVE  TrafficInv'
<1>1. brokerCount' = 0 /\ UNCHANGED <<hour, counter, buckets, stored, traffic>>
  BY DEF BrokerRestart
<1>2. Unseen' = 0
  BY <1>1, TotalsAre DEF Unseen
<1>3. TrafficTypes' /\ StoredWithin'
  BY <1>1, TotalsAre DEF TrafficInv, TrafficTypes, StoredWithin
<1>4. Total(buckets)' = Total(buckets) /\ Total(stored)' = Total(stored)
  BY <1>1
<1>5. Total(buckets) + Unseen <= traffic /\ Total(stored) <= traffic
  BY DEF TrafficInv
<1>6. Total(buckets)' + Unseen' <= traffic' /\ Total(stored)' <= traffic'
  BY <1>1, <1>2, <1>4, <1>5, TotalsAre
<1> QED
  BY <1>3, <1>6 DEF TrafficInv

LEMMA AdminRestartKeeps ==
  ASSUME TrafficInv, AdminRestart
  PROVE  TrafficInv'
<1>1. /\ counter' = Unknown /\ buckets' = InWindow(stored, Cutoff(hour))
      /\ UNCHANGED <<hour, stored, brokerCount, traffic>>
  BY DEF AdminRestart
<1>2. Cutoff(hour) \in Int /\ Rows(stored)
  BY TrafficAssumption DEF Cutoff, TrafficInv, TrafficTypes
<1>3. /\ Rows(buckets') /\ DOMAIN buckets' = {h \in DOMAIN stored : h >= Cutoff(hour)}
      /\ \A h \in DOMAIN buckets' : buckets'[h] = stored[h]
      /\ Total(buckets') \in Nat /\ Total(buckets') <= Total(stored)
  BY <1>1, <1>2, InWindowIs
<1>4. Unseen' = 0
  BY <1>1 DEF Unseen, Unknown
<1>5. TrafficTypes'
  BY <1>1, <1>2, <1>3, TrafficAssumption DEF TrafficInv, TrafficTypes, Unknown
<1>6. StoredWithin'
  <2> SUFFICES ASSUME NEW h \in DOMAIN stored, h >= Cutoff(hour)
               PROVE  h \in DOMAIN buckets' /\ stored[h] <= buckets'[h]
    BY <1>1 DEF StoredWithin, Cutoff
  <2>1. stored[h] \in Nat
    BY <1>2 DEF Rows
  <2> QED
    BY <1>3, <2>1
<1>7. Total(stored)' = Total(stored) /\ Total(stored) <= traffic /\ traffic' = traffic
      /\ Total(buckets)' = Total(buckets')
  BY <1>1 DEF TrafficInv
<1>8. Total(buckets)' + Unseen' <= traffic' /\ Total(stored)' <= traffic'
  BY <1>3, <1>4, <1>7, TotalsAre
<1> QED
  BY <1>5, <1>6, <1>8 DEF TrafficInv

\* What the chart shows, and what is stored, is traffic that went through the broker while Admin
\* was there to see it: nothing from before, nothing twice, whoever restarts in between
\* (traffic-metrics.js:26-30).
THEOREM TrafficObserved == TrafficSpec => []TrafficIsObserved
<1>1. TrafficInv /\ [TrafficNext]_trafficVars => TrafficInv'
  <2> SUFFICES ASSUME TrafficInv, [TrafficNext]_trafficVars PROVE TrafficInv'
    OBVIOUS
  <2>1. CASE UNCHANGED trafficVars
    BY <2>1 DEF trafficVars, TrafficInv, TrafficTypes, StoredWithin, Unseen, Cutoff
  <2> QED
    BY <2>1, UpdateKeeps, TickKeeps, MessageKeeps, BrokerRestartKeeps, AdminRestartKeeps
       DEF TrafficNext
<1>2. TrafficInv => TrafficIsObserved
  <2> SUFFICES ASSUME TrafficInv PROVE TrafficIsObserved
    OBVIOUS
  <2>1. Total(buckets) + Unseen <= traffic /\ Total(stored) <= traffic
    BY DEF TrafficInv
  <2> QED
    BY <2>1, TotalsAre DEF TrafficIsObserved
<1> QED
  BY <1>1, <1>2, InitTraffic, PTL DEF TrafficSpec
=============================================================================
