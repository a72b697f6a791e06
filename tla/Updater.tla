------------------------------- MODULE Updater -------------------------------
(***************************************************************************)
(* The host updater (scripts/updater/controller.py over host.py,           *)
(* journal.py and snapshots.py) acting on a running gateway: Admin, the    *)
(* broker and its supervisor (broker-entrypoint.sh), and the clients that  *)
(* write through them.                                                     *)
(*                                                                         *)
(* One step of the controller is one backend call or one journal           *)
(* transition.  The process may die before and after each of them, between *)
(* the two files of a transition and inside a restore; every backend call  *)
(* may raise.  "idle" means that no process holds the operation lock.      *)
(***************************************************************************)
EXTENDS Naturals, FiniteSets, UpdateJournal

CONSTANTS
    Writes,           \* persistent changes clients may ask for
    NoWrite,          \* no admitted request is waiting
    MaxVersion,       \* releases are 1..MaxVersion; 1 is installed first
    Schema,           \* the schema version each release needs
    MaxOps,           \* bound: operations begun
    MaxLogins,        \* bound: logins that advance a replay counter
    MaxCrashes,       \* bound: deaths of the updater and reboots
    BackendCanFail,   \* may a host command fail although nothing is wrong?
    JournalCanFail,   \* may the disk refuse a journal write?
    SupervisorIsPrompt  \* assumed or not: see SupervisorCaughtUp

Versions == 1..MaxVersion
OpIds == 1..MaxOps
Services == {"admin", "broker"}

ASSUME UpdaterAssumption ==
    /\ NoWrite \notin Writes
    /\ MaxVersion \in Nat \ {0} /\ MaxOps \in Nat /\ MaxLogins \in Nat /\ MaxCrashes \in Nat
    /\ Schema \in [Versions -> Nat]
    /\ \A v, w \in Versions : v <= w => Schema[v] <= Schema[w]
    /\ BackendCanFail \in BOOLEAN /\ JournalCanFail \in BOOLEAN /\ SupervisorIsPrompt \in BOOLEAN

VARIABLES
    journal,    \* operation.json
    hist,       \* history/<id>.json
    installed,  \* installed.json
    marker,     \* the bridge's maintenance.json exists
    runtime,    \* the data directory
    units,      \* the Image= line of each managed Quadlet
    snaps,      \* the recovery point of each operation
    work,       \* restore.json of the running operation's two restore workspaces
    running,    \* release each active service runs, 0 when it is stopped
    boot,       \* services the user manager has yet to start after a reboot
    bmode,      \* listener policy of the running mosquitto
    gateFile,   \* broker/update-gate
    inflight,   \* the mutation Admin admitted and has not stored yet
    unsaved,    \* publishes that only mosquitto's memory holds yet
    pc, mode,   \* the next call, and which of the controller's chains it is in
    mem,        \* the controller's in-memory operation record
    source,     \* rollback()'s local: the operation being undone
    security,   \* restore()'s local previous_security: replay counter, or unreadable
    ops, crashes,  \* counters for the bounds
    acked, logins  \* ghosts: acknowledged changes but for those that went with
                   \* mosquitto's memory; last counter accepted

disk == <<journal, hist, installed, marker, runtime, units, snaps, work>>
services == <<running, boot, bmode, gateFile, inflight, unsaved>>
locals == <<pc, mode, mem, source, security>>
ghosts == <<ops, crashes, acked, logins>>
vars == <<disk, services, locals, ghosts>>

Unit == [version : Versions, ref : {"release", "id"}]
Fingerprints == [writes : SUBSET Writes, schema : Nat, units : [Services -> Unit]]
InstalledRecord ==
    [version : Versions, op : 0..MaxOps, images : [Services -> Versions], fp : Fingerprints]
Operation ==
    [id : 0..MaxOps, kind : {"install", "rollback"}, state : States, version : Versions,
     committed : BOOLEAN, snap : BOOLEAN, prev : InstalledRecord]
Data ==
    [present : BOOLEAN, writes : SUBSET Writes, counter : 0..MaxLogins, schema : Nat,
     touched : BOOLEAN]

Modes == {"none", "run", "forward", "back", "done"}
\* Calls whose effect needs both services stopped (assert_quiescent).
Offline == {"snapshot", "migrate", "activate_admin", "activate_broker", "restore", "displace",
            "place", "check", "secure", "unit_admin", "unit_broker", "reinstate"}
Calls == Offline \cup
    {"resolve", "verify_snapshot", "download", "verify_images", "preflight", "maintain", "prepare",
     "stop_admin", "stop_broker", "recheck", "start_broker", "start_admin", "health", "commit",
     "open", "ack"}
Unreadable == MaxLogins + 1

Gone == [present |-> FALSE, writes |-> {}, counter |-> 0, schema |-> 0, touched |-> FALSE]
FirstUnits == [s \in Services |-> [version |-> 1, ref |-> "release"]]

Fingerprint == [writes |-> runtime.writes, schema |-> runtime.schema, units |-> units]

FirstRecord ==
    [version |-> 1, op |-> 0, images |-> [s \in Services |-> 1],
     fp |-> [writes |-> {}, schema |-> Schema[1], units |-> FirstUnits]]

NoOperation == [NewOperation(0, "install", 1, FirstRecord) EXCEPT !.state = "IDLE"]

Init ==
    /\ journal = NoOperation
    /\ hist = [i \in OpIds |-> NoOperation]
    /\ installed = FirstRecord
    /\ marker = FALSE
    /\ runtime = [present |-> TRUE, writes |-> {}, counter |-> 0, schema |-> Schema[1], touched |-> TRUE]
    /\ units = FirstUnits
    /\ snaps = [i \in OpIds |-> Gone]
    /\ work = [own |-> "none", target |-> "none"]
    /\ running = [s \in Services |-> 1]
    /\ boot = {} /\ bmode = "open" /\ gateFile = "open" /\ inflight = NoWrite /\ unsaved = {}
    /\ pc = "idle" /\ mode = "none" /\ mem = NoOperation /\ source = 0 /\ security = Unreadable
    /\ ops = 0 /\ crashes = 0 /\ acked = {} /\ logins = 0

(***************************************************************************)
(* The controller's control flow.                                          *)
(***************************************************************************)
\* The lock holder returns or dies: its locals are gone.
LetGo ==
    /\ pc' = "idle" /\ mode' = "none" /\ mem' = NoOperation
    /\ source' = 0 /\ security' = Unreadable

Dies == crashes < MaxCrashes /\ crashes' = crashes + 1 /\ LetGo

GoTo(next) == pc' = next /\ UNCHANGED <<mode, mem, source, security>>

\* transition(): o replaces the in-memory record, then operation.json, then the
\* history file.  The process may die between the files, or a write may raise.
Record(o, next, nextMode, onError) ==
    LET Continue(n, m) ==
          /\ UNCHANGED crashes
          /\ IF n = "idle" THEN LetGo
             ELSE pc' = n /\ mode' = m /\ mem' = o /\ UNCHANGED <<source, security>>
    IN  \/ journal' = o /\ hist' = [hist EXCEPT ![o.id] = o] /\ Continue(next, nextMode)
        \/ journal' = o /\ UNCHANGED hist /\ Dies
        \/ JournalCanFail /\ journal' \in {journal, o} /\ UNCHANGED hist /\ Continue(onError, mode)

OnError == IF mode = "run" THEN "recover" ELSE "giveup"

\* The transition at the end of a state's calls.
Log ==
    LET next == CASE mode = "run" -> Successor(mem)
                  [] mode = "forward" -> "COMPLETED"
                  [] mode = "back" -> "ROLLED_BACK"
        o == Moved(mem, next)
    IN  /\ pc = "log"
        /\ IF MayMove(mem, next)
           THEN Record(o, IF mode = "run" THEN FirstCall(o) ELSE "idle", mode, OnError)
           ELSE GoTo(OnError) /\ UNCHANGED <<journal, hist, crashes>>
        /\ UNCHANGED <<installed, marker, runtime, units, snaps, work, services, ops, acked, logins>>

\* install(): nothing is checked before begin().  A fresh operation has empty
\* restore workspaces.
Begin(o) ==
    /\ pc = "idle" /\ MayBegin(journal) /\ ops < MaxOps
    /\ ops' = ops + 1
    /\ work' = [own |-> "none", target |-> "none"]
    /\ \/ journal' = o /\ hist' = [hist EXCEPT ![o.id] = o] /\ UNCHANGED crashes
          /\ pc' = FirstCall(o) /\ mode' = "run" /\ mem' = o
       \/ journal' = o /\ UNCHANGED hist
          /\ pc' = "idle" /\ UNCHANGED <<mode, mem>>
          /\ \/ crashes < MaxCrashes /\ crashes' = crashes + 1
             \/ JournalCanFail /\ UNCHANGED crashes
    /\ UNCHANGED <<installed, marker, runtime, units, snaps, services, security, acked, logins>>

Install(v) == Begin(NewOperation(ops + 1, "install", v, installed)) /\ UNCHANGED source

\* rollback(): the guards it reads from the history file, before begin().
RollbackAdmits(i) ==
    /\ hist[i].state = "COMPLETED" /\ hist[i].snap
    /\ installed.op = i
    /\ runtime.present /\ installed.fp = Fingerprint

Rollback(i) ==
    /\ RollbackAdmits(i)
    /\ Begin(NewOperation(ops + 1, "rollback", hist[i].prev.version, installed))
    /\ source' = IF pc' = "idle" THEN source ELSE i

\* recover(), at every start of the service and from the command line.
Resume ==
    /\ pc = "idle"
    /\ \/ journal.state = "COMPLETED" /\ mem' = journal /\ mode' = "done" /\ pc' = "open"
       \/ journal.state \notin Terminal \cup {"IDLE"}
          /\ mem' = journal /\ mode' = "run" /\ pc' = "recover"
    /\ UNCHANGED <<disk, services, source, security, ghosts>>

\* retry_recovery(), confirmed by the host owner.
RetryRecovery ==
    LET state == IF journal.committed THEN "COMMITTING" ELSE "ROLLING_BACK"
    IN  /\ pc = "idle" /\ journal.state = "RECOVERY_REQUIRED"
        /\ Record([journal EXCEPT !.state = state], "recover", "run", "idle")
        /\ UNCHANGED <<installed, marker, runtime, units, snaps, work, services, ops, acked, logins>>

\* Mutant of Recover: the commit point is not looked at.
RecoverBackwardOnly ==
    /\ pc = "recover"
    /\ \/ /\ mem.state \in PreMutation
          /\ Record(Moved(mem, "FAILED"), "idle", "none", "idle")
       \/ /\ mem.state \notin PreMutation
          /\ Record(Moved(mem, "ROLLING_BACK"), "maintain", "back", "giveup")
    /\ UNCHANGED <<installed, marker, runtime, units, snaps, work, services, ops, acked, logins>>

\* _recover(): forward after the commit point, nothing to undo before the first
\* mutation, backward otherwise.
Recover ==
    /\ pc = "recover"
    /\ \/ /\ mem.committed
          /\ pc' = "maintain" /\ mode' = "forward"
          /\ UNCHANGED <<journal, hist, mem, source, security, crashes>>
       \/ /\ ~mem.committed /\ mem.state \in PreMutation
          /\ Record(Moved(mem, "FAILED"), "idle", "none", "idle")
       \/ /\ ~mem.committed /\ mem.state \notin PreMutation
          /\ Record(Moved(mem, "ROLLING_BACK"), "maintain", "back", "giveup")
    /\ UNCHANGED <<installed, marker, runtime, units, snaps, work, services, ops, acked, logins>>

\* Mutant of GiveUp: the failure of a recovery is swallowed.
GiveUpSilently ==
    /\ pc = "giveup" /\ LetGo
    /\ UNCHANGED <<disk, services, ghosts>>

\* The except clauses of _recover().
GiveUp ==
    /\ pc = "giveup"
    /\ IF MayMove(mem, "RECOVERY_REQUIRED")
       THEN Record(Moved(mem, "RECOVERY_REQUIRED"), "idle", "none", "idle")
       ELSE LetGo /\ UNCHANGED <<journal, hist, crashes>>
    /\ UNCHANGED <<installed, marker, runtime, units, snaps, work, services, ops, acked, logins>>

(***************************************************************************)
(* The backend calls.                                                      *)
(***************************************************************************)
Call(at, next) == pc = at /\ GoTo(next)

Gate == IF marker THEN "maintenance" ELSE "open"
Quiescent == \A s \in Services : running[s] = 0
InForce(s) == IF running[s] # 0 THEN running[s] ELSE units[s].version  \* image_ids()

\* What a health check of release v finds besides a command failing: services
\* active, the API of release v, its schema.  Only Admin's version is asked for.
Healthy(v) ==
    /\ running["admin"] = v /\ running["broker"] # 0
    /\ runtime.schema = Schema[v]

\* resolve, download, verify_images, preflight, verify_snapshot: no state changes.
VersionAdvances == mem.version > installed.version
ImagesMatch == installed.images = [s \in Services |-> InForce(s)]

\* Timing, assumed only where SupervisorIsPrompt says so: the calls before the marker
\* is written (a release lookup and two image pulls, or hashing the whole recovery
\* point) outlast the two seconds the supervisor needs to finish a restart that an
\* earlier operation caused.
SupervisorCaughtUp ==
    SupervisorIsPrompt => running["broker"] # 0 /\ gateFile = bmode /\ bmode = Gate

Check ==
    /\ \/ Call("resolve", "log") /\ VersionAdvances
       \/ Call("download", "log")
       \/ Call("verify_images", "log")
       \/ Call("preflight", "log") /\ ImagesMatch /\ running["broker"] # 0 /\ SupervisorCaughtUp
       \/ Call("verify_snapshot", "log") /\ snaps[source].present /\ SupervisorCaughtUp
    /\ UNCHANGED <<disk, services, security, ghosts>>

Maintain ==
    /\ Call("maintain",
            IF mode = "run" THEN "prepare"
            ELSE IF mode = "back" /\ mem.snap THEN "stop_admin" ELSE "start_broker")
    /\ marker' = TRUE
    /\ UNCHANGED <<journal, hist, installed, runtime, units, snaps, work, services, ghosts>>

\* Mutant of Prepare: the broker's acknowledgement is not awaited.
PrepareWithoutGate ==
    /\ Call("prepare", "stop_admin")
    /\ running["admin"] # 0 /\ inflight = NoWrite
    /\ UNCHANGED <<disk, services, ghosts>>

\* prepare_stop(): Admin's queue is idle, and the broker acknowledged the gate.
Prepare ==
    /\ Call("prepare", "stop_admin")
    /\ running["admin"] # 0 /\ inflight = NoWrite
    /\ gateFile = "maintenance"
    /\ UNCHANGED <<disk, services, ghosts>>

\* Mutant of StopAdmin: a pending start job is left in the queue.
StopAdminKeepingJob ==
    /\ Call("stop_admin", "stop_broker")
    /\ running' = [running EXCEPT !["admin"] = 0] /\ inflight' = NoWrite
    /\ UNCHANGED <<disk, boot, bmode, gateFile, unsaved, ghosts>>

\* systemctl stop: drops a pending start job; a request still in flight dies unanswered.
StopAdmin ==
    /\ Call("stop_admin", "stop_broker")
    /\ running' = [running EXCEPT !["admin"] = 0] /\ boot' = boot \ {"admin"} /\ inflight' = NoWrite
    /\ UNCHANGED <<disk, bmode, gateFile, unsaved, ghosts>>

\* mosquitto writes what it holds in memory into the data directory.
SaveInMemory ==
    /\ runtime' = [runtime EXCEPT !.writes = @ \cup unsaved]
    /\ unsaved' = {}

\* The entrypoint forwards the stop to mosquitto, which saves before it exits.
StopBroker ==
    /\ Call("stop_broker",
            IF mode = "back" THEN "restore" ELSE IF mem.kind = "rollback" THEN "recheck" ELSE "log")
    /\ running' = [running EXCEPT !["broker"] = 0] /\ boot' = boot \ {"broker"} /\ bmode' = "none"
    /\ SaveInMemory
    /\ UNCHANGED <<journal, hist, installed, marker, units, snaps, work, gateFile, inflight, ghosts>>

\* Mutant of Recheck: rollback() trusts the fingerprint it compared before stopping.
RecheckNothing ==
    /\ Call("recheck", "log")
    /\ UNCHANGED <<disk, services, ghosts>>

\* rollback() compares the fingerprint again once the writers are stopped.
Recheck ==
    /\ Call("recheck", "log")
    /\ mem.prev.fp = Fingerprint
    /\ UNCHANGED <<disk, services, ghosts>>

Snapshot ==
    /\ Call("snapshot", "log") /\ Quiescent /\ ~snaps[mem.id].present
    /\ snaps' = [snaps EXCEPT ![mem.id] = [runtime EXCEPT !.touched = FALSE]]
    /\ UNCHANGED <<journal, hist, installed, marker, runtime, units, work, services, ghosts>>

\* migrate(): a migrated copy atomically replaces the database.
Migrate ==
    /\ Call("migrate", "log") /\ Quiescent
    /\ runtime' = [runtime EXCEPT !.schema = Schema[mem.version]]
    /\ UNCHANGED <<journal, hist, installed, marker, units, snaps, work, services, ghosts>>

\* activate(): one unit file after the other.
Activate(s) ==
    /\ Call(IF s = "admin" THEN "activate_admin" ELSE "activate_broker",
            IF s = "admin" THEN "activate_broker" ELSE "log")
    /\ Quiescent
    /\ units' = [units EXCEPT ![s] = [version |-> mem.version, ref |-> "release"]]
    /\ UNCHANGED <<journal, hist, installed, marker, runtime, snaps, work, services, ghosts>>

\* A service comes up on the data directory.  Admin migrates an older database
\* itself and exits at a newer one; either service writes to its files.
Launch(s) ==
    LET v == units[s].version
    IN  /\ runtime.present
        /\ IF running[s] # 0 \/ (s = "admin" /\ runtime.schema > Schema[v])
           THEN UNCHANGED <<running, bmode, runtime>>
           ELSE /\ running' = [running EXCEPT ![s] = v]
                /\ bmode' = IF s = "broker" THEN Gate ELSE bmode
                /\ runtime' = [runtime EXCEPT !.touched = TRUE,
                                              !.schema = IF s = "admin" THEN Schema[v] ELSE @]
        /\ boot' = boot \ {s}
        /\ UNCHANGED <<gateFile, inflight, unsaved>>

Start(s) ==
    /\ Call(IF s = "broker" THEN "start_broker" ELSE "start_admin",
            IF s = "broker" THEN "start_admin" ELSE IF mode = "run" THEN "log" ELSE "health")
    /\ Launch(s)
    /\ UNCHANGED <<journal, hist, installed, marker, units, snaps, work, ghosts>>

HealthOf == IF mode = "back" THEN mem.prev.version ELSE mem.version

Health ==
    /\ Call("health", [run |-> "log", forward |-> "commit", back |-> "open"][mode])
    /\ Healthy(HealthOf)
    /\ UNCHANGED <<disk, services, ghosts>>

\* commit() is idempotent on the operation's identity.
Commit ==
    /\ Call("commit", "open")
    /\ installed' = IF installed.op = mem.id THEN installed
                    ELSE [version |-> mem.version, op |-> mem.id,
                          images |-> [s \in Services |-> InForce(s)], fp |-> Fingerprint]
    /\ UNCHANGED <<journal, hist, marker, runtime, units, snaps, work, services, ghosts>>

\* maintenance(False): the marker goes first, then the broker must acknowledge.
Open ==
    /\ Call("open", "ack")
    /\ marker' = FALSE
    /\ UNCHANGED <<journal, hist, installed, runtime, units, snaps, work, services, ghosts>>

Acknowledge ==
    /\ pc = "ack" /\ gateFile = "open"
    /\ IF mode = "done" THEN LetGo ELSE GoTo("log")
    /\ UNCHANGED <<disk, services, ghosts>>

(***************************************************************************)
(* restore(): of the operation's own recovery point when recovering, of the *)
(* source operation's when rolling back on request.                        *)
(***************************************************************************)
Key == IF mode = "run" THEN "target" ELSE "own"
Point == IF mode = "run" THEN snaps[source] ELSE snaps[mem.id]
Reinstated == IF mode = "run" THEN hist[source].prev ELSE mem.prev

\* previous_security is read before anything moves; the log says where to resume.
RestoreBegin ==
    /\ pc = "restore" /\ Quiescent /\ Point.present
    /\ security' = IF runtime.present THEN runtime.counter ELSE Unreadable
    /\ pc' = CASE work[Key] = "completed" -> "secure"
               [] work[Key] = "installed" -> "check"
               [] OTHER -> IF runtime.present THEN "displace" ELSE "place"
    /\ UNCHANGED <<disk, services, mode, mem, source, ghosts>>

RestoreDisplace ==
    /\ Call("displace", "place")
    /\ runtime' = Gone
    /\ UNCHANGED <<journal, hist, installed, marker, units, snaps, work, services, ghosts>>

RestorePlace ==
    /\ Call("place", "check")
    /\ runtime' = Point
    /\ work' = [work EXCEPT ![Key] = "installed"]
    /\ UNCHANGED <<journal, hist, installed, marker, units, snaps, services, ghosts>>

\* Every file must have the recovery point's hash; then the log says completed.
RestoreCheck ==
    /\ Call("check", "secure")
    /\ ~runtime.touched
    /\ work' = [work EXCEPT ![Key] = "completed"]
    /\ UNCHANGED <<journal, hist, installed, marker, runtime, units, snaps, services, ghosts>>

\* Mutant of RestoreSecure: the displaced counter is not merged.
RestoreSecureForgetting ==
    /\ Call("secure", "unit_admin")
    /\ runtime' = [runtime EXCEPT !.touched = TRUE]
    /\ UNCHANGED <<journal, hist, installed, marker, units, snaps, work, services, ghosts>>

\* A replay counter takes the larger of the restored and the displaced value.
RestoreSecure ==
    /\ Call("secure", "unit_admin")
    /\ runtime' = [runtime EXCEPT !.touched = TRUE,
                      !.counter = IF security # Unreadable /\ security > @ THEN security ELSE @]
    /\ UNCHANGED <<journal, hist, installed, marker, units, snaps, work, services, ghosts>>

\* Mutant of RestoreUnit: only Admin's unit is put back.
RestoreAdminUnit(s) ==
    /\ Call(IF s = "admin" THEN "unit_admin" ELSE "unit_broker",
            IF s = "admin" THEN "unit_broker" ELSE "reinstate")
    /\ units' = [units EXCEPT !["admin"] = [version |-> Reinstated.images["admin"], ref |-> "id"]]
    /\ UNCHANGED <<journal, hist, installed, marker, runtime, snaps, work, services, ghosts>>

RestoreUnit(s) ==
    /\ Call(IF s = "admin" THEN "unit_admin" ELSE "unit_broker",
            IF s = "admin" THEN "unit_broker" ELSE "reinstate")
    /\ units' = [units EXCEPT ![s] = [version |-> Reinstated.images[s], ref |-> "id"]]
    /\ UNCHANGED <<journal, hist, installed, marker, runtime, snaps, work, services, ghosts>>

RestoreRecord ==
    /\ Call("reinstate", IF mode = "run" THEN "log" ELSE "start_broker")
    /\ installed' = Reinstated
    /\ UNCHANGED <<journal, hist, marker, runtime, units, snaps, work, services, ghosts>>

(***************************************************************************)
(* A call raises.                                                          *)
(***************************************************************************)
\* Calls that cannot succeed in this state, whatever the host does.
Hopeless ==
    \/ pc = "resolve" /\ ~VersionAdvances
    \/ pc = "preflight" /\ (~ImagesMatch \/ running["broker"] = 0)
    \/ pc = "verify_snapshot" /\ ~snaps[source].present
    \/ pc = "prepare" /\ (running["admin"] = 0 \/ (running["broker"] = 0 /\ gateFile = "open"))
    \/ pc = "recheck" /\ mem.prev.fp # Fingerprint
    \/ pc \in {"snapshot", "migrate", "activate_admin", "restore"} /\ ~Quiescent
    \/ pc \in {"start_broker", "start_admin"} /\ ~runtime.present
    \/ pc = "health" /\ ~Healthy(HealthOf)
    \/ pc = "ack" /\ running["broker"] = 0 /\ gateFile # "open"
    \/ pc = "check" /\ runtime.touched

\* At "log" the call before it raised after its effect took place.
Fail ==
    /\ \/ pc \in Calls \cup {"log"} /\ BackendCanFail
       \/ Hopeless
    /\ IF mode = "done" THEN LetGo ELSE GoTo(OnError)
    /\ UNCHANGED <<disk, services, ghosts>>

Controller ==
    \/ Log \/ Recover \/ GiveUp
    \/ Check \/ Maintain \/ Prepare \/ StopAdmin \/ StopBroker \/ Recheck \/ Snapshot \/ Migrate
    \/ \E s \in Services : Activate(s) \/ Start(s) \/ RestoreUnit(s)
    \/ Health \/ Commit \/ Open \/ Acknowledge
    \/ RestoreBegin \/ RestoreDisplace \/ RestorePlace \/ RestoreCheck \/ RestoreSecure
    \/ RestoreRecord
    \/ Fail

(***************************************************************************)
(* The broker's supervisor: it polls the gate only after it has recorded   *)
(* the policy it started mosquitto with.                                   *)
(***************************************************************************)
\* Mutant of SupervisorRecord: it records although mosquitto does not run.
SupervisorRecordAlways ==
    /\ gateFile # bmode /\ gateFile' = bmode
    /\ UNCHANGED <<disk, running, boot, bmode, inflight, unsaved, locals, ghosts>>

SupervisorRecord ==
    /\ running["broker"] # 0 /\ gateFile # bmode
    /\ gateFile' = bmode
    /\ UNCHANGED <<disk, running, boot, bmode, inflight, unsaved, locals, ghosts>>

\* Mutant of SupervisorRestart: only the way into maintenance is noticed.
SupervisorRestartInto ==
    /\ running["broker"] # 0 /\ gateFile = bmode /\ bmode = "open" /\ Gate = "maintenance"
    /\ bmode' = Gate
    /\ SaveInMemory
    /\ UNCHANGED <<journal, hist, installed, marker, units, snaps, work, running, boot, gateFile,
                   inflight, locals, ghosts>>

\* mosquitto is stopped with SIGTERM, at which it saves, and started again.
SupervisorRestart ==
    /\ running["broker"] # 0 /\ gateFile = bmode /\ bmode # Gate
    /\ bmode' = Gate
    /\ SaveInMemory
    /\ UNCHANGED <<journal, hist, installed, marker, units, snaps, work, running, boot, gateFile,
                   inflight, locals, ghosts>>

\* autosave_interval: every 30 seconds.
BrokerSave ==
    /\ unsaved # {}
    /\ SaveInMemory
    /\ UNCHANGED <<journal, hist, installed, marker, units, snaps, work, running, boot, bmode,
                   gateFile, inflight, locals, ghosts>>

\* What mosquitto had in memory is gone, however it was acknowledged.
MemoryIsLost == unsaved' = {} /\ acked' = acked \ unsaved

\* mosquitto dies; systemd restarts the container, which re-reads the gate.
BrokerRestart ==
    /\ running["broker"] # 0 /\ (bmode # Gate \/ unsaved # {})
    /\ bmode' = Gate
    /\ MemoryIsLost
    /\ UNCHANGED <<disk, running, boot, gateFile, inflight, locals, ops, crashes, logins>>

(***************************************************************************)
(* Crashes.  A reboot stops everything; the user manager then starts the    *)
(* services on its own, broker first, beside the updater's recovery.  With *)
(* the power goes what mosquitto had not saved; an orderly reboot is       *)
(* BrokerSave before it.                                                   *)
(***************************************************************************)
Crash ==
    /\ pc # "idle" /\ Dies
    /\ UNCHANGED <<disk, services, ops, acked, logins>>

\* Mutant of Reboot: the marker does not survive it.
RebootLosingMarker ==
    /\ Dies
    /\ running' = [s \in Services |-> 0] /\ boot' = Services
    /\ bmode' = "none" /\ inflight' = NoWrite /\ marker' = FALSE
    /\ MemoryIsLost
    /\ UNCHANGED <<journal, hist, installed, runtime, units, snaps, work, gateFile, ops, logins>>

Reboot ==
    /\ Dies
    /\ running' = [s \in Services |-> 0] /\ boot' = Services
    /\ bmode' = "none" /\ inflight' = NoWrite
    /\ MemoryIsLost
    /\ UNCHANGED <<disk, gateFile, ops, logins>>

BootStart(s) ==
    /\ s \in boot /\ (s = "admin" => "broker" \notin boot)
    /\ Launch(s)
    /\ UNCHANGED <<journal, hist, installed, marker, units, snaps, work, locals, ghosts>>

(***************************************************************************)
(* Clients.  Admin admits a mutation unless the marker exists, and answers *)
(* it after it has stored it; the broker answers while its listeners are   *)
(* public, before anything is on the disk; a login advances a replay       *)
(* counter.                                                                *)
(***************************************************************************)
AdminAdmit(w) ==
    /\ running["admin"] # 0 /\ ~marker /\ inflight = NoWrite /\ w \notin acked
    /\ inflight' = w
    /\ UNCHANGED <<disk, running, boot, bmode, gateFile, unsaved, locals, ghosts>>

AdminStore ==
    /\ running["admin"] # 0 /\ runtime.present /\ inflight # NoWrite
    /\ runtime' = [runtime EXCEPT !.writes = @ \cup {inflight}]
    /\ acked' = acked \cup {inflight} /\ inflight' = NoWrite
    /\ UNCHANGED <<journal, hist, installed, marker, units, snaps, work, running, boot, bmode,
                   gateFile, unsaved, locals, ops, crashes, logins>>

BrokerPublish(w) ==
    /\ bmode = "open" /\ runtime.present /\ w \notin acked \cup {inflight}
    /\ unsaved' = unsaved \cup {w} /\ acked' = acked \cup {w}
    /\ UNCHANGED <<disk, running, boot, bmode, gateFile, inflight, locals, ops, crashes, logins>>

Login ==
    /\ running["admin"] # 0 /\ ~marker /\ runtime.present /\ logins < MaxLogins
    /\ logins' = logins + 1
    /\ runtime' = [runtime EXCEPT !.counter = logins + 1]
    /\ UNCHANGED <<journal, hist, installed, marker, units, snaps, work, services, locals, ops,
                   crashes, acked>>

Owner == (\E v \in Versions : Install(v)) \/ (\E i \in OpIds : Rollback(i)) \/ RetryRecovery
Clients == (\E w \in Writes : AdminAdmit(w) \/ BrokerPublish(w)) \/ AdminStore \/ Login
Supervisor == SupervisorRecord \/ SupervisorRestart

Next ==
    \/ Owner \/ Resume \/ Controller
    \/ Supervisor \/ BrokerSave \/ BrokerRestart
    \/ Crash \/ Reboot \/ (\E s \in Services : BootStart(s))
    \/ Clients

Spec == Init /\ [][Next]_vars

\* The lock holder keeps running, systemd restarts the service (which calls
\* recover()), the supervisor's loop polls, boot jobs run.  Owner and clients
\* owe nothing.
FairSpec ==
    /\ Spec
    /\ WF_vars(Controller) /\ WF_vars(Resume) /\ WF_vars(Supervisor)
    /\ \A s \in Services : WF_vars(BootStart(s))

-----------------------------------------------------------------------------
TypeOK ==
    /\ journal \in Operation /\ mem \in Operation /\ hist \in [OpIds -> Operation]
    /\ installed \in InstalledRecord
    /\ marker \in BOOLEAN
    /\ runtime \in Data /\ snaps \in [OpIds -> Data]
    /\ units \in [Services -> Unit]
    /\ work \in [{"own", "target"} -> {"none", "installed", "completed"}]
    /\ running \in [Services -> 0..MaxVersion] /\ boot \subseteq Services
    /\ bmode \in {"none", "open", "maintenance"} /\ gateFile \in {"open", "maintenance"}
    /\ inflight \in Writes \cup {NoWrite} /\ unsaved \subseteq Writes
    /\ pc \in Calls \cup {"idle", "log", "recover", "giveup"} /\ mode \in Modes
    /\ source \in 0..MaxOps /\ security \in 0..Unreadable
    /\ ops \in 0..MaxOps /\ crashes \in 0..MaxCrashes
    /\ acked \subseteq Writes /\ logins \in 0..MaxLogins

\* The operation has ended and needs nobody.
Settled(o) == o.state \in {"IDLE", "COMPLETED", "ROLLED_BACK", "FAILED"}

\* The recovery point may still replace the data directory.
Undecided == journal.snap /\ ~journal.committed /\ ~Settled(journal) /\ work.own # "completed"

(***************************************************************************)
(* Every change acknowledged to a client survives updates, rollbacks and   *)
(* recoveries: it is in the live data, in mosquitto's memory while that    *)
(* runs, or in the recovery point that recovery is going to put there      *)
(* (controller.py:24-31, 40-41 and 115-143).  The updater's stops and the  *)
(* supervisor's restarts count; what a power loss or mosquitto's own death *)
(* takes with its memory, up to 30 seconds of publishes                    *)
(* (broker-entrypoint.sh:22), is excepted: `acked` no longer has it.       *)
(***************************************************************************)
NoAcknowledgedWriteLost ==
    IF Undecided THEN acked \subseteq snaps[journal.id].writes
    ELSE Settled(journal) => runtime.present /\ acked \subseteq runtime.writes \cup unsaved

(***************************************************************************)
(* While the recovery point may still replace the data no client can have  *)
(* a change acknowledged: the listeners are private, Admin refuses, and no *)
(* admitted request is left (host.py:142-160 with broker-entrypoint.sh).   *)
(***************************************************************************)
NoWriterWhileUndecided ==
    Undecided => marker /\ bmode # "open" /\ inflight = NoWrite

(***************************************************************************)
(* An operation that ended left one release in force everywhere: installed *)
(* record, both units, schema; the new one when it completed, the previous *)
(* one otherwise, and the gate's marker is gone (controller.py:12-48,      *)
(* 115-143; host.py:275-366).                                              *)
(***************************************************************************)
SettledIsConsistent ==
    /\ journal.state = "COMPLETED" =>
         /\ installed.op = journal.id /\ installed.version = journal.version
         /\ installed.images = [s \in Services |-> journal.version]
    /\ journal.state \in {"ROLLED_BACK", "FAILED"} => installed = journal.prev
    /\ Settled(journal) =>
         /\ ~marker
         /\ runtime.schema = Schema[installed.version]
         /\ \A s \in Services : units[s].version = installed.images[s]

(***************************************************************************)
(* A replay counter never goes back to a value it has accepted: while      *)
(* Admin accepts logins, the stored counter is the last one accepted       *)
(* (host.py:283-301).                                                      *)
(***************************************************************************)
ReplayCounterKept ==
    running["admin"] # 0 /\ ~marker => runtime.counter = logins

(***************************************************************************)
(* Data and units are replaced only while both services are down, whatever *)
(* the user manager starts on its own after a reboot (host.py:167-171).    *)
(***************************************************************************)
OfflineWhileReplacing == pc \in Offline => Quiescent

(***************************************************************************)
(* install() and rollback() stop Admin only when no request is in flight   *)
(* (one whose client still waits) and mosquitto itself, not only a gate    *)
(* file left by an earlier operation, has left the public listeners        *)
(* (host.py:149-160): where the supervisor is prompt.                      *)
(***************************************************************************)
StopsDrained ==
    pc = "stop_admin" /\ mode = "run" => inflight = NoWrite /\ bmode # "open"

CommittedStays ==
    journal.committed /\ journal'.id = journal.id =>
        /\ journal'.committed /\ journal'.state # "ROLLING_BACK"
        /\ runtime'.present /\ runtime.writes \subseteq runtime'.writes

(***************************************************************************)
(* A committed operation only moves forward, and nothing takes data back   *)
(* while it is the current one (controller.py:40-41, journal.py:91).       *)
(***************************************************************************)
CommittedMovesForward == [][CommittedStays]_vars

(***************************************************************************)
(* A started operation ends, in success, in its undoing or in a request    *)
(* for the owner, through crashes and failures (service.py:48-50,          *)
(* controller.py:50-59).                                                   *)
(***************************************************************************)
OperationEnds ==
    (journal.state \notin Terminal \cup {"IDLE"}) ~> (journal.state \in Terminal)

(***************************************************************************)
(* Once an operation has ended without asking for the owner, the broker    *)
(* serves external clients again unless the next operation begins          *)
(* (host.py:142-155, broker-entrypoint.sh:59-84).                          *)
(***************************************************************************)
ClientsReadmitted == Settled(journal) ~> (bmode = "open" \/ ~Settled(journal))

-----------------------------------------------------------------------------
(* What the repository says of the program, and the code does not do: each *)
(* is checked by a run of its own that finds the counterexample.           *)

(***************************************************************************)
(* "Once commit starts, recovery always moves forward. No old snapshot may *)
(* replace a successfully committed installation." (controller.py:40-41):  *)
(* once installed.json names the running operation, its own recovery       *)
(* neither takes the name out nor moves the data directory away.           *)
(***************************************************************************)
CommittedInstallationKept ==
    [][journal.id # 0 /\ installed.op = journal.id /\ journal'.id = journal.id =>
         installed'.op = installed.op /\ runtime'.present]_vars

(***************************************************************************)
(* "Repeating with the same path resumes after interruption."              *)
(* (snapshots.py:195-199): when nothing fails but the power, recovery      *)
(* never has to ask for the owner.                                         *)
(***************************************************************************)
PowerLossNeedsNobody == journal.state # "RECOVERY_REQUIRED"

\* status().canRollback.
CanRollback ==
    /\ journal.state = "COMPLETED" /\ journal.snap /\ installed.op = journal.id
    /\ snaps[journal.id].present /\ runtime.present /\ installed.fp = Fingerprint

(***************************************************************************)
(* "Review rollback is available only while the current operation's        *)
(* verified recovery point exists and relevant persistent data has not     *)
(* changed." (docs/system-updates-operations.md:63):                       *)
(* when recover() returns to serving requests, a rollback that the status  *)
(* offers is one that the controller admits.                               *)
(***************************************************************************)
OfferedRollbackIsAdmitted ==
    mode = "done" /\ pc = "ack" /\ CanRollback => RollbackAdmits(journal.id)
=============================================================================
