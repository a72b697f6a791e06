----------------------- MODULE UpdaterRefinementProofs -----------------------
(***************************************************************************)
(* Updater implements AtomicUpdate for every value of its constants, on a  *)
(* disk that takes the journal: no acknowledged change is lost, the        *)
(* release in force changes in one step, no replay counter goes back, and  *)
(* an operation that ended has one release in force everywhere.            *)
(***************************************************************************)
EXTENDS UpdaterProofs, UpdaterRefinement

-----------------------------------------------------------------------------
(* No acknowledged change is lost, on a disk that takes the journal.       *)

Closed == marker /\ bmode # "open" /\ inflight = NoWrite

\* What is in the files and in the services, whoever runs.
Pointed ==
    /\ journal.snap =>
         /\ journal.id \in OpIds /\ snaps[journal.id].present
         /\ journal.state \notin PreMutation \cup {"IDLE", "STOPPING", "BACKING_UP", "FAILED"}
    /\ journal.committed => journal.snap
    /\ journal.state \in {"MIGRATING", "INSTALLING", "STARTING", "HEALTH_CHECKING"} => journal.snap

\* While the recovery point is in force clients are locked out, and after the
\* commit point until installed.json has the operation's name.
Shut ==
    /\ Undecided => Closed
    /\ journal.committed /\ installed.op # journal.id =>
         Closed /\ runtime.writes = snaps[journal.id].writes

Held ==
    IF Undecided THEN acked \subseteq snaps[journal.id].writes
    ELSE runtime.present /\ acked \subseteq runtime.writes \cup unsaved

\* The data a recovery has put in place is the recovery point's.
PutBack == Undecided /\ work.own = "installed" => runtime.writes = snaps[journal.id].writes

\* An installation's fingerprint and its recovery point have the same changes.
Named(r) == r.op # 0 => snaps[r.op].present /\ r.fp.writes = snaps[r.op].writes

AllNamed ==
    /\ Named(installed) /\ Named(journal.prev) /\ \A i \in OpIds : Named(hist[i].prev)
    /\ journal.state = "COMPLETED" => installed.op = journal.id

Files == Pointed /\ Shut /\ Held /\ PutBack /\ AllNamed

\* What the running controller has established.
Same ==
    /\ pc # "idle" => mem = journal
    /\ mode = "run" => journal.state \notin Terminal \cup {"IDLE"}

PastStop ==
    /\ mode = "run"
    /\ \/ pc \in Offline \cup {"recheck", "start_broker", "start_admin", "health", "commit"}
       \/ pc = "log" /\ journal.state \in {"STOPPING", "BACKING_UP", "MIGRATING", "INSTALLING",
                                           "STARTING", "HEALTH_CHECKING"}

\* On the way to the stops clients are turned away by Admin; the broker may still
\* answer until it is stopped.
Leaving ==
    mode = "run" =>
        /\ pc \in {"prepare", "stop_admin", "stop_broker"} => marker
        /\ pc = "stop_broker" => inflight = NoWrite

\* Until it commits, an operation leaves in place the changes it found.
Exact ==
    mode = "run" /\ pc \in Calls \cup {"log"} =>
        /\ pc # "place" /\ journal.snap /\ ~journal.committed =>
             runtime.writes = snaps[journal.id].writes
        /\ pc = "log" /\ journal.state = "BACKING_UP" =>
             snaps[journal.id].present /\ runtime.writes = snaps[journal.id].writes

\* A rollback on request loses nothing either: nothing has changed since its
\* source committed.
Rolling ==
    mode = "run" /\ pc \in Calls \cup {"log"} /\ journal.kind = "rollback" =>
        /\ journal.prev.op = source
        /\ pc = "snapshot" \/ (pc = "log" /\ journal.state \in {"STOPPING", "BACKING_UP"}) =>
             runtime.writes = journal.prev.fp.writes
        /\ journal.snap => snaps[journal.id].writes = journal.prev.fp.writes

Undoing ==
    mode = "back" =>
        /\ pc \in Restoring \cup {"stop_admin", "stop_broker"} => journal.snap
        /\ pc = "check" => work.own = "installed"
        /\ /\ journal.snap
           /\ pc \in (BackCalls \cup {"log"})
                       \ {"maintain", "stop_admin", "stop_broker", "restore", "displace", "place",
                          "check"}
           => work.own = "completed"

NamedAt ==
    /\ pc \in {"open", "ack"} /\ mode # "back" => installed.op = journal.id
    /\ pc = "log" /\ journal.committed => installed.op = journal.id

Course == Same /\ (PastStop => Closed) /\ Leaving /\ Exact /\ Rolling /\ Undoing /\ NamedAt

Kept == Files /\ Course

LEMMA KeptInit == Init => Kept
<1> SUFFICES ASSUME Init PROVE Kept
  OBVIOUS
<1>1. ~NoOperation.snap /\ NoOperation.prev = FirstRecord /\ FirstRecord.op = 0
  BY DEF NoOperation, NewOperation, FirstRecord
<1> QED
  BY <1>1, FirstRecordFacts
     DEF Init, Kept, Files, Course, Pointed, Shut, Held, PutBack, AllNamed, Named, Undecided, Settled,
         Same, PastStop, Leaving, Exact, Rolling, Undoing, NamedAt, Calls, Offline, OpIds

\* The controller is gone: only the files matter.
LEMMA CourseGone == ASSUME LetGo PROVE Course'
BY DEF LetGo, Course, Same, PastStop, Leaving, Exact, Rolling, Undoing, NamedAt, Calls, Offline

\* With a disk that takes it, the journal has the new record, dead or alive.
LEMMA RecordKept ==
    ASSUME JournalCanFail = FALSE, NEW o, NEW n, NEW m, NEW e, Record(o, n, m, e)
    PROVE  /\ journal' = o /\ hist' \in {hist, [hist EXCEPT ![o.id] = o]}
           /\ \/ LetGo
              \/ n # "idle" /\ pc' = n /\ mode' = m /\ mem' = o /\ source' = source
BY DEF Record, Dies

\* Behind private listeners mosquitto holds nothing it has not saved.
LEMMA ClosedIsSaved == IInv /\ Closed => unsaved = {}
BY DEF IInv, Supervised, Closed

\* Nobody but Open removes the marker, and Admin admits nothing while it is there.
LEMMA MarkerStays ==
    marker /\ [Next]_vars /\ ~Open => marker' /\ (inflight = NoWrite => inflight' = NoWrite)
<1> SUFFICES ASSUME marker, [Next]_vars, ~Open
             PROVE  marker' /\ (inflight = NoWrite => inflight' = NoWrite)
  OBVIOUS
<1> USE DEF disk, services, locals, ghosts
<1>1. CASE Owner \/ Resume \/ Log \/ Recover \/ GiveUp
  BY <1>1 DEF Owner, Install, Rollback, Begin, RetryRecovery, Resume, Log, Recover, GiveUp
<1>2. CASE Check \/ Maintain \/ Prepare \/ StopAdmin \/ StopBroker \/ Recheck \/ Snapshot \/ Migrate
           \/ Health \/ Commit \/ Acknowledge \/ RestoreBegin \/ RestoreDisplace \/ RestorePlace
           \/ RestoreCheck \/ RestoreSecure \/ RestoreRecord \/ Fail
           \/ (\E s \in Services : Activate(s) \/ RestoreUnit(s))
  BY <1>2 DEF Check, Maintain, Prepare, StopAdmin, StopBroker, Recheck, Snapshot, Migrate,
     Health, Commit, Acknowledge, RestoreBegin, RestoreDisplace, RestorePlace, RestoreCheck,
     RestoreSecure, RestoreRecord, Fail, Activate, RestoreUnit
<1>3. ASSUME NEW s \in Services, Start(s) \/ BootStart(s)
      PROVE  marker' /\ (inflight = NoWrite => inflight' = NoWrite)
  BY <1>3 DEF Start, BootStart, Launch
<1>4. CASE Supervisor \/ BrokerSave \/ BrokerRestart \/ Crash \/ Reboot \/ UNCHANGED vars
  BY <1>4 DEF Supervisor, SupervisorRecord, SupervisorRestart, BrokerSave, BrokerRestart, Crash,
     Reboot, vars
<1>5. CASE Clients
  BY <1>5 DEF Clients, AdminAdmit, AdminStore, BrokerPublish, Login
<1> QED BY <1>1, <1>2, <1>3, <1>4, <1>5 DEF Next, Controller

\* Nobody but Open lets a client in again.
LEMMA ClosedStays == IInv /\ Closed /\ [Next]_vars /\ ~Open => Closed'
<1> SUFFICES ASSUME IInv, Closed, [Next]_vars, ~Open PROVE Closed'
  OBVIOUS
<1> USE DEF disk, services, locals, ghosts, Closed
<1>1. CASE Owner \/ Resume \/ Log \/ Recover \/ GiveUp
  BY <1>1 DEF Owner, Install, Rollback, Begin, RetryRecovery, Resume, Log, Recover, GiveUp
<1>2. CASE Check \/ Maintain \/ Prepare \/ StopAdmin \/ StopBroker \/ Recheck \/ Snapshot \/ Migrate
           \/ Health \/ Commit \/ Acknowledge \/ RestoreBegin \/ RestoreDisplace \/ RestorePlace
           \/ RestoreCheck \/ RestoreSecure \/ RestoreRecord \/ Fail
           \/ (\E s \in Services : Activate(s) \/ RestoreUnit(s))
  BY <1>2 DEF Check, Maintain, Prepare, StopAdmin, StopBroker, Recheck, Snapshot, Migrate,
     Health, Commit, Acknowledge, RestoreBegin, RestoreDisplace, RestorePlace, RestoreCheck,
     RestoreSecure, RestoreRecord, Fail, Activate, RestoreUnit
<1>3. ASSUME NEW s \in Services, Start(s) \/ BootStart(s) PROVE Closed'
  BY <1>3 DEF Start, BootStart, Launch, Gate
<1>4. CASE Supervisor \/ BrokerSave \/ BrokerRestart \/ Crash \/ Reboot \/ UNCHANGED vars
  BY <1>4 DEF Supervisor, SupervisorRecord, SupervisorRestart, BrokerSave, BrokerRestart, Gate,
     Crash, Reboot, Dies, vars
<1>5. CASE Clients
  BY <1>5 DEF Clients, AdminAdmit, AdminStore, BrokerPublish, Login
<1> QED BY <1>1, <1>2, <1>3, <1>4, <1>5 DEF Next, Controller

\* A step that leaves both files of the journal, the recovery points and the
\* installed record alone, takes no change back and forgets none but with
\* mosquitto's memory.
Aside ==
    /\ UNCHANGED <<journal, hist, installed, snaps, work>>
    /\ acked' \subseteq acked
    /\ acked \subseteq runtime.writes \cup unsaved => acked' \subseteq runtime'.writes \cup unsaved'
    /\ runtime.writes \subseteq runtime'.writes /\ (Closed => runtime'.writes = runtime.writes)
    /\ (runtime.present => runtime'.present)

LEMMA FilesAside == ASSUME Files, Aside, Closed => Closed' PROVE Files'
<1>1. Undecided' = Undecided /\ (Undecided => Closed)
  BY DEF Files, Shut, Aside, Undecided, Settled
<1>2. Shut' /\ PutBack'
  BY <1>1 DEF Files, Aside, Shut, PutBack
<1>3. Held'
  BY <1>1 DEF Files, Aside, Held
<1>4. Pointed' /\ AllNamed'
  BY DEF Files, Aside, Pointed, AllNamed, Named
<1> QED BY <1>2, <1>3, <1>4 DEF Files

\* The steps that touch none of these files: most calls, and everything that
\* the services, a crash or a reader does.
Quietly ==
    \/ Check \/ Maintain \/ Prepare \/ StopAdmin \/ StopBroker \/ Recheck \/ Health \/ Migrate
    \/ Acknowledge \/ RestoreBegin \/ RestoreSecure \/ Fail
    \/ \E s \in Services : Activate(s) \/ RestoreUnit(s) \/ Start(s) \/ BootStart(s)
    \/ Resume \/ Supervisor \/ BrokerSave \/ BrokerRestart \/ Crash \/ Reboot \/ UNCHANGED vars
    \/ (\E w \in Writes : AdminAdmit(w)) \/ Login

LEMMA QuietlyAside == IInv /\ Quietly => Aside
<1> SUFFICES ASSUME IInv, Quietly PROVE Aside
  OBVIOUS
<1> USE DEF Call, GoTo, disk, services, locals, ghosts
<1>1. CASE Migrate \/ RestoreSecure \/ Login
  BY <1>1 DEF Migrate, RestoreSecure, Login, Aside, IInv, TypeOK, Data
<1>2. ASSUME NEW s \in Services, Start(s) \/ BootStart(s) PROVE Aside
  BY <1>2, LaunchFacts DEF Start, BootStart, Aside
<1>3. CASE Check \/ Maintain \/ Prepare \/ StopAdmin \/ Recheck \/ Health
           \/ Acknowledge \/ RestoreBegin \/ Fail
           \/ (\E s \in Services : Activate(s) \/ RestoreUnit(s))
  BY <1>3 DEF Check, Maintain, Prepare, StopAdmin, Recheck, Health, Acknowledge,
     RestoreBegin, Fail, Activate, RestoreUnit, Aside
<1>4. CASE Resume \/ SupervisorRecord \/ Crash \/ UNCHANGED vars \/ (\E w \in Writes : AdminAdmit(w))
  BY <1>4 DEF Resume, SupervisorRecord, Crash, vars, AdminAdmit, Aside
<1>5. CASE BrokerRestart \/ Reboot
  BY <1>5 DEF BrokerRestart, Reboot, MemoryIsLost, Aside
<1>6. CASE StopBroker \/ SupervisorRestart \/ BrokerSave
  <2>1. /\ UNCHANGED <<journal, hist, installed, snaps, work, acked>>
        /\ runtime'.writes = runtime.writes \cup unsaved /\ unsaved' = {}
        /\ runtime'.present = runtime.present
    BY <1>6, SaveFacts DEF StopBroker, SupervisorRestart, BrokerSave
  <2> QED BY <2>1, ClosedIsSaved DEF Aside
<1> QED BY <1>1, <1>2, <1>3, <1>4, <1>5, <1>6 DEF Quietly, Supervisor

LEMMA CourseAside ==
    ASSUME IInv, Door, Kept, Aside, UNCHANGED locals, [Next]_vars, ~Open, Closed => Closed'
    PROVE  Course'
<1>1. mode = "run" /\ pc \in Calls \cup {"log"} /\ pc # "place" /\ journal.snap /\ ~journal.committed
        => Closed
  BY DEF Kept, Files, Shut, Undecided, Settled, Terminal, Door, Fresh, Course, Same
<1>2. Same' /\ (PastStop' => Closed') /\ Undoing' /\ NamedAt'
  BY DEF Kept, Course, Aside, locals, Same, PastStop, Undoing, NamedAt
<1>3. Leaving'
  BY MarkerStays DEF Kept, Course, locals, Leaving
<1>4. Exact'
  BY <1>1 DEF Kept, Course, Aside, locals, PastStop, Exact
<1>5. Rolling'
  BY DEF Kept, Course, Aside, locals, PastStop, Offline, Rolling
<1> QED BY <1>2, <1>3, <1>4, <1>5 DEF Course

\* A change is acknowledged only while nothing waits for the recovery point.
LEMMA ClientsKept == IInv /\ Door /\ Kept /\ Clients => Kept'
<1> SUFFICES ASSUME IInv, Door, Kept, Clients PROVE Kept'
  OBVIOUS
<1> USE DEF services, locals, disk, ghosts
<1>1. CASE (\E w \in Writes : AdminAdmit(w)) \/ Login
  <2>1. Aside /\ UNCHANGED locals
    BY <1>1, QuietlyAside DEF Quietly, AdminAdmit, Login
  <2>2. Closed => Closed'
    BY <1>1 DEF AdminAdmit, Login, Closed
  <2>3. Next /\ ~Open
    <3>1. Next
      BY <1>1 DEF Next, Clients
    <3>2. pc' = pc
      BY <1>1 DEF AdminAdmit, Login
    <3> QED BY <3>1, <3>2 DEF Open, Call, GoTo
  <2> QED BY <2>1, <2>2, <2>3, FilesAside, CourseAside DEF Kept
<1>2. CASE AdminStore \/ (\E w \in Writes : BrokerPublish(w))
  <2>1. PICK w : /\ acked' = acked \cup {w}
                 /\ runtime'.writes \cup unsaved' = runtime.writes \cup unsaved \cup {w}
                 /\ runtime'.present = runtime.present
                 /\ UNCHANGED <<journal, hist, installed, snaps, work, locals>>
    BY <1>2 DEF AdminStore, BrokerPublish, IInv, TypeOK, Data
  <2>2. ~Closed
    BY <1>2 DEF AdminStore, BrokerPublish, Closed
  <2>3. ~Undecided /\ ~PastStop /\ (journal.committed => installed.op = journal.id)
    BY <2>2 DEF Kept, Files, Course, Shut
  <2>4. Undecided' = Undecided
    BY <2>1 DEF Undecided, Settled
  <2>5. Files'
    BY <2>1, <2>3, <2>4 DEF Kept, Files, Pointed, Shut, Held, PutBack, AllNamed, Named
  <2>6. mode = "run" /\ pc \in Calls \cup {"log"} /\ journal.snap => journal.committed
    BY <2>3 DEF Undecided, Settled, Terminal, Door, Fresh, Kept, Course, Same
  <2>7. Course'
    <3>1. Same' /\ ~PastStop' /\ Undoing' /\ NamedAt'
      BY <2>1, <2>3 DEF Kept, Course, Same, PastStop, Undoing, NamedAt
    <3>4. Leaving'
      BY <1>2, <2>1 DEF Kept, Course, Leaving, AdminStore, BrokerPublish
    <3>2. Exact'
      BY <2>1, <2>3, <2>6 DEF Exact, PastStop
    <3>3. Rolling'
      BY <2>1, <2>3 DEF Kept, Course, Rolling, PastStop, Offline
    <3> QED BY <3>1, <3>2, <3>3, <3>4 DEF Course
  <2> QED BY <2>5, <2>7 DEF Kept
<1> QED BY <1>1, <1>2 DEF Clients

LEMMA OutsideKept ==
    IInv /\ Door /\ Kept
      /\ (Resume \/ Supervisor \/ BrokerSave \/ BrokerRestart \/ Crash \/ Reboot \/ UNCHANGED vars
          \/ \E s \in Services : BootStart(s)) => Kept'
<1> SUFFICES ASSUME IInv, Door, Kept,
                    Resume \/ Supervisor \/ BrokerSave \/ BrokerRestart \/ Crash \/ Reboot
                      \/ UNCHANGED vars \/ \E s \in Services : BootStart(s)
             PROVE  Kept'
  OBVIOUS
<1> USE DEF services, locals, disk, ghosts
<1>1. Closed => Closed'
  BY DEF Resume, Supervisor, SupervisorRecord, SupervisorRestart, BrokerSave, BrokerRestart,
     Crash, Reboot, Dies, vars, BootStart, Launch, Closed, Gate
<1>2. Aside
  BY QuietlyAside DEF Quietly
<1>3. Files'
  BY <1>1, <1>2, FilesAside DEF Kept
<1>4. Course'
  <2>1. CASE UNCHANGED locals
    <3>1. ~Open
      BY <2>1 DEF Open, Call, GoTo
    <3> QED BY <2>1, <3>1, <1>1, <1>2, CourseAside DEF Next
  <2>2. CASE LetGo
    BY <2>2, CourseGone
  <2>3. CASE Resume
    <3>1. /\ mem' = journal /\ journal' = journal /\ installed' = installed
          /\ \/ pc' = "open" /\ mode' = "done" /\ journal.state = "COMPLETED"
             \/ pc' = "recover" /\ mode' = "run" /\ journal.state \notin Terminal \cup {"IDLE"}
      BY <2>3 DEF Resume
    <3> QED
      BY <3>1 DEF Kept, Files, AllNamed, Course, Same, PastStop, Leaving, Exact, Rolling, Undoing, NamedAt,
         Calls, Offline
  <2> QED
    BY <2>1, <2>2, <2>3 DEF Supervisor, SupervisorRecord, SupervisorRestart, BrokerSave,
       BrokerRestart, Crash, Reboot, Dies, vars, BootStart
<1> QED BY <1>3, <1>4 DEF Kept

\* Calls that write none of these files.
LEMMA CallsKept ==
    IInv /\ Door /\ Kept
      /\ (Check \/ Maintain \/ Prepare \/ StopAdmin \/ StopBroker \/ Recheck \/ Health \/ Migrate
          \/ Acknowledge \/ RestoreBegin \/ RestoreSecure \/ Fail
          \/ \E s \in Services : Activate(s) \/ RestoreUnit(s) \/ Start(s)) => Kept'
<1> SUFFICES ASSUME IInv, Door, Kept,
                    Check \/ Maintain \/ Prepare \/ StopAdmin \/ StopBroker \/ Recheck \/ Health
                      \/ Migrate \/ Acknowledge \/ RestoreBegin \/ RestoreSecure \/ Fail
                      \/ \E s \in Services : Activate(s) \/ RestoreUnit(s) \/ Start(s)
             PROVE  Kept'
  OBVIOUS
<1> USE DEF Call, GoTo, services, disk, ghosts
<1>1. Closed => Closed'
  <2>1. CASE ~Open
    BY <2>1, ClosedStays DEF Next, Controller
  <2>2. CASE Open
    BY <2>2 DEF Open, Check, Maintain, Prepare, StopAdmin, StopBroker, Recheck, Health, Migrate,
       Acknowledge, RestoreBegin, RestoreSecure, Fail, Activate, RestoreUnit, Start, Closed, Launch, Gate
  <2> QED BY <2>1, <2>2
<1>2. Aside
  BY QuietlyAside DEF Quietly
<1>3. Files'
  BY <1>1, <1>2, FilesAside DEF Kept
<1>4. CASE LetGo
  BY <1>3, <1>4, CourseGone DEF Kept
<1>5. CASE Fail /\ ~LetGo
  <2>1. /\ pc # "idle" /\ pc' = OnError /\ UNCHANGED <<mode, mem, source, journal, installed>>
    BY <1>5 DEF Fail, Hopeless, Calls, Offline
  <2>2. Course'
    BY <2>1 DEF OnError, Kept, Course, Same, PastStop, Leaving, Exact, Rolling, Undoing, NamedAt, Calls,
       Offline, Restoring, BackCalls
  <2> QED BY <1>3, <2>2 DEF Kept
<1>6. CASE ~Fail /\ ~LetGo
  <2> DEFINE Mid == /\ pc \in Calls /\ pc' \in Calls \cup {"log"}
                    /\ UNCHANGED <<mode, mem, source>> /\ Aside
  <2>1. Mid
    <3>1. CASE Health
      <4>1. mode \in {"run", "forward", "back"}
        BY <3>1 DEF Health, IInv, TypeOK, Control, Modes
      <4> QED BY <3>1, <4>1, <1>2 DEF Health, Calls
    <3>2. CASE RestoreBegin
      BY <3>2, <1>2 DEF RestoreBegin, Calls, Offline
    <3>3. ASSUME NEW s \in Services, Start(s) PROVE Mid
      BY <3>3, <1>2 DEF Start, Calls
    <3>4. CASE Check \/ Maintain \/ Prepare \/ StopAdmin \/ StopBroker \/ Recheck \/ Migrate
               \/ Acknowledge \/ RestoreSecure \/ (\E s \in Services : Activate(s) \/ RestoreUnit(s))
      BY <3>4, <1>2, <1>6 DEF Check, Maintain, Prepare, StopAdmin, StopBroker, Recheck, Migrate,
         Acknowledge, RestoreSecure, Activate, RestoreUnit, Calls, Offline
    <3> QED BY <1>6, <3>1, <3>2, <3>3, <3>4
  <2>2. Same'
    BY <2>1 DEF Kept, Course, Same, Aside, Calls, Offline
  <2>3. PastStop' => Closed'
    <3>1. CASE StopBroker /\ mode = "run"
      BY <3>1 DEF StopBroker, Kept, Course, Leaving, Closed
    <3>2. CASE ~StopBroker /\ mode = "run"
      <4>1. PastStop' => PastStop
        BY <1>6, <2>1, <3>2 DEF Check, Maintain, Prepare, StopAdmin, Recheck, Health, Migrate,
           Acknowledge, RestoreBegin, RestoreSecure, Activate, RestoreUnit, Start, PastStop,
           Offline, Calls, Aside, IInv, Control, RunCalls, Restoring, Same, Kept, Course
      <4> QED BY <4>1, <1>1 DEF Kept, Course
    <3>3. CASE mode # "run"
      BY <2>1, <3>3 DEF PastStop
    <3> QED BY <3>1, <3>2, <3>3
  <2>8. Leaving'
    BY <1>6, <2>1 DEF Check, Maintain, Prepare, StopAdmin, StopBroker, Recheck, Health, Migrate,
       Acknowledge, RestoreBegin, RestoreSecure, Activate, RestoreUnit, Start, Kept, Course, Leaving
  <2>4. Exact'
    <3>1. mode = "run" => pc' # "log" \/ journal.state # "BACKING_UP"
      BY <1>6, <2>1 DEF Check, Maintain, Prepare, StopAdmin, StopBroker, Recheck, Health, Migrate,
         Acknowledge, RestoreBegin, RestoreSecure, Activate, RestoreUnit, Start, IInv, Control,
         RunCalls, Same, Kept, Course, Calls, Offline
    <3>2. pc # "place"
      BY <1>6 DEF Check, Maintain, Prepare, StopAdmin, StopBroker, Recheck, Health, Migrate,
         Acknowledge, RestoreBegin, RestoreSecure, Activate, RestoreUnit, Start
    <3>3. mode = "run" /\ journal.snap /\ ~journal.committed => Closed
      BY <2>1 DEF Kept, Files, Shut, Undecided, Settled, Terminal, Door, Fresh, Course, Same, Calls,
         Offline
    <3> QED BY <2>1, <3>1, <3>2, <3>3 DEF Kept, Course, Exact, Aside
  <2>5. Rolling'
    <3> SUFFICES ASSUME mode = "run", journal.kind = "rollback" PROVE Rolling'
      BY <2>1 DEF Rolling, Aside
    <3>1. mem = journal /\ pc # "idle"
      BY <2>1 DEF Kept, Course, Same, Calls, Offline
    <3>2. CASE Recheck
      BY <2>1, <3>1, <3>2 DEF Recheck, Fingerprint, Kept, Course, Rolling, Aside
    <3>3. CASE ~Recheck
      <4>1. ~(pc' = "snapshot" \/ (pc' = "log" /\ journal.state \in {"STOPPING", "BACKING_UP"}))
        BY <1>6, <2>1, <3>1, <3>3 DEF Check, Maintain, Prepare, StopAdmin, StopBroker, Health, Migrate,
           Acknowledge, RestoreBegin, RestoreSecure, Activate, RestoreUnit, Start, IInv, Control,
           RunCalls
      <4>2. /\ journal.prev.op = source
            /\ journal.snap => snaps[journal.id].writes = journal.prev.fp.writes
        BY <2>1 DEF Kept, Course, Rolling
      <4>3. journal' = journal /\ snaps' = snaps /\ source' = source
        BY <2>1 DEF Aside
      <4> QED BY <4>1, <4>2, <4>3 DEF Rolling
    <3> QED BY <3>2, <3>3
  <2>6. Undoing'
    <3> SUFFICES ASSUME mode = "back" PROVE Undoing'
      BY <2>1 DEF Undoing
    <3>1. mem = journal /\ pc # "idle"
      BY <2>1 DEF Kept, Course, Same, Calls, Offline
    <3>2. CASE RestoreBegin
      BY <2>1, <3>2 DEF RestoreBegin, Key, Kept, Course, Undoing, Aside, Restoring, BackCalls
    <3>3. CASE ~RestoreBegin
      BY <1>6, <2>1, <3>1, <3>3 DEF Check, Maintain, Prepare, StopAdmin, StopBroker, Recheck, Health,
         Migrate, Acknowledge, RestoreSecure, Activate, RestoreUnit, Start, IInv, Control, Kept,
         Course, Undoing, Aside, Restoring, BackCalls
    <3> QED BY <3>2, <3>3
  <2>7. NamedAt'
    <3>1. mem = journal /\ pc # "idle"
      BY <2>1 DEF Kept, Course, Same, Calls, Offline
    <3>2. /\ mode = "run" /\ journal.state \in Progress \ {"COMMITTING"} => ~journal.committed
          /\ mode = "back" => ~journal.committed
      BY <3>1 DEF IInv, Control, Link, CommitPoint, Progress, Terminal
    <3>3. CASE Acknowledge
      BY <1>6, <2>1, <3>2, <3>3 DEF Acknowledge, Kept, Course, NamedAt, Aside
    <3>4. CASE Health
      <4>1. mode \in {"run", "forward", "back"} /\ (mode = "run" => journal.state = "HEALTH_CHECKING")
        BY <3>1, <3>4 DEF Health, IInv, TypeOK, Control, RunCalls, Modes
      <4> QED BY <2>1, <3>2, <3>4, <4>1 DEF Health, NamedAt, Aside, Progress
    <3>5. CASE ~Acknowledge /\ ~Health
      <4>1. /\ pc' \notin {"open", "ack"}
            /\ pc' = "log" =>
                 (mode = "run" /\ journal.state \in Progress \ {"COMMITTING"}) \/ mode = "back"
        BY <1>6, <2>1, <3>1, <3>5 DEF Check, Maintain, Prepare, StopAdmin, StopBroker, Recheck,
           Migrate, RestoreBegin, RestoreSecure, Activate, RestoreUnit, Start, IInv, TypeOK, Control,
           RunCalls, Progress, Modes, ForwardCalls, Restoring
      <4> QED BY <2>1, <3>2, <4>1 DEF NamedAt, Aside
    <3> QED BY <3>3, <3>4, <3>5
  <2> QED BY <1>3, <2>2, <2>3, <2>4, <2>5, <2>6, <2>7, <2>8 DEF Kept, Course
<1> QED BY <1>4, <1>5, <1>6

\* Where the calls of a restore are made.
LEMMA RestoringFacts ==
    ASSUME IInv, Door, Kept, pc \in Restoring
    PROVE  /\ mode \in {"run", "back"} /\ mem = journal /\ journal.id \in OpIds
           /\ journal.snap /\ ~journal.committed /\ ~Settled(journal)
           /\ snaps[journal.id].present /\ (pc \notin {"place", "restore"} => runtime.present)
           /\ mode = "run" =>
                /\ work.own = "none" /\ source \in OpIds
                /\ journal.kind = "rollback" /\ journal.state = "INSTALLING"
           /\ mode = "back" => journal.state = "ROLLING_BACK"
<1>1. mode \in {"run", "back"} /\ mem = journal /\ journal.id \in OpIds
  BY DEF Restoring, IInv, TypeOK, Control, Modes, ForwardCalls, Kept, Course, Same
<1>2. mode = "run" =>
        /\ work.own = "none" /\ source \in OpIds
        /\ journal.kind = "rollback" /\ journal.state = "INSTALLING"
  BY <1>1 DEF Restoring, Calls, Offline, IInv, Control, RunCalls, Door, Fresh
<1>3. mode = "back" => journal.state = "ROLLING_BACK" /\ journal.snap
  BY <1>1 DEF Restoring, IInv, Control, Kept, Course, Undoing
<1>4. journal.snap /\ ~journal.committed /\ ~Settled(journal)
  BY <1>1, <1>2, <1>3 DEF Settled, Kept, Files, Pointed, IInv, Link, CommitPoint, Terminal
<1>5. snaps[journal.id].present
  BY <1>4 DEF Kept, Files, Pointed
<1>6. pc \notin {"place", "restore"} => runtime.present
  BY DEF Restoring, Door, Absent
<1> QED BY <1>1, <1>2, <1>3, <1>4, <1>5, <1>6

\* restore() moves data only while the recovery point has every acknowledged change.
LEMMA MovesKept ==
    IInv /\ Door /\ Kept /\ (RestoreDisplace \/ RestorePlace \/ RestoreCheck \/ RestoreRecord)
      => Kept'
<1> SUFFICES ASSUME IInv, Door, Kept, RestoreDisplace \/ RestorePlace \/ RestoreCheck \/ RestoreRecord
             PROVE  Kept'
  OBVIOUS
<1> USE DEF Call, GoTo, services, ghosts
<1>1. /\ pc \in Restoring /\ UNCHANGED <<journal, hist, snaps, acked, mode, mem, source>>
      /\ unsaved' = unsaved
      /\ (Closed => Closed') /\ pc' \in {"place", "check", "secure", "log", "start_broker"}
  BY DEF RestoreDisplace, RestorePlace, RestoreCheck, RestoreRecord, Restoring, Closed
<1>2. /\ mode \in {"run", "back"} /\ mem = journal /\ journal.id \in OpIds
      /\ journal.snap /\ ~journal.committed /\ ~Settled(journal)
      /\ snaps[journal.id].present /\ (pc \notin {"place", "restore"} => runtime.present)
      /\ mode = "run" =>
           /\ work.own = "none" /\ source \in OpIds
           /\ journal.kind = "rollback" /\ journal.state = "INSTALLING"
      /\ mode = "back" => journal.state = "ROLLING_BACK"
  BY <1>1, RestoringFacts
<1>3. DOMAIN work = {"own", "target"}
  BY DEF IInv, TypeOK
<1>4. /\ Undecided <=> work.own # "completed"
      /\ Undecided' <=> work'.own # "completed"
  BY <1>1, <1>2 DEF Undecided, Settled
<1>5. ASSUME Undecided, Undecided', installed' = installed, PutBack' PROVE Files'
  BY <1>1, <1>2, <1>5 DEF Kept, Files, Pointed, Shut, Held, AllNamed, Named
<1>12. Leaving'
  BY <1>1 DEF Leaving
<1>6. pc # "reinstate" => Same' /\ Rolling' /\ NamedAt'
  <2> SUFFICES ASSUME pc # "reinstate" PROVE Same' /\ Rolling' /\ NamedAt'
    OBVIOUS
  <2>1. pc' \in {"place", "check", "secure"} /\ pc \in Calls
    BY DEF RestoreDisplace, RestorePlace, RestoreCheck, RestoreRecord, Calls, Offline
  <2>2. Same' /\ NamedAt'
    BY <1>1, <1>2, <2>1 DEF Kept, Course, Same, NamedAt
  <2>3. Rolling'
    BY <1>1, <2>1 DEF Kept, Course, Rolling
  <2> QED BY <2>2, <2>3
<1>7. PastStop' => Closed'
  BY <1>1, <1>2 DEF RestoreDisplace, RestorePlace, RestoreCheck, RestoreRecord, Kept, Course,
     PastStop, Offline
<1>8. CASE RestoreDisplace
  <2>1. /\ work.own = "none" /\ work' = work /\ installed' = installed
        /\ pc = "displace" /\ pc' = "place"
    BY <1>8 DEF RestoreDisplace, Door, Moving
  <2>2. Files'
    BY <2>1, <1>4, <1>5 DEF PutBack
  <2>3. Exact' /\ Undoing'
    BY <1>1, <1>2, <2>1 DEF Exact, Undoing
  <2> QED BY <1>6, <1>7, <1>12, <1>8, <2>1, <2>2, <2>3 DEF Kept, Course
<1>9. CASE RestorePlace
  <2>1. /\ work.own = "none" /\ work' = [work EXCEPT ![Key] = "installed"] /\ runtime' = Point
        /\ pc = "place" /\ pc' = "check" /\ installed' = installed
    BY <1>9 DEF RestorePlace, Door, Moving
  <2>2. work'.own = IF mode = "back" THEN "installed" ELSE "none"
    BY <1>2, <1>3, <2>1 DEF Key
  <2>3. runtime'.writes = snaps[journal.id].writes
    <3>1. CASE mode = "back"
      BY <1>2, <2>1, <3>1 DEF Point
    <3>2. CASE mode = "run"
      <4>1. journal.prev.op = source /\ snaps[journal.id].writes = journal.prev.fp.writes
        BY <1>2, <2>1, <3>2 DEF Kept, Course, Rolling, Calls, Offline
      <4>2. source # 0
        BY <1>2, <3>2 DEF OpIds
      <4> QED BY <2>1, <3>2, <4>1, <4>2 DEF Point, Kept, Files, AllNamed, Named
    <3> QED BY <1>2, <3>1, <3>2
  <2>4. Files'
    <3>1. PutBack'
      BY <1>1, <2>3 DEF PutBack
    <3> QED BY <1>4, <1>5, <2>1, <2>2, <3>1
  <2>5. Exact' /\ Undoing'
    BY <1>1, <1>2, <2>1, <2>2, <2>3 DEF Exact, Undoing
  <2> QED BY <1>6, <1>7, <1>12, <1>9, <2>1, <2>4, <2>5 DEF Kept, Course
<1>10. CASE RestoreCheck
  <2>1. /\ work' = [work EXCEPT ![Key] = "completed"] /\ UNCHANGED <<runtime, installed>>
        /\ pc = "check" /\ pc' = "secure"
    BY <1>10 DEF RestoreCheck
  <2>2. Exact'
    BY <1>1, <1>2, <2>1 DEF Kept, Course, Exact, Calls, Offline
  <2>3. CASE mode = "run"
    <3>1. work'.own = "none"
      BY <1>2, <1>3, <2>1, <2>3 DEF Key
    <3>2. Files'
      BY <1>2, <1>4, <1>5, <2>1, <2>3, <3>1 DEF PutBack
    <3>3. Undoing'
      BY <1>1, <2>3 DEF Undoing
    <3> QED BY <1>6, <1>7, <1>12, <1>10, <2>1, <2>2, <3>2, <3>3 DEF Kept, Course
  <2>4. CASE mode = "back"
    <3>1. work'.own = "completed" /\ work.own = "installed"
      BY <1>3, <2>1, <2>4 DEF Key, Kept, Course, Undoing
    <3>2. acked' \subseteq runtime'.writes /\ runtime'.present
      <4>1. acked \subseteq snaps[journal.id].writes
        BY <1>4, <3>1 DEF Kept, Files, Held
      <4>2. snaps[journal.id].writes \subseteq runtime.writes
        BY <1>4, <3>1 DEF Kept, Files, PutBack
      <4> QED BY <1>1, <1>2, <2>1, <4>1, <4>2
    <3>3. Files'
      BY <1>1, <1>2, <1>4, <2>1, <3>1, <3>2
         DEF Kept, Files, Pointed, Shut, Held, PutBack, AllNamed, Named
    <3>4. Undoing'
      BY <1>1, <2>1, <3>1, <1>2 DEF Undoing, Restoring
    <3> QED BY <1>6, <1>7, <1>12, <1>10, <2>1, <2>2, <3>3, <3>4 DEF Kept, Course
  <2> QED BY <1>2, <2>3, <2>4
<1>11. CASE RestoreRecord
  <2>1. /\ pc = "reinstate" /\ UNCHANGED <<runtime, work>> /\ installed' = Reinstated
        /\ pc' = IF mode = "run" THEN "log" ELSE "start_broker"
    BY <1>11 DEF RestoreRecord
  <2>2. Named(installed)'
    BY <1>1, <1>2, <2>1 DEF Reinstated, Kept, Files, AllNamed, Named
  <2>3. Files'
    <3>1. journal.state # "COMPLETED"
      BY <1>2 DEF Settled
    <3>2. Undecided' = Undecided
      BY <1>1, <2>1 DEF Undecided, Settled
    <3> QED
      BY <1>1, <1>2, <2>1, <2>2, <3>1, <3>2
         DEF Kept, Files, Pointed, Shut, Held, PutBack, AllNamed, Named
  <2>4. Same' /\ NamedAt'
    BY <1>1, <1>2, <2>1 DEF Kept, Course, Same, NamedAt
  <2>5. Exact' /\ Rolling'
    BY <1>1, <1>2, <2>1 DEF Kept, Course, Exact, Rolling, Calls, Offline
  <2>6. Undoing'
    BY <1>1, <1>2, <2>1 DEF Kept, Course, Undoing, Restoring, BackCalls
  <2> QED BY <1>7, <1>12, <2>3, <2>4, <2>5, <2>6 DEF Kept, Course
<1> QED BY <1>8, <1>9, <1>10, <1>11

\* The calls that make the recovery point, name the release and let clients in.
LEMMA MilestonesKept == IInv /\ Door /\ Kept /\ (Snapshot \/ Commit \/ Open) => Kept'
<1> SUFFICES ASSUME IInv, Door, Kept, Snapshot \/ Commit \/ Open PROVE Kept'
  OBVIOUS
<1> USE DEF Call, GoTo, services, ghosts
<1>1. /\ mem = journal /\ mem.id \in OpIds
      /\ UNCHANGED <<journal, hist, work, acked, unsaved, mode, mem, source>>
  BY DEF Snapshot, Commit, Open, Kept, Course, Same, IInv, Control
<1>2. CASE Snapshot
  <2>1. /\ pc = "snapshot" /\ pc' = "log" /\ ~snaps[journal.id].present
        /\ snaps' = [snaps EXCEPT ![journal.id] = [runtime EXCEPT !.touched = FALSE]]
        /\ UNCHANGED <<installed, runtime>> /\ (Closed => Closed')
    BY <1>1, <1>2 DEF Snapshot, Closed
  <2>2. mode = "run" /\ journal.state = "BACKING_UP"
    BY <1>1, <2>1 DEF IInv, TypeOK, Control, RunCalls, Modes, ForwardCalls, BackCalls, Restoring
  <2>3. ~journal.snap /\ ~journal.committed
    BY <2>2 DEF Kept, Files, Pointed
  <2>4. /\ snaps'[journal.id].present /\ snaps'[journal.id].writes = runtime.writes
        /\ \A i \in OpIds \ {journal.id} : snaps'[i] = snaps[i]
    BY <1>1, <2>1, <2>2 DEF Door, Absent, IInv, TypeOK, Data
  <2>5. ASSUME NEW r \in InstalledRecord, Named(r)
        PROVE  r.op # 0 => snaps'[r.op].present /\ r.fp.writes = snaps'[r.op].writes
    <3>1. r.op # 0 => r.op \in OpIds \ {journal.id}
      BY <2>1, <2>5, UpdaterAssumption DEF Named, InstalledRecord, OpIds
    <3> QED BY <2>4, <2>5, <3>1 DEF Named
  <2>6. AllNamed'
    <3>1. /\ installed \in InstalledRecord /\ journal.prev \in InstalledRecord
          /\ \A i \in OpIds : hist[i].prev \in InstalledRecord
      BY DEF IInv, TypeOK, Operation
    <3>2. /\ Named(installed)' /\ Named(journal.prev)' /\ \A i \in OpIds : Named(hist[i].prev)'
      BY <1>1, <2>1, <2>5, <3>1 DEF Kept, Files, AllNamed, Named
    <3> QED BY <1>1, <2>1, <2>2, <3>2 DEF AllNamed
  <2>7. Files'
    BY <1>1, <2>1, <2>2, <2>3, <2>6 DEF Kept, Files, Pointed, Shut, Held, PutBack, Undecided
  <2>8. Course'
    BY <1>1, <2>1, <2>2, <2>3, <2>4
       DEF Kept, Course, Same, PastStop, Leaving, Exact, Rolling, Undoing, NamedAt, Calls, Offline
  <2> QED BY <2>7, <2>8 DEF Kept
<1>3. CASE Commit
  <2>1. /\ pc = "commit" /\ pc' = "open" /\ UNCHANGED <<runtime, snaps>> /\ (Closed => Closed')
        /\ IF installed.op = journal.id THEN installed' = installed
           ELSE installed'.op = journal.id /\ installed'.fp.writes = runtime.writes
    BY <1>1, <1>3 DEF Commit, Fingerprint, Closed
  <2>2. journal.committed
    BY <1>1, <2>1 DEF IInv, TypeOK, Control, RunCalls, Modes, BackCalls, Restoring, Link, CommitPoint
  <2>3. Undecided' = Undecided /\ installed'.op = journal.id
    BY <1>1, <2>1 DEF Undecided, Settled
  <2>4. Named(installed)'
    BY <1>1, <2>1, <2>2 DEF Kept, Files, Pointed, Shut, AllNamed, Named
  <2>5. Files'
    BY <1>1, <2>1, <2>2, <2>3, <2>4 DEF Kept, Files, Pointed, Shut, Held, PutBack, AllNamed, Named
  <2>6. Course'
    BY <1>1, <2>1, <2>2, <2>3
       DEF Kept, Course, Same, PastStop, Leaving, Exact, Rolling, Undoing, NamedAt, Calls, Offline, IInv, Control
  <2> QED BY <2>5, <2>6 DEF Kept
<1>4. CASE Open
  <2>1. /\ pc = "open" /\ pc' = "ack" /\ UNCHANGED <<runtime, snaps, installed>>
    BY <1>4 DEF Open
  <2>2. /\ ~Undecided
        /\ journal.committed => installed.op = journal.id
    <3>1. CASE mode \in {"run", "forward"}
      <4>1. journal.committed
        BY <1>1, <2>1, <3>1 DEF IInv, Control, RunCalls, Link, CommitPoint
      <4> QED BY <2>1, <3>1, <4>1 DEF Undecided, Kept, Course, NamedAt
    <3>2. CASE mode = "back"
      BY <1>1, <2>1, <3>2 DEF Undecided, Kept, Course, Undoing, BackCalls, Restoring, IInv, Control
    <3>3. CASE mode = "done"
      BY <1>1, <2>1, <3>3 DEF Undecided, Settled, Kept, Course, NamedAt, IInv, Control
    <3> QED BY <2>1, <3>1, <3>2, <3>3 DEF IInv, TypeOK, Control, Modes
  <2>3. Undecided' = Undecided
    BY <1>1, <2>1 DEF Undecided, Settled
  <2>4. Files'
    BY <1>1, <2>1, <2>2, <2>3 DEF Kept, Files, Pointed, Shut, Held, PutBack, AllNamed, Named
  <2>5. Course'
    BY <1>1, <2>1
       DEF Kept, Course, Same, PastStop, Leaving, Exact, Rolling, Undoing, NamedAt, Calls, Offline,
           BackCalls, Restoring
  <2> QED BY <2>4, <2>5 DEF Kept
<1> QED BY <1>2, <1>3, <1>4

\* A new operation starts from data that has every acknowledged change.
LEMMA BeginKept ==
    ASSUME IInv, Kept, NEW k \in {"install", "rollback"}, NEW v \in Versions, NEW s \in OpIds,
           Begin(NewOperation(ops + 1, k, v, installed)), k = "rollback" => installed.op = s,
           source' = IF k = "install" \/ pc' = "idle" THEN source ELSE s
    PROVE  Kept'
<1> DEFINE o == NewOperation(ops + 1, k, v, installed)
<1>1. /\ o \in Operation /\ o.id \in OpIds /\ o.kind = k /\ o.state = "CHECKING" /\ ~o.committed
      /\ ~o.snap /\ o.prev = installed
  <2>1. ops + 1 \in OpIds /\ ops + 1 \in 0..MaxOps
    BY UpdaterAssumption DEF Begin, IInv, TypeOK, OpIds
  <2> QED BY <2>1, NewOperationFacts DEF IInv, TypeOK, NewOperation
<1>2. Begin(o)
  OBVIOUS
<1> HIDE DEF o
<1>3. FirstCall(o) = IF k = "install" THEN "resolve" ELSE "verify_snapshot"
  BY <1>1, FirstCallFacts DEF Progress
<1>4. /\ journal' = o /\ hist' \in {hist, [hist EXCEPT ![o.id] = o]}
      /\ \/ pc' = FirstCall(o) /\ mode' = "run" /\ mem' = o
         \/ pc' = "idle" /\ mode' = "none"
      /\ UNCHANGED <<installed, runtime, snaps, acked, unsaved>>
  BY <1>2 DEF Begin, IInv, Control, services
<1>5. ~Undecided
  BY <1>2 DEF Begin, MayBegin, Undecided, Settled, Terminal
<1>6. Files'
  <2>1. /\ Pointed' /\ Shut' /\ PutBack' /\ ~Undecided'
    BY <1>1, <1>4 DEF Pointed, Shut, PutBack, Undecided
  <2>2. Held'
    BY <1>4, <1>5, <2>1 DEF Kept, Files, Held
  <2>3. AllNamed'
    <3>1. \A i \in OpIds : hist'[i].prev \in {installed, hist[i].prev}
      BY <1>1, <1>4 DEF IInv, TypeOK
    <3> QED BY <1>1, <1>4, <3>1 DEF Kept, Files, AllNamed, Named
  <2> QED BY <2>1, <2>2, <2>3 DEF Files
<1>7. Course'
  <2>1. Same' /\ ~PastStop' /\ Leaving' /\ Exact' /\ Undoing' /\ NamedAt'
    BY <1>1, <1>3, <1>4 DEF Same, PastStop, Leaving, Exact, Undoing, NamedAt, Terminal, Calls, Offline
  <2>2. Rolling'
    BY <1>1, <1>3, <1>4 DEF Rolling
  <2> QED BY <2>1, <2>2 DEF Course
<1> QED BY <1>6, <1>7 DEF Kept

\* A transition that leaves the recovery point in force, or out of it.
LEMMA SameDecision ==
    ASSUME IInv, Files, NEW o \in Operation,
           journal' = o, hist' \in {hist, [hist EXCEPT ![o.id] = o]},
           UNCHANGED <<installed, marker, runtime, snaps, work, services, acked>>,
           o.id = journal.id, o.prev = journal.prev,
           o.snap = journal.snap, o.committed = journal.committed,
           o.snap /\ ~o.committed /\ work.own # "completed" => (Settled(o) <=> Settled(journal)),
           o.snap => o.state \notin PreMutation \cup {"IDLE", "STOPPING", "BACKING_UP", "FAILED"},
           o.state \in {"MIGRATING", "INSTALLING", "STARTING", "HEALTH_CHECKING"} => o.snap,
           o.state = "COMPLETED" => installed.op = o.id
    PROVE  Files'
<1>1. Undecided' = Undecided
  BY DEF Undecided, Settled
<1>2. Closed' = Closed
  BY DEF Closed, services
<1>3. Pointed' /\ Shut' /\ Held' /\ PutBack'
  BY <1>1, <1>2 DEF Files, Pointed, Shut, Held, PutBack, services
<1>4. \A i \in OpIds : hist'[i].prev \in {journal.prev, hist[i].prev}
  BY DEF IInv, TypeOK
<1>5. AllNamed'
  BY <1>4 DEF Files, AllNamed, Named
<1> QED BY <1>3, <1>5 DEF Files

LEMMA OwnerKept == JournalCanFail = FALSE /\ IInv /\ Kept /\ Owner => Kept'
<1> SUFFICES ASSUME JournalCanFail = FALSE, IInv, Kept, Owner PROVE Kept'
  OBVIOUS
<1>1. ASSUME NEW v \in Versions, Install(v) PROVE Kept'
  <2>1. ops + 1 \in OpIds
    BY <1>1, UpdaterAssumption DEF Install, Begin, IInv, TypeOK, OpIds
  <2> QED BY <1>1, <2>1, BeginKept DEF Install
<1>2. ASSUME NEW i \in OpIds, Rollback(i) PROVE Kept'
  <2>1. hist[i].prev.version \in Versions
    BY DEF IInv, TypeOK, Operation, InstalledRecord
  <2> QED BY <1>2, <2>1, BeginKept DEF Rollback, RollbackAdmits
<1>3. CASE RetryRecovery
  <2> DEFINE state == IF journal.committed THEN "COMMITTING" ELSE "ROLLING_BACK"
             o == [journal EXCEPT !.state = state]
  <2>1. /\ o \in Operation /\ o.id = journal.id /\ o.state = state /\ o.prev = journal.prev
        /\ o.snap = journal.snap /\ o.committed = journal.committed
    BY DEF IInv, TypeOK, Operation, States
  <2>2. /\ Record(o, "recover", "run", "idle") /\ journal.state = "RECOVERY_REQUIRED"
        /\ UNCHANGED <<installed, marker, runtime, snaps, work, services, acked>>
    BY <1>3 DEF RetryRecovery
  <2> HIDE DEF o
  <2>3. Files'
    BY <2>1, <2>2, RecordKept, SameDecision DEF Kept, Settled, PreMutation
  <2>4. CASE LetGo
    BY <2>3, <2>4, CourseGone DEF Kept
  <2>5. CASE pc' = "recover" /\ mode' = "run" /\ mem' = o /\ journal' = o
    BY <2>1, <2>3, <2>5 DEF Kept, Course, Same, PastStop, Leaving, Exact, Rolling, Undoing, NamedAt, Calls,
       Offline, Terminal
  <2> QED BY <2>2, <2>4, <2>5, RecordKept
<1> QED BY <1>1, <1>2, <1>3 DEF Owner

\* What a transition does to the rest of the record.
LEMMA MovedRest ==
    ASSUME NEW o \in Operation, NEW s \in States
    PROVE  /\ Moved(o, s).prev = o.prev /\ Moved(o, s).version = o.version
           /\ Moved(o, s).snap =
                (o.snap \/ (o.state = "BACKING_UP" /\ s \in {"MIGRATING", "INSTALLING"}))
           /\ Moved(o, s).committed = (o.committed \/ s = "COMMITTING")
BY DEF Moved, Operation

LEMMA RecoverKept == JournalCanFail = FALSE /\ IInv /\ Kept /\ (Recover \/ GiveUp) => Kept'
<1> SUFFICES ASSUME JournalCanFail = FALSE, IInv, Kept, Recover \/ GiveUp PROVE Kept'
  OBVIOUS
<1>1. /\ mem = journal /\ journal \in Operation
      /\ UNCHANGED <<installed, marker, runtime, snaps, work, services, acked>>
  BY DEF Recover, GiveUp, Kept, Course, Same, IInv, TypeOK
<1>2. CASE Recover
  <2>1. mode = "run" /\ ~Settled(journal) /\ pc = "recover"
    BY <1>2 DEF Recover, IInv, TypeOK, Control, Modes, ForwardCalls, BackCalls, Restoring, Kept, Course,
       Same, Settled, Terminal
  <2>2. CASE journal.committed
    <3>1. Aside /\ pc' = "maintain" /\ mode' = "forward" /\ mem' = journal /\ (Closed => Closed')
      BY <1>1, <1>2, <2>2 DEF Recover, Aside, Closed, services
    <3>2. Course'
      BY <3>1 DEF Aside, Course, Same, PastStop, Leaving, Exact, Rolling, Undoing, NamedAt
    <3> QED BY <3>1, <3>2, FilesAside DEF Kept
  <2>3. CASE ~journal.committed /\ journal.state \in PreMutation
    <3> DEFINE o == Moved(journal, "FAILED")
    <3>1. Record(o, "idle", "none", "idle")
      BY <1>1, <1>2, <2>3 DEF Recover
    <3>2. /\ o \in Operation /\ o.id = journal.id /\ o.state = "FAILED" /\ o.prev = journal.prev
          /\ ~journal.snap /\ o.snap = journal.snap /\ o.committed = journal.committed
      <4>1. ~journal.snap
        BY <2>3 DEF Kept, Files, Pointed
      <4>2. "FAILED" \in States /\ journal.committed \in BOOLEAN /\ journal.snap \in BOOLEAN
        BY <1>1 DEF States, Terminal, Operation
      <4> QED BY <1>1, <4>1, <4>2, MovedFacts, MovedRest
    <3> HIDE DEF o
    <3>3. Files'
      BY <1>1, <3>1, <3>2, RecordKept, SameDecision DEF Kept
    <3> QED BY <3>1, <3>3, RecordKept, CourseGone DEF Kept
  <2>4. CASE ~journal.committed /\ journal.state \notin PreMutation
    <3> DEFINE o == Moved(journal, "ROLLING_BACK")
    <3>1. Record(o, "maintain", "back", "giveup")
      BY <1>1, <1>2, <2>4 DEF Recover
    <3>2. /\ o \in Operation /\ o.id = journal.id /\ o.state = "ROLLING_BACK" /\ o.prev = journal.prev
          /\ o.snap = journal.snap /\ o.committed = journal.committed
      BY <1>1, MovedFacts, MovedRest DEF States, Operation
    <3> HIDE DEF o
    <3>3. Files'
      BY <1>1, <2>1, <3>1, <3>2, RecordKept, SameDecision DEF Kept, Settled, PreMutation
    <3>4. CASE LetGo
      BY <3>3, <3>4, CourseGone DEF Kept
    <3>5. CASE pc' = "maintain" /\ mode' = "back" /\ mem' = o /\ journal' = o
      BY <3>2, <3>3, <3>5 DEF Kept, Course, Same, PastStop, Leaving, Exact, Rolling, Undoing, NamedAt, Restoring
    <3> QED BY <3>1, <3>4, <3>5, RecordKept
  <2> QED BY <2>2, <2>3, <2>4
<1>3. CASE GiveUp
  <2>1. CASE MayMove(journal, "RECOVERY_REQUIRED")
    <3> DEFINE o == Moved(journal, "RECOVERY_REQUIRED")
    <3>1. Record(o, "idle", "none", "idle")
      BY <1>1, <1>3, <2>1 DEF GiveUp
    <3>2. /\ o \in Operation /\ o.id = journal.id /\ o.state = "RECOVERY_REQUIRED"
          /\ o.prev = journal.prev /\ o.snap = journal.snap /\ o.committed = journal.committed
      BY <1>1, MovedFacts, MovedRest DEF States, Terminal, Operation
    <3>3. journal.snap => ~Settled(journal) /\ ~Settled(o)
      BY <2>1, <3>2 DEF MayMove, Settled, Terminal, Kept, Files, Pointed
    <3> HIDE DEF o
    <3>4. Files'
      BY <1>1, <3>1, <3>2, <3>3, RecordKept, SameDecision DEF Kept, PreMutation
    <3> QED BY <3>1, <3>4, RecordKept, CourseGone DEF Kept
  <2>2. CASE ~MayMove(journal, "RECOVERY_REQUIRED")
    <3>1. LetGo /\ Aside /\ (Closed => Closed')
      BY <1>1, <1>3, <2>2 DEF GiveUp, Aside, Closed, services
    <3> QED BY <3>1, FilesAside, CourseGone DEF Kept
  <2> QED BY <2>1, <2>2
<1> QED BY <1>2, <1>3

\* Where a transition of install() and rollback() leads.
LEMMA NextCall ==
    ASSUME IInv, Course, Log, NEW o \in Operation, o.state = Successor(journal), o.id = journal.id,
           o.prev = journal.prev, o.kind = journal.kind,
           mode = "run", pc' = FirstCall(o), pc' # "idle", mode' = "run", mem' = o, journal' = o,
           source' = source, journal.state # "COMMITTING" => ~journal.committed,
           o.snap =
             (journal.snap \/ (journal.state = "BACKING_UP" /\ o.state \in {"MIGRATING", "INSTALLING"})),
           o.committed = (journal.committed \/ o.state = "COMMITTING")
    PROVE  Course'
<1>1. /\ pc = "log" /\ UNCHANGED <<installed, marker, runtime, snaps, services>>
      /\ journal \in Operation /\ journal.state \in Progress
  BY DEF Log, IInv, TypeOK, Control, RunCalls, Course, Same
<1>2. o.state \in (Progress \cup {"COMPLETED"}) \ {"CHECKING"}
  BY <1>1, SuccessorFacts
<1>3. o.state \in Progress /\ pc' \notin {"idle", "log", "open", "ack", "place", "recheck",
                                       "prepare", "stop_admin", "stop_broker", "resolve", "verify_snapshot"}
  BY <1>2, FirstCallFacts DEF Progress
<1>4. Same'
  BY <1>3 DEF Same, Progress, Terminal
<1>5. PastStop' => Closed'
  <2>1. PastStop' => o.state \notin {"DOWNLOADING", "VERIFYING", "PREPARING", "STOPPING"}
    BY <1>2, <1>3, FirstCallFacts DEF PastStop, Offline
  <2>2. o.state \notin {"DOWNLOADING", "VERIFYING", "PREPARING", "STOPPING"} =>
          journal.state \in {"STOPPING", "BACKING_UP", "MIGRATING", "INSTALLING", "STARTING",
                            "HEALTH_CHECKING"}
    BY <1>1, <1>3 DEF Successor, Progress, Operation
  <2>3. Closed' = Closed
    BY <1>1 DEF Closed, services
  <2> QED BY <1>1, <2>1, <2>2, <2>3 DEF Course, PastStop
<1>6. Exact'
  <2>1. (o.snap /\ ~o.committed) => runtime.writes = snaps[journal.id].writes
    BY <1>1 DEF Course, Exact
  <2> QED BY <1>1, <1>3, <2>1 DEF Exact
<1>7. Rolling'
  <2> SUFFICES ASSUME o.kind = "rollback" PROVE Rolling'
    BY DEF Rolling
  <2>1. pc' = "snapshot" => journal.state = "STOPPING"
    <3>1. pc' = "snapshot" => o.state = "BACKING_UP"
      BY <1>2, FirstCallFacts DEF Progress
    <3>2. o.state = "BACKING_UP" => journal.state = "STOPPING"
      BY <1>1 DEF Successor, Progress, Operation
    <3> QED BY <3>1, <3>2
  <2>2. o.snap => snaps[journal.id].writes = journal.prev.fp.writes
    BY <1>1 DEF Course, Rolling, Exact
  <2> QED BY <1>1, <1>3, <2>1, <2>2 DEF Course, Rolling
<1>8. Undoing' /\ NamedAt' /\ Leaving'
  BY <1>3 DEF Undoing, NamedAt, Leaving
<1> QED BY <1>4, <1>5, <1>6, <1>7, <1>8 DEF Course

LEMMA LogKept == JournalCanFail = FALSE /\ IInv /\ Door /\ Kept /\ Log => Kept'
<1> SUFFICES ASSUME JournalCanFail = FALSE, IInv, Door, Kept, Log PROVE Kept'
  OBVIOUS
<1> DEFINE next == CASE mode = "run" -> Successor(mem)
                     [] mode = "forward" -> "COMPLETED"
                     [] mode = "back" -> "ROLLED_BACK"
           o == Moved(mem, next)
           call == IF mode = "run" THEN FirstCall(o) ELSE "idle"
<1>1. /\ pc = "log" /\ mem = journal /\ journal \in Operation /\ mode \in {"run", "forward", "back"}
      /\ mode = "run" => journal.state \in Progress
      /\ runtime.present
      /\ UNCHANGED <<installed, marker, runtime, snaps, work, services, acked>>
  BY DEF Log, Kept, Course, Same, IInv, TypeOK, Control, RunCalls, Modes, Door, Absent
<1>2. /\ mode = "run" => next \in (Progress \cup {"COMPLETED"}) \ {"CHECKING"} /\ next = Successor(journal)
      /\ mode = "forward" => next = "COMPLETED" /\ journal.committed
      /\ mode = "back" => next = "ROLLED_BACK" /\ ~journal.committed
      /\ next \in States
  BY <1>1, SuccessorFacts DEF IInv, Control, States, Progress, PreMutation, Terminal
<1> HIDE DEF next
<1>3. /\ o \in Operation /\ o.id = journal.id /\ o.kind = journal.kind /\ o.state = next
      /\ o.prev = journal.prev /\ o.committed = (journal.committed \/ next = "COMMITTING")
      /\ o.snap =
           (journal.snap \/ (journal.state = "BACKING_UP" /\ next \in {"MIGRATING", "INSTALLING"}))
  BY <1>1, <1>2, MovedFacts, MovedRest
<1>4. CASE ~MayMove(mem, next)
  <2>1. Aside /\ pc' = OnError /\ UNCHANGED <<mode, mem, source>> /\ (Closed => Closed')
    BY <1>1, <1>4 DEF Log, GoTo, next, Aside, Closed, services
  <2>2. Course'
    BY <1>1, <2>1 DEF OnError, Kept, Course, Same, PastStop, Leaving, Exact, Rolling, Undoing, NamedAt, Calls,
       Offline, Restoring, BackCalls, Aside
  <2> QED BY <2>1, <2>2, FilesAside DEF Kept
<1>5. CASE MayMove(mem, next)
  <2>1. Record(o, call, mode, OnError)
    BY <1>5 DEF Log, next
  <2> HIDE DEF o
  <2>2. /\ journal' = o /\ hist' \in {hist, [hist EXCEPT ![o.id] = o]}
        /\ \/ LetGo
           \/ /\ mode = "run" /\ pc' = FirstCall(o) /\ pc' # "idle" /\ mode' = "run" /\ mem' = o
              /\ source' = source
    BY <2>1, RecordKept
  <2>3. /\ journal.state # "COMMITTING" /\ mode = "run" => ~journal.committed
        /\ mode = "run" => journal.state \notin Terminal
    BY <1>1 DEF IInv, Link, CommitPoint, Progress, Terminal
  <2>4. Course'
    BY <1>1, <1>2, <1>3, <2>2, <2>3, CourseGone, NextCall DEF Kept
  <2>5. Files'
    <3>1. CASE mode = "run" /\ journal.state = "BACKING_UP"
      <4>1. next \in {"MIGRATING", "INSTALLING"}
        BY <1>1, <1>2, <3>1 DEF Successor, Operation
      <4>2. /\ ~Undecided /\ ~journal.committed /\ Closed /\ work.own = "none"
            /\ snaps[journal.id].present /\ runtime.writes = snaps[journal.id].writes
            /\ journal.id \in OpIds
        BY <1>1, <2>3, <3>1 DEF Kept, Files, Pointed, Undecided, Course, PastStop, Leaving, Exact, Door, Fresh, IInv,
           Control
      <4>3. Closed' /\ Undecided' /\ ~o.committed /\ o.snap
        <5>1. ~o.committed /\ o.snap
          BY <1>3, <3>1, <4>1, <4>2
        <5>2. ~Settled(o)
          BY <1>3, <4>1 DEF Settled
        <5> QED BY <1>1, <2>2, <4>2, <5>1, <5>2 DEF Closed, Undecided, services
      <4>4. acked \subseteq snaps[journal.id].writes
        BY <4>2, ClosedIsSaved DEF Kept, Files, Held
      <4>5. Pointed' /\ Shut' /\ Held' /\ PutBack'
        BY <1>1, <1>3, <2>2, <4>1, <4>2, <4>3, <4>4 DEF Pointed, Shut, Held, PutBack, PreMutation
      <4>6. AllNamed'
        <5>1. \A i \in OpIds : hist'[i].prev \in {journal.prev, hist[i].prev}
          BY <1>3, <2>2 DEF IInv, TypeOK
        <5> QED BY <1>1, <1>3, <2>2, <4>1, <5>1 DEF Kept, Files, AllNamed, Named
      <4> QED BY <4>5, <4>6 DEF Files
    <3>2. CASE mode = "run" /\ journal.state = "HEALTH_CHECKING"
      <4>1. next = "COMMITTING"
        BY <1>1, <1>2, <3>2 DEF Successor, Operation
      <4>2. /\ journal.snap /\ ~journal.committed /\ Closed /\ Undecided
            /\ runtime.writes = snaps[journal.id].writes
        BY <1>1, <2>3, <3>2 DEF Kept, Files, Pointed, Undecided, Settled, Course, PastStop, Leaving, Exact, Door,
           Fresh
      <4>3. Closed' /\ ~Undecided' /\ o.committed /\ o.snap
        BY <1>1, <1>3, <2>2, <4>1, <4>2 DEF Closed, Undecided, services
      <4>4. acked \subseteq runtime.writes
        BY <4>2 DEF Kept, Files, Held
      <4>5. Pointed' /\ Shut' /\ Held' /\ PutBack'
        BY <1>1, <1>3, <2>2, <4>1, <4>2, <4>3, <4>4 DEF Kept, Files, Pointed, Shut, Held, PutBack, PreMutation
      <4>6. AllNamed'
        <5>1. \A i \in OpIds : hist'[i].prev \in {journal.prev, hist[i].prev}
          BY <1>3, <2>2 DEF IInv, TypeOK
        <5> QED BY <1>1, <1>3, <2>2, <4>1, <5>1 DEF Kept, Files, AllNamed, Named
      <4> QED BY <4>5, <4>6 DEF Files
    <3>3. CASE ~(mode = "run" /\ journal.state \in {"BACKING_UP", "HEALTH_CHECKING"})
      <4>1. o.snap = journal.snap /\ o.committed = journal.committed
        <5>1. mode = "run" => next # "COMMITTING" /\ journal.state # "BACKING_UP"
          BY <1>1, <1>2, <3>3 DEF Successor, Progress, Operation
        <5> QED BY <1>1, <1>2, <1>3, <3>3, <5>1 DEF Operation
      <4>2. o.state = "COMPLETED" => installed.op = o.id
        <5>1. o.state = "COMPLETED" => journal.committed
          BY <1>1, <1>2, <1>3, SuccessorFacts DEF IInv, Link, CommitPoint
        <5> QED BY <1>1, <1>3, <5>1 DEF Kept, Course, NamedAt
      <4>3. o.snap /\ ~o.committed /\ work.own # "completed" => (Settled(o) <=> Settled(journal))
        <5>1. CASE mode = "run"
          BY <1>1, <1>2, <1>3, <4>1, <5>1, SuccessorFacts DEF Settled, Progress, IInv, Link, CommitPoint
        <5>2. CASE mode = "back"
          BY <1>1, <4>1, <5>2 DEF Kept, Course, Undoing
        <5> QED BY <1>1, <1>2, <4>1, <5>1, <5>2
      <4>4. /\ o.snap => o.state \notin PreMutation \cup {"IDLE", "STOPPING", "BACKING_UP", "FAILED"}
            /\ o.state \in {"MIGRATING", "INSTALLING", "STARTING", "HEALTH_CHECKING"} => o.snap
        <5>1. CASE mode = "run"
          BY <1>1, <1>2, <1>3, <3>3, <4>1, <5>1
             DEF Kept, Files, Pointed, Successor, Progress, PreMutation, Operation
        <5>2. CASE mode # "run"
          BY <1>1, <1>2, <1>3, <5>2 DEF PreMutation
        <5> QED BY <5>1, <5>2
      <4> QED BY <1>1, <1>3, <2>2, <4>1, <4>2, <4>3, <4>4, SameDecision DEF Kept
    <3> QED BY <3>1, <3>2, <3>3
  <2> QED BY <2>4, <2>5 DEF Kept
<1> QED BY <1>4, <1>5

LEMMA KeptInv == JournalCanFail = FALSE /\ IInv /\ Door /\ Kept /\ [Next]_vars => Kept'
<1> SUFFICES ASSUME JournalCanFail = FALSE, IInv, Door, Kept, [Next]_vars PROVE Kept'
  OBVIOUS
<1>1. CASE Owner \/ Clients
  BY <1>1, OwnerKept, ClientsKept
<1>2. CASE Controller
  BY <1>2, LogKept, RecoverKept, CallsKept, MilestonesKept, MovesKept DEF Controller
<1> QED BY <1>1, <1>2, OutsideKept DEF Next

LEMMA KeptAlways == JournalCanFail = FALSE => (Spec => []Kept)
<1> SUFFICES ASSUME JournalCanFail = FALSE PROVE Spec => []Kept
  OBVIOUS
<1>1. Spec => []Door
  BY DoorInit, DoorInv, Inductive, PTL DEF Spec
<1>2. IInv /\ Door /\ Kept /\ [Next]_vars => Kept'
  BY KeptInv
<1> QED BY <1>1, <1>2, KeptInit, Inductive, PTL DEF Spec

(***************************************************************************)
(* On a disk that takes the journal, while the recovery point may still    *)
(* replace the data no client can have a change acknowledged, whatever     *)
(* dies or fails and whoever starts the services (host.py:142-160 with     *)
(* broker-entrypoint.sh).                                                  *)
(***************************************************************************)
THEOREM UndecidedIsShut == JournalCanFail = FALSE => (Spec => []NoWriterWhileUndecided)
<1>1. Kept => NoWriterWhileUndecided
  BY DEF Kept, Files, Shut, Closed, NoWriterWhileUndecided
<1> QED BY <1>1, KeptAlways, PTL

(***************************************************************************)
(* On a disk that takes the journal, no change a client was told is stored *)
(* is lost by an update, a rollback, their failures, the updater's death,  *)
(* its stops or the supervisor's restarts: it is in the data, in the       *)
(* memory of the mosquitto that runs, or in the recovery point recovery    *)
(* will put there (controller.py:24-31, 40-41 and 115-143).  What goes     *)
(* with mosquitto's memory in a power loss or its own death is excepted    *)
(* (broker-entrypoint.sh:22).                                              *)
(***************************************************************************)
THEOREM WritesSurvive == JournalCanFail = FALSE => (Spec => []NoAcknowledgedWriteLost)
<1>1. Kept => NoAcknowledgedWriteLost
  BY DEF Kept, Files, Held, NoAcknowledgedWriteLost
<1> QED BY <1>1, KeptAlways, PTL

-----------------------------------------------------------------------------
(* The release in force.                                                   *)

Older(r) == r.op = 0 \/ r.op < journal.id
Names(r, i) == r.op = i => r.version = hist[i].version

\* An installed record tells which operation made it, and which release that
\* operation was about.
Lineage ==
    /\ journal.id = ops /\ installed.op <= journal.id
    /\ Older(journal.prev) /\ \A i \in OpIds : Older(hist[i].prev)
    /\ installed.op = journal.id => installed.version = journal.version
    /\ \A i \in OpIds : hist[i].state = "COMPLETED" =>
         /\ i <= journal.id /\ (i = journal.id => hist[i].version = journal.version)
         /\ hist[i].version # hist[i].prev.version
         /\ Names(installed, i) /\ Names(journal.prev, i)
         /\ \A j \in OpIds : Names(hist[j].prev, i)

\* An operation that may be undone, and has nothing to undo, left the record alone.
Decided ==
    /\ journal.committed =>
         journal.version # journal.prev.version /\ journal.state \notin {"ROLLED_BACK", "FAILED"}
    /\ ~journal.committed /\ (~journal.snap \/ Settled(journal)) => installed = journal.prev
    /\ journal.state = "IDLE" => journal.id \notin OpIds

Choice ==
    /\ mode = "back" /\ pc \in {"start_broker", "start_admin", "health", "open", "ack", "log"} =>
         installed = journal.prev
    /\ mode = "run" /\ pc \in (Calls \cup {"log"}) \ {"resolve"} =>
         journal.version # journal.prev.version

Release == Lineage /\ Decided /\ Choice

LEMMA ReleaseInit == Init => Release
<1> SUFFICES ASSUME Init PROVE Release
  OBVIOUS
<1>1. /\ ~NoOperation.snap /\ NoOperation.prev = FirstRecord /\ FirstRecord.op = 0
      /\ NoOperation.version = 1 /\ FirstRecord.version = 1
  BY DEF NoOperation, NewOperation, FirstRecord
<1> QED
  BY <1>1, FirstRecordFacts
     DEF Init, Release, Lineage, Decided, Choice, Older, Names, OpIds, Calls, Offline

LEMMA ReleaseAside ==
    ASSUME Release, UNCHANGED <<journal, hist, installed, ops>>
    PROVE  Lineage' /\ Decided'
BY DEF Release, Lineage, Decided, Older, Names, Settled

\* A transition of the running operation.
LEMMA ReleaseRecord ==
    ASSUME IInv, Release, NEW o \in Operation,
           journal.id \in OpIds, journal' = o, hist' \in {hist, [hist EXCEPT ![o.id] = o]},
           UNCHANGED <<installed, ops>>,
           o.id = journal.id, o.prev = journal.prev, o.version = journal.version,
           o.state # "IDLE", o.state = "COMPLETED" => o.committed,
           o.committed =>
             o.version # o.prev.version /\ o.state \notin {"ROLLED_BACK", "FAILED"},
           ~o.committed /\ (~o.snap \/ Settled(o)) => installed = o.prev
    PROVE  Lineage' /\ Decided'
<1>1. Decided'
  BY DEF Decided, Settled
<1>2. \A i \in OpIds : hist'[i].prev \in {journal.prev, hist[i].prev}
  BY DEF IInv, TypeOK
<1>3. \A i \in OpIds \ {journal.id} : hist'[i] = hist[i]
  BY DEF IInv, TypeOK
<1>4. hist'[journal.id] \in {o, hist[journal.id]}
  BY DEF IInv, TypeOK
<1>5. \A r : Older(r)' <=> Older(r)
  BY DEF Older
<1>6. Older(journal.prev)' /\ \A i \in OpIds : Older(hist[i].prev)'
  BY <1>2, <1>5 DEF Release, Lineage, Older
<1>7. ASSUME NEW i \in OpIds, hist'[i].state = "COMPLETED"
      PROVE  /\ i <= o.id /\ (i = o.id => hist'[i].version = o.version)
             /\ hist'[i].version # hist'[i].prev.version
             /\ Names(installed, i)' /\ Names(journal.prev, i)'
             /\ \A j \in OpIds : Names(hist[j].prev, i)'
  <2>1. CASE hist'[i] = hist[i]
    BY <1>2, <1>7, <2>1 DEF Release, Lineage, Names
  <2>2. CASE i = journal.id /\ hist'[i] = o
    <3>1. o.version # o.prev.version /\ i # 0
      BY <1>7, <2>2 DEF OpIds
    <3>2. journal.prev.op # i /\ \A j \in OpIds : hist[j].prev.op # i
      BY <2>2, <3>1 DEF Release, Lineage, Older, IInv, TypeOK, Operation, InstalledRecord
    <3>3. Names(installed, i)' /\ Names(journal.prev, i)' /\ \A j \in OpIds : Names(hist[j].prev, i)'
      BY <1>2, <2>2, <3>2 DEF Release, Lineage, Names
    <3> QED BY <2>2, <3>1, <3>3 DEF IInv, TypeOK, OpIds
  <2> QED BY <1>3, <1>4, <2>1, <2>2
<1>8. Lineage'
  BY <1>6, <1>7 DEF Release, Lineage
<1> QED BY <1>1, <1>8

LEMMA ReleaseBegin ==
    ASSUME IInv, Release, NEW k \in {"install", "rollback"}, NEW v \in Versions,
           Begin(NewOperation(ops + 1, k, v, installed)), k = "rollback" => v # installed.version
    PROVE  Release'
<1> DEFINE o == NewOperation(ops + 1, k, v, installed)
<1>1. /\ o \in Operation /\ o.id = ops + 1 /\ o.kind = k /\ o.state = "CHECKING" /\ ~o.committed
      /\ ~o.snap /\ o.prev = installed /\ o.version = v /\ o.id \in OpIds /\ ops \in Nat
  <2>1. ops + 1 \in OpIds /\ ops + 1 \in 0..MaxOps /\ ops \in Nat
    BY UpdaterAssumption DEF Begin, IInv, TypeOK, OpIds
  <2> QED BY <2>1, NewOperationFacts DEF IInv, TypeOK, NewOperation
<1>2. Begin(o)
  OBVIOUS
<1> HIDE DEF o
<1>3. FirstCall(o) = IF k = "install" THEN "resolve" ELSE "verify_snapshot"
  BY <1>1, FirstCallFacts DEF Progress
<1>4. /\ journal' = o /\ hist' \in {hist, [hist EXCEPT ![o.id] = o]} /\ ops' = ops + 1
      /\ \/ pc' = FirstCall(o) /\ mode' = "run" /\ mem' = o
         \/ pc' = "idle" /\ mode' = "none"
      /\ installed' = installed
  BY <1>2 DEF Begin, IInv, Control
<1>5. /\ \A i \in OpIds : hist'[i].prev \in {installed, hist[i].prev}
      /\ \A i \in OpIds : hist'[i].state = "COMPLETED" => hist'[i] = hist[i]
  BY <1>1, <1>4 DEF IInv, TypeOK
<1>6. ASSUME NEW r, r = installed \/ r = journal.prev \/ \E i \in OpIds : r = hist[i].prev
      PROVE  r.op \in Nat /\ r.op < ops + 1
  <2>1. r \in InstalledRecord
    BY <1>6 DEF IInv, TypeOK, Operation
  <2>2. r.op \in Nat
    BY <2>1, UpdaterAssumption DEF InstalledRecord
  <2>3. r.op = 0 \/ r.op <= ops
    <3>1. journal.id = ops /\ (r = installed \/ Older(r))
      BY <1>6 DEF Release, Lineage
    <3>2. r = installed => r.op <= ops
      BY DEF Release, Lineage
    <3> QED BY <1>1, <2>2, <3>1, <3>2 DEF Older
  <2> QED BY <1>1, <2>2, <2>3
<1>7. /\ Older(journal.prev)' /\ installed'.op < journal'.id
      /\ \A i \in OpIds : Older(hist[i].prev)'
  BY <1>1, <1>4, <1>5, <1>6 DEF Older
<1>8. ASSUME NEW i \in OpIds, hist'[i].state = "COMPLETED"
      PROVE  /\ i <= journal'.id /\ (i = journal'.id => hist'[i].version = journal'.version)
             /\ hist'[i].version # hist'[i].prev.version
             /\ Names(installed, i)' /\ Names(journal.prev, i)'
             /\ \A j \in OpIds : Names(hist[j].prev, i)'
  <2>1. hist'[i] = hist[i] /\ i <= ops
    BY <1>5, <1>8 DEF Release, Lineage
  <2>2. i < ops + 1 /\ i # ops + 1
    BY <1>1, <2>1 DEF OpIds
  <2> QED BY <1>1, <1>4, <1>5, <1>8, <2>1, <2>2 DEF Release, Lineage, Names, OpIds
<1>9. Lineage'
  BY <1>1, <1>4, <1>7, <1>8 DEF Lineage, IInv, TypeOK, InstalledRecord
<1>10. Decided' /\ Choice'
  BY <1>1, <1>3, <1>4 DEF Decided, Choice
<1> QED BY <1>9, <1>10 DEF Release

LEMMA ReleaseOwner == JournalCanFail = FALSE /\ IInv /\ Release /\ Owner => Release'
<1> SUFFICES ASSUME JournalCanFail = FALSE, IInv, Release, Owner PROVE Release'
  OBVIOUS
<1>1. ASSUME NEW v \in Versions, Install(v) PROVE Release'
  BY <1>1, ReleaseBegin DEF Install
<1>2. ASSUME NEW i \in OpIds, Rollback(i) PROVE Release'
  <2>1. hist[i].prev.version \in Versions
    BY DEF IInv, TypeOK, Operation, InstalledRecord
  <2>2. hist[i].prev.version # installed.version
    BY <1>2 DEF Rollback, RollbackAdmits, Release, Lineage, Names
  <2> QED BY <1>2, <2>1, <2>2, ReleaseBegin DEF Rollback
<1>3. CASE RetryRecovery
  <2> DEFINE state == IF journal.committed THEN "COMMITTING" ELSE "ROLLING_BACK"
             o == [journal EXCEPT !.state = state]
  <2>1. /\ o \in Operation /\ o.id = journal.id /\ o.state = state /\ o.prev = journal.prev
        /\ o.snap = journal.snap /\ o.committed = journal.committed /\ o.version = journal.version
    BY DEF IInv, TypeOK, Operation, States
  <2>2. /\ Record(o, "recover", "run", "idle") /\ journal.state = "RECOVERY_REQUIRED"
        /\ UNCHANGED <<installed, ops>>
    BY <1>3 DEF RetryRecovery
  <2> HIDE DEF o
  <2>3. journal.id \in OpIds
    BY <2>2 DEF IInv, Link
  <2>4. Lineage' /\ Decided'
    BY <2>1, <2>2, <2>3, RecordKept, ReleaseRecord DEF Release, Decided, Settled
  <2>5. Choice'
    <3>1. (pc' = "idle" /\ mode' = "none") \/ (pc' = "recover" /\ mode' = "run")
      BY <2>2, RecordKept DEF LetGo
    <3> QED BY <3>1 DEF Choice, Calls, Offline
  <2> QED BY <2>4, <2>5 DEF Release
<1> QED BY <1>1, <1>2, <1>3 DEF Owner

LEMMA ReleaseJournal ==
    JournalCanFail = FALSE /\ IInv /\ Kept /\ Release /\ (Log \/ Recover \/ GiveUp) => Release'
<1> SUFFICES ASSUME JournalCanFail = FALSE, IInv, Kept, Release, Log \/ Recover \/ GiveUp
             PROVE  Release'
  OBVIOUS
<1>1. /\ mem = journal /\ journal \in Operation /\ journal.id \in OpIds
      /\ UNCHANGED <<installed, ops>>
  BY DEF Log, Recover, GiveUp, Kept, Course, Same, IInv, TypeOK, Control
<1>2. CASE Log
  <2> DEFINE next == CASE mode = "run" -> Successor(mem)
                       [] mode = "forward" -> "COMPLETED"
                       [] mode = "back" -> "ROLLED_BACK"
             o == Moved(mem, next)
             call == IF mode = "run" THEN FirstCall(o) ELSE "idle"
  <2>1. /\ pc = "log" /\ mode \in {"run", "forward", "back"}
        /\ mode = "run" => journal.state \in Progress
    BY <1>1, <1>2 DEF Log, IInv, TypeOK, Control, RunCalls, Modes
  <2>2. /\ mode = "run" => next \in (Progress \cup {"COMPLETED"}) \ {"CHECKING"}
        /\ mode = "run" /\ next = "COMPLETED" => journal.committed
        /\ mode = "forward" => next = "COMPLETED" /\ journal.committed
        /\ mode = "back" => next = "ROLLED_BACK" /\ ~journal.committed
        /\ next \in States /\ next # "IDLE"
    BY <1>1, <2>1, SuccessorFacts DEF IInv, Control, Link, CommitPoint, States, Progress, PreMutation,
       Terminal
  <2> HIDE DEF next
  <2>3. /\ o \in Operation /\ o.id = journal.id /\ o.state = next
        /\ o.prev = journal.prev /\ o.version = journal.version
        /\ (o.committed <=> journal.committed \/ next = "COMMITTING")
        /\ (journal.snap => o.snap)
    <3>1. /\ o \in Operation /\ o.id = journal.id /\ o.state = next
          /\ o.prev = journal.prev /\ o.version = journal.version
          /\ o.committed = (journal.committed \/ next = "COMMITTING")
          /\ o.snap =
               (journal.snap \/ (journal.state = "BACKING_UP" /\ next \in {"MIGRATING", "INSTALLING"}))
      BY <1>1, <2>2, MovedFacts, MovedRest
    <3> QED BY <3>1
  <2>4. CASE ~MayMove(mem, next)
    <3>1. UNCHANGED <<journal, hist, mode>> /\ pc' = OnError
      BY <1>2, <2>4 DEF Log, GoTo, next
    <3>2. Choice'
      BY <2>1, <3>1 DEF Choice, OnError, Calls, Offline
    <3> QED BY <1>1, <3>1, <3>2, ReleaseAside DEF Release
  <2>5. CASE MayMove(mem, next)
    <3>1. Record(o, call, mode, OnError)
      BY <1>2, <2>5 DEF Log, next
    <3> HIDE DEF o
    <3>2. /\ journal' = o /\ hist' \in {hist, [hist EXCEPT ![o.id] = o]}
          /\ LetGo \/ (mode = "run" /\ mode' = "run")
      BY <3>1, RecordKept
    <3>3. o.committed => o.version # o.prev.version /\ o.state \notin {"ROLLED_BACK", "FAILED"}
      <4>1. CASE mode = "run"
        BY <2>1, <2>2, <2>3, <4>1 DEF Release, Choice, Progress
      <4>2. CASE mode \in {"forward", "back"}
        BY <1>1, <2>2, <2>3, <4>2 DEF Release, Decided
      <4> QED BY <2>1, <4>1, <4>2
    <3>4. ~o.committed /\ (~o.snap \/ Settled(o)) => installed = o.prev
      <4>1. CASE mode = "run"
        <5>1. Settled(o) => o.committed
          BY <1>1, <2>2, <2>3, <4>1 DEF Settled, Progress, Operation
        <5>2. ~o.committed => ~journal.committed
          BY <2>3
        <5> QED BY <2>3, <5>1, <5>2 DEF Release, Decided
      <4>2. CASE mode = "back"
        BY <2>1, <2>3, <4>2 DEF Release, Choice
      <4>3. CASE mode = "forward"
        BY <2>2, <2>3, <4>3
      <4> QED BY <2>1, <4>1, <4>2, <4>3
    <3>5. o.state = "COMPLETED" => o.committed
      BY <2>1, <2>2, <2>3
    <3>6. Lineage' /\ Decided'
      BY <1>1, <2>2, <2>3, <3>2, <3>3, <3>4, <3>5, ReleaseRecord
    <3>7. Choice'
      BY <2>1, <2>3, <3>2 DEF LetGo, Release, Choice
    <3> QED BY <3>6, <3>7 DEF Release
  <2> QED BY <2>4, <2>5
<1>3. CASE Recover
  <2>1. mode = "run" /\ ~Settled(journal) /\ pc = "recover"
    BY <1>3 DEF Recover, IInv, TypeOK, Control, Modes, ForwardCalls, BackCalls, Restoring, Kept, Course,
       Same, Settled, Terminal
  <2>2. CASE journal.committed
    <3>1. UNCHANGED <<journal, hist>> /\ mode' = "forward"
      BY <1>1, <1>3, <2>2 DEF Recover
    <3> QED BY <1>1, <3>1, ReleaseAside DEF Release, Choice
  <2>3. CASE ~journal.committed
    <3> DEFINE st == IF journal.state \in PreMutation THEN "FAILED" ELSE "ROLLING_BACK"
               o == Moved(journal, st)
    <3>1. \/ Record(o, "idle", "none", "idle")
          \/ Record(o, "maintain", "back", "giveup")
      BY <1>1, <1>3, <2>3 DEF Recover
    <3>2. st \in States /\ st \in {"FAILED", "ROLLING_BACK"}
      BY DEF States, Terminal
    <3>3. /\ o \in Operation /\ o.id = journal.id /\ o.state = st /\ o.prev = journal.prev
          /\ o.version = journal.version /\ ~o.committed /\ (journal.snap => o.snap)
      <4>1. /\ o \in Operation /\ o.id = journal.id /\ o.state = st /\ o.prev = journal.prev
            /\ o.version = journal.version /\ o.committed = (journal.committed \/ st = "COMMITTING")
            /\ o.snap =
                 (journal.snap \/ (journal.state = "BACKING_UP" /\ st \in {"MIGRATING", "INSTALLING"}))
        BY <1>1, <3>2, MovedFacts, MovedRest
      <4> HIDE DEF o, st
      <4> QED BY <2>3, <3>2, <4>1
    <3>4. st = "FAILED" => ~journal.snap
      BY DEF Kept, Files, Pointed
    <3> HIDE DEF o, st
    <3>5. /\ journal' = o /\ hist' \in {hist, [hist EXCEPT ![o.id] = o]}
          /\ LetGo \/ (mode' = "back" /\ pc' = "maintain")
      BY <3>1, RecordKept
    <3>6. (~o.snap \/ Settled(o)) => installed = o.prev
      BY <2>3, <3>2, <3>3, <3>4 DEF Release, Decided, Settled
    <3>7. Lineage' /\ Decided'
      BY <1>1, <3>2, <3>3, <3>5, <3>6, ReleaseRecord
    <3> QED BY <3>5, <3>7 DEF Release, Choice, LetGo
  <2> QED BY <2>2, <2>3
<1>4. CASE GiveUp
  <2>1. CASE MayMove(journal, "RECOVERY_REQUIRED")
    <3> DEFINE o == Moved(journal, "RECOVERY_REQUIRED")
    <3>1. Record(o, "idle", "none", "idle")
      BY <1>1, <1>4, <2>1 DEF GiveUp
    <3>2. "RECOVERY_REQUIRED" \in States
      BY DEF States, Terminal
    <3>3. /\ o \in Operation /\ o.id = journal.id /\ o.state = "RECOVERY_REQUIRED"
          /\ o.prev = journal.prev /\ o.version = journal.version
          /\ o.committed = journal.committed /\ (journal.snap => o.snap)
      BY <1>1, <3>2, MovedFacts, MovedRest DEF Operation
    <3> HIDE DEF o
    <3>4. Lineage' /\ Decided'
      BY <1>1, <3>1, <3>3, RecordKept, ReleaseRecord DEF Release, Decided, Settled
    <3> QED BY <3>1, <3>4, RecordKept DEF Release, Choice, LetGo
  <2>2. CASE ~MayMove(journal, "RECOVERY_REQUIRED")
    BY <1>1, <1>4, <2>2, ReleaseAside DEF GiveUp, LetGo, Release, Choice
  <2> QED BY <2>1, <2>2
<1> QED BY <1>2, <1>3, <1>4

LEMMA ReleaseQuietly == IInv /\ Kept /\ Release /\ Quietly => Release'
<1> SUFFICES ASSUME IInv, Kept, Release, Quietly PROVE Release'
  OBVIOUS
<1> USE DEF Call, GoTo, disk, services, locals, ghosts
<1>1. Aside /\ ops' = ops
  BY QuietlyAside DEF Quietly, Check, Maintain, Prepare, StopAdmin, StopBroker, Recheck, Health, Migrate,
     Acknowledge, RestoreBegin, RestoreSecure, Fail, Activate, RestoreUnit, Start, BootStart, Resume,
     Supervisor, SupervisorRecord, SupervisorRestart, BrokerSave, BrokerRestart, Crash, Reboot, vars,
     AdminAdmit, Login
<1>2. Lineage' /\ Decided'
  BY <1>1, ReleaseAside DEF Aside
<1>3. Choice'
  <2>1. CASE LetGo \/ UNCHANGED locals
    BY <1>1, <2>1 DEF LetGo, Aside, Release, Choice
  <2>2. CASE Resume \/ Fail
    BY <1>1, <2>2 DEF Resume, Fail, OnError, LetGo, Choice, Calls, Offline
  <2>3. CASE Check
    <3>1. /\ pc \in Calls /\ mode' = mode /\ pc' = "log" /\ (pc = "resolve" => VersionAdvances)
          /\ mem = journal
      BY <2>3 DEF Check, Kept, Course, Same, Calls
    <3>2. mode # "back" /\ (mode = "run" /\ pc = "resolve" => journal.state = "CHECKING")
      BY <2>3, <3>1 DEF Check, IInv, Control, RunCalls, BackCalls, Restoring
    <3>3. CASE mode = "run" /\ pc = "resolve"
      <4>1. ~journal.committed /\ ~journal.snap
        BY <3>2, <3>3 DEF IInv, Link, CommitPoint, Terminal, Kept, Files, Pointed, PreMutation
      <4>2. installed = journal.prev /\ installed.version \in Nat /\ journal.version \in Nat
        BY <4>1, UpdaterAssumption DEF Release, Decided, IInv, TypeOK, Operation, InstalledRecord, Versions
      <4> QED BY <1>1, <3>1, <3>2, <3>3, <4>2 DEF VersionAdvances, Choice, Aside
    <3> QED BY <1>1, <3>1, <3>2, <3>3 DEF Release, Choice, Aside
  <2>4. CASE ~Check /\ ~Fail /\ ~Resume /\ ~LetGo /\ locals' # locals
    <3>1. /\ pc \in Calls /\ UNCHANGED <<mode, mem>>
          /\ pc # "resolve" /\ mem = journal
      <4>1. /\ pc \in Calls /\ UNCHANGED <<mode, mem>> /\ pc # "resolve"
        BY <2>4 DEF Quietly, Maintain, Prepare, StopAdmin, StopBroker, Recheck, Health, Migrate,
           Acknowledge, RestoreBegin, RestoreSecure, Activate, RestoreUnit, Start, BootStart, Supervisor,
           SupervisorRecord, SupervisorRestart, BrokerSave, BrokerRestart, Crash, Reboot, Dies, vars,
           AdminAdmit, Login, Calls, Offline
      <4> QED BY <4>1 DEF Kept, Course, Same, Calls, Offline, Release, Choice
    <3>2. CASE mode = "run"
      BY <1>1, <3>1, <3>2 DEF Release, Choice, Aside
    <3>3. CASE mode = "back"
      <4>1. /\ ~journal.committed /\ journal.state = "ROLLING_BACK"
            /\ pc \in BackCalls
        BY <3>1, <3>3 DEF IInv, Control, Calls, Offline
      <4>2. pc' \in {"start_broker", "start_admin", "health", "open", "ack", "log"} =>
              \/ pc \in {"start_broker", "start_admin", "health", "open", "ack", "log"}
              \/ pc = "maintain" /\ ~journal.snap
        BY <2>4, <3>1, <3>3, <4>1 DEF Quietly, Maintain, Prepare, StopAdmin, StopBroker, Recheck, Health,
           Migrate, Acknowledge, RestoreBegin, RestoreSecure, Activate, RestoreUnit, Start, BootStart,
           Supervisor, SupervisorRecord, SupervisorRestart, BrokerSave, BrokerRestart, Crash, Reboot,
           Dies, vars, AdminAdmit, Login, BackCalls, Restoring
      <4> QED BY <1>1, <3>1, <3>3, <4>1, <4>2 DEF Release, Choice, Decided, Aside
    <3> QED BY <3>1, <3>2, <3>3 DEF Choice
  <2> QED BY <2>1, <2>2, <2>3, <2>4
<1> QED BY <1>2, <1>3 DEF Release

LEMMA ReleaseOthers ==
    IInv /\ Door /\ Kept /\ Release
      /\ (Snapshot \/ Commit \/ Open \/ RestoreDisplace \/ RestorePlace \/ RestoreCheck
          \/ RestoreRecord \/ Clients) => Release'
<1> SUFFICES ASSUME IInv, Door, Kept, Release,
                    Snapshot \/ Commit \/ Open \/ RestoreDisplace \/ RestorePlace \/ RestoreCheck
                      \/ RestoreRecord \/ Clients
             PROVE  Release'
  OBVIOUS
<1> USE DEF Call, GoTo, disk, services, locals, ghosts
<1>1. UNCHANGED <<journal, hist, mode, mem, source, ops>>
  BY DEF Snapshot, Commit, Open, RestoreDisplace, RestorePlace, RestoreCheck, RestoreRecord, Clients,
     AdminAdmit, AdminStore, BrokerPublish, Login
<1>2. CASE Snapshot \/ Open \/ RestoreDisplace \/ RestorePlace \/ RestoreCheck \/ Clients
  <2>1. installed' = installed
    BY <1>2 DEF Snapshot, Open, RestoreDisplace, RestorePlace, RestoreCheck, Clients,
       AdminAdmit, AdminStore, BrokerPublish, Login
  <2>2. Choice'
    <3>1. CASE Clients
      BY <1>1, <2>1, <3>1 DEF Clients, AdminAdmit, AdminStore, BrokerPublish, Login, Release, Choice
    <3>2. CASE Snapshot \/ Open \/ RestoreDisplace \/ RestorePlace \/ RestoreCheck
      BY <1>1, <2>1, <3>2 DEF Snapshot, Open, RestoreDisplace, RestorePlace, RestoreCheck, Release,
         Choice, Calls, Offline, IInv, Control, BackCalls, Restoring
    <3> QED BY <1>2, <3>1, <3>2
  <2> QED BY <1>1, <2>1, <2>2, ReleaseAside DEF Release
<1>3. CASE Commit
  <2>1. /\ pc = "commit" /\ pc' = "open" /\ mem = journal /\ journal.id \in OpIds
        /\ IF installed.op = journal.id THEN installed' = installed
           ELSE installed'.op = journal.id /\ installed'.version = journal.version
    BY <1>3 DEF Commit, Kept, Course, Same, IInv, Control
  <2>2. journal.committed
    BY <2>1 DEF IInv, TypeOK, Control, RunCalls, Modes, BackCalls, Restoring, Link, CommitPoint
  <2>3. installed'.op = journal.id /\ installed'.version = journal.version
    BY <2>1 DEF Release, Lineage
  <2>4. \A r : Older(r)' <=> Older(r)
    BY <1>1 DEF Older
  <2>5. Lineage'
    BY <1>1, <2>1, <2>3, <2>4 DEF Release, Lineage, Names, OpIds
  <2>6. Decided' /\ Choice'
    BY <1>1, <2>1, <2>2 DEF Release, Decided, Choice, IInv, Control
  <2> QED BY <2>5, <2>6 DEF Release
<1>4. CASE RestoreRecord
  <2>1. /\ pc = "reinstate" /\ pc \in Restoring /\ installed' = Reinstated
        /\ pc' = IF mode = "run" THEN "log" ELSE "start_broker"
    BY <1>4 DEF RestoreRecord, Restoring
  <2>2. /\ mode \in {"run", "back"} /\ mem = journal /\ journal.id \in OpIds
        /\ journal.snap /\ ~journal.committed /\ ~Settled(journal) /\ (mode = "run" => source \in OpIds)
    BY <2>1, RestoringFacts
  <2>3. /\ Older(installed') /\ installed' \in InstalledRecord
        /\ \A i \in OpIds : hist[i].state = "COMPLETED" => Names(installed', i)
    BY <2>1, <2>2 DEF Reinstated, Release, Lineage, IInv, TypeOK, Operation
  <2>4. installed'.op <= journal.id /\ installed'.op # journal.id
    BY <2>2, <2>3, UpdaterAssumption DEF Older, InstalledRecord, OpIds
  <2>5. \A r : Older(r)' <=> Older(r)
    BY <1>1 DEF Older
  <2>6. Lineage'
    BY <1>1, <2>3, <2>4, <2>5 DEF Release, Lineage, Names
  <2>7. Decided'
    BY <1>1, <2>2 DEF Decided, Settled
  <2>8. Choice'
    BY <1>1, <2>1, <2>2 DEF Release, Choice, Reinstated, Calls, Offline
  <2> QED BY <2>6, <2>7, <2>8 DEF Release
<1> QED BY <1>2, <1>3, <1>4

LEMMA ReleaseInv ==
    JournalCanFail = FALSE /\ IInv /\ Door /\ Kept /\ Release /\ [Next]_vars => Release'
BY ReleaseOwner, ReleaseJournal, ReleaseQuietly, ReleaseOthers DEF Next, Controller, Quietly, Clients

LEMMA ReleaseAlways == JournalCanFail = FALSE => (Spec => []Release)
<1> SUFFICES ASSUME JournalCanFail = FALSE PROVE Spec => []Release
  OBVIOUS
<1>1. Spec => []Kept
  BY KeptAlways
<1>2. Spec => []Door
  BY DoorInit, DoorInv, Inductive, PTL DEF Spec
<1>3. IInv /\ Door /\ Kept /\ Release /\ [Next]_vars => Release'
  BY ReleaseInv
<1> QED BY <1>1, <1>2, <1>3, ReleaseInit, Inductive, PTL DEF Spec

-----------------------------------------------------------------------------
(* Every step is a step of the abstract update.                            *)

PhaseOf(o) ==
    IF Settled(o) THEN "steady"
    ELSE IF o.state = "RECOVERY_REQUIRED" THEN IF o.committed THEN "stuckCommitted" ELSE "stuck"
    ELSE IF o.committed THEN "committed" ELSE "updating"

LEMMA PhaseIs == Phase = PhaseOf(journal) /\ Phase' = PhaseOf(journal')
BY DEF Phase, PhaseOf, Settled

LEMMA Stutters ==
    ASSUME UNCHANGED journal, Durable' = Durable PROVE [Atomic!Next]_(Atomic!vars)
BY PhaseIs DEF ReleaseInForce, Atomic!vars

\* The abstract steps that move only the phase.
Arrows ==
    {<<"steady", "updating">>, <<"updating", "steady">>, <<"committed", "steady">>,
     <<"updating", "stuck">>, <<"committed", "stuckCommitted">>, <<"stuck", "updating">>,
     <<"stuckCommitted", "committed">>, <<"updating", "updating">>, <<"committed", "committed">>}

LEMMA PhaseMoves ==
    ASSUME UNCHANGED <<ReleaseInForce, Durable>>, <<PhaseOf(journal), PhaseOf(journal')>> \in Arrows
    PROVE  [Atomic!Next]_(Atomic!vars)
BY PhaseIs DEF Arrows, Atomic!Next, Atomic!Move, Atomic!Begin, Atomic!Undo, Atomic!Finish,
   Atomic!AskOwner, Atomic!Retry, Atomic!vars

\* A journal write cannot change what survives, unless the data and the
\* recovery point differ.
LEMMA DurableStays ==
    ASSUME UNCHANGED <<runtime, snaps>>, journal'.id = journal.id,
           (Undecided' <=> Undecided) \/ runtime.writes = snaps[journal.id].writes
    PROVE  Durable' = Durable
BY DEF Durable

\* What mosquitto saves becomes durable, with clients still connected.
LEMMA AsideSteps == ASSUME IInv', Kept, Aside PROVE [Atomic!Next]_(Atomic!vars)
<1>1. UNCHANGED <<journal, snaps, work>> /\ Undecided' = Undecided
  BY DEF Aside, Undecided, Settled
<1>2. CASE Undecided
  BY <1>1, <1>2, Stutters DEF Kept, Files, Shut, Aside, Durable
<1>3. CASE ~Undecided
  <2>1. runtime'.writes \in SUBSET Writes
    BY DEF IInv, TypeOK, Data
  <2>2. Durable' = Durable \cup runtime'.writes
    BY <1>1, <1>3 DEF Durable, Aside
  <2>3. Atomic!ClientWrite(runtime'.writes)
    BY <1>1, <2>2, PhaseIs DEF Atomic!ClientWrite, ReleaseInForce
  <2>4. PICK W \in SUBSET Writes : Atomic!ClientWrite(W)
    BY <2>1, <2>3
  <2> QED BY <2>4 DEF Atomic!Next
<1> QED BY <1>2, <1>3

\* An operation that ended has its release in the installed record.
LEMMA InForceInstalled ==
    ASSUME IInv, Kept, Release, Settled(journal) PROVE ReleaseInForce = installed.version
<1>1. CASE journal.committed
  <2>1. journal.state = "COMPLETED"
    BY <1>1 DEF Settled, IInv, Link, CommitPoint, Terminal, Release, Decided
  <2> QED BY <1>1, <2>1 DEF ReleaseInForce, Kept, Files, AllNamed, Release, Lineage
<1>2. CASE ~journal.committed
  BY <1>2 DEF ReleaseInForce, Release, Decided
<1> QED BY <1>1, <1>2

LEMMA BeginImplements ==
    ASSUME IInv, Kept, Release, NEW k \in {"install", "rollback"}, NEW v \in Versions,
           Begin(NewOperation(ops + 1, k, v, installed))
    PROVE  [Atomic!Next]_(Atomic!vars)
<1> DEFINE o == NewOperation(ops + 1, k, v, installed)
<1>1. o.state = "CHECKING" /\ ~o.committed /\ ~o.snap /\ o.prev = installed
  BY DEF NewOperation
<1>2. Begin(o)
  OBVIOUS
<1> HIDE DEF o
<1>3. journal' = o /\ Settled(journal) /\ UNCHANGED <<runtime, snaps>>
  BY <1>2 DEF Begin, MayBegin, Settled, Terminal
<1>4. ReleaseInForce' = ReleaseInForce
  BY <1>1, <1>3, InForceInstalled DEF ReleaseInForce
<1>5. Durable' = Durable
  BY <1>1, <1>3 DEF Durable, Undecided
<1>6. PhaseOf(journal) = "steady" /\ PhaseOf(journal') = "updating"
  BY <1>1, <1>3 DEF PhaseOf, Settled
<1> QED BY <1>4, <1>5, <1>6, PhaseMoves DEF Arrows

LEMMA OwnerImplements ==
    JournalCanFail = FALSE /\ IInv /\ Kept /\ Release /\ Owner => [Atomic!Next]_(Atomic!vars)
<1> SUFFICES ASSUME JournalCanFail = FALSE, IInv, Kept, Release, Owner
             PROVE  [Atomic!Next]_(Atomic!vars)
  OBVIOUS
<1>1. ASSUME NEW v \in Versions, Install(v) PROVE [Atomic!Next]_(Atomic!vars)
  BY <1>1, BeginImplements DEF Install
<1>2. ASSUME NEW i \in OpIds, Rollback(i) PROVE [Atomic!Next]_(Atomic!vars)
  <2>1. hist[i].prev.version \in Versions
    BY DEF IInv, TypeOK, Operation, InstalledRecord
  <2> QED BY <1>2, <2>1, BeginImplements DEF Rollback
<1>3. CASE RetryRecovery
  <2> DEFINE state == IF journal.committed THEN "COMMITTING" ELSE "ROLLING_BACK"
             o == [journal EXCEPT !.state = state]
  <2>1. /\ o.id = journal.id /\ o.state = state /\ o.prev = journal.prev
        /\ o.snap = journal.snap /\ o.committed = journal.committed /\ o.version = journal.version
    BY DEF IInv, TypeOK, Operation
  <2>2. /\ Record(o, "recover", "run", "idle") /\ journal.state = "RECOVERY_REQUIRED"
        /\ UNCHANGED <<runtime, snaps, work>>
    BY <1>3 DEF RetryRecovery
  <2> HIDE DEF o
  <2>3. journal' = o
    BY <2>2, RecordKept
  <2>4. ReleaseInForce' = ReleaseInForce /\ Durable' = Durable
    <3>1. Undecided' <=> Undecided
      BY <2>1, <2>2, <2>3 DEF Undecided, Settled
    <3> QED BY <2>1, <2>2, <2>3, <3>1, DurableStays DEF ReleaseInForce
  <2>5. <<PhaseOf(journal), PhaseOf(journal')>> \in Arrows
    BY <2>1, <2>2, <2>3 DEF PhaseOf, Settled, Arrows
  <2> QED BY <2>4, <2>5, PhaseMoves
<1> QED BY <1>1, <1>2, <1>3 DEF Owner

\* The end of a state's calls: only the entry into COMMITTING changes the
\* release in force, and what survives then is in the data directory.
LEMMA LogImplements ==
    JournalCanFail = FALSE /\ IInv /\ Door /\ Kept /\ Release /\ Log
      => [Atomic!Next]_(Atomic!vars)
<1> SUFFICES ASSUME JournalCanFail = FALSE, IInv, Door, Kept, Release, Log
             PROVE  [Atomic!Next]_(Atomic!vars)
  OBVIOUS
<1> DEFINE next == CASE mode = "run" -> Successor(mem)
                     [] mode = "forward" -> "COMPLETED"
                     [] mode = "back" -> "ROLLED_BACK"
           o == Moved(mem, next)
           call == IF mode = "run" THEN FirstCall(o) ELSE "idle"
<1>1. /\ mem = journal /\ journal \in Operation /\ journal.id \in OpIds
      /\ UNCHANGED <<runtime, snaps, work>>
      /\ pc = "log" /\ mode \in {"run", "forward", "back"}
      /\ mode = "run" => journal.state \in Progress
  BY DEF Log, Kept, Course, Same, IInv, TypeOK, Control, RunCalls, Modes
<1>2. /\ mode = "run" => next = Successor(journal)
      /\ mode = "forward" => next = "COMPLETED" /\ journal.committed
      /\ mode = "back" => next = "ROLLED_BACK" /\ ~journal.committed /\ journal.state = "ROLLING_BACK"
      /\ next \in States
  BY <1>1, SuccessorFacts DEF IInv, Control, States, Progress, PreMutation, Terminal
<1> HIDE DEF next
<1>3. /\ o.id = journal.id /\ o.state = next /\ o.prev = journal.prev /\ o.version = journal.version
      /\ (o.committed <=> journal.committed \/ next = "COMMITTING")
      /\ o.snap =
           (journal.snap \/ (journal.state = "BACKING_UP" /\ next \in {"MIGRATING", "INSTALLING"}))
  BY <1>1, <1>2, MovedFacts, MovedRest
<1>4. CASE ~MayMove(mem, next)
  <2>1. UNCHANGED journal
    BY <1>4 DEF Log, next
  <2> QED BY <1>1, <2>1, Stutters DEF Durable, Undecided, Settled
<1>5. CASE MayMove(mem, next)
  <2>1. Record(o, call, mode, OnError)
    BY <1>5 DEF Log, next
  <2> HIDE DEF o
  <2>2. journal' = o
    BY <2>1, RecordKept
  <2>3. journal.state \notin Terminal \cup {"IDLE"}
    BY <1>1, <1>5 DEF MayMove, Release, Decided
  <2>4. CASE mode = "run" /\ journal.state = "HEALTH_CHECKING"
    <3>1. next = "COMMITTING"
      BY <1>1, <1>2, <2>4 DEF Successor, Operation
    <3>2. /\ ~journal.committed /\ journal.snap
          /\ runtime.writes = snaps[journal.id].writes
      BY <1>1, <2>4 DEF IInv, Link, CommitPoint, Terminal, Kept, Files, Pointed, Course, Exact
    <3>3. Durable' = Durable
      BY <1>1, <1>3, <2>2, <3>2, DurableStays
    <3>4. PhaseOf(journal) = "updating" /\ PhaseOf(journal') = "committed"
      BY <1>3, <2>2, <2>4, <3>1, <3>2 DEF PhaseOf, Settled
    <3>5. journal.version # journal.prev.version
      BY <1>1, <2>4 DEF Release, Choice
    <3>6. ReleaseInForce = journal.prev.version /\ ReleaseInForce' = journal.version
      BY <1>3, <2>2, <3>1, <3>2 DEF ReleaseInForce
    <3>7. journal.version \in Versions
      BY <1>1 DEF Operation
    <3>8. Atomic!Commit
      BY <3>3, <3>4, <3>5, <3>6, <3>7, PhaseIs DEF Atomic!Commit
    <3> QED BY <3>8 DEF Atomic!Next
  <2>5. CASE ~(mode = "run" /\ journal.state = "HEALTH_CHECKING")
    <3>1. next # "COMMITTING"
      BY <1>1, <1>2, <2>5 DEF Successor, Progress, Operation
    <3>2. ReleaseInForce' = ReleaseInForce
      BY <1>3, <2>2, <3>1 DEF ReleaseInForce
    <3>3. Durable' = Durable
      <4>1. CASE mode = "run" /\ journal.state = "BACKING_UP"
        <5>1. runtime.writes = snaps[journal.id].writes
          BY <1>1, <4>1 DEF Kept, Course, Exact
        <5> QED BY <1>1, <1>3, <2>2, <5>1, DurableStays
      <4>2. CASE mode = "run" /\ journal.state # "BACKING_UP"
        <5>1. next = "COMPLETED" => journal.committed
          BY <1>1, <1>2, <4>2, SuccessorFacts DEF IInv, Link, CommitPoint
        <5>2. ~Settled(journal) /\ (Settled(o) => next = "COMPLETED")
          BY <1>1, <1>2, <1>3, <2>3, <4>2, SuccessorFacts DEF Settled, Terminal, Progress
        <5>3. Undecided' <=> Undecided
          BY <1>1, <1>3, <2>2, <3>1, <4>2, <5>1, <5>2 DEF Undecided
        <5> QED BY <1>1, <1>3, <2>2, <5>3, DurableStays
      <4>3. CASE mode # "run"
        <5>1. mode = "back" /\ journal.snap => work.own = "completed"
          BY <1>1 DEF Kept, Course, Undoing
        <5>2. Undecided' <=> Undecided
          BY <1>1, <1>2, <1>3, <2>2, <3>1, <4>3, <5>1 DEF Undecided
        <5> QED BY <1>1, <1>3, <2>2, <5>2, DurableStays
      <4> QED BY <4>1, <4>2, <4>3
    <3>4. <<PhaseOf(journal), PhaseOf(journal')>> \in Arrows
      <4>1. ~Settled(journal) /\ journal.state # "RECOVERY_REQUIRED"
        BY <2>3 DEF Settled, Terminal
      <4>2. next # "RECOVERY_REQUIRED"
        BY <1>1, <1>2, SuccessorFacts DEF Progress
      <4>3. o.committed = journal.committed
        BY <1>1, <1>2, <1>3, <3>1, MovedFacts DEF o, Operation
      <4> QED BY <1>3, <2>2, <4>1, <4>2, <4>3 DEF PhaseOf, Arrows
    <3> QED BY <3>2, <3>3, <3>4, PhaseMoves
  <2> QED BY <2>4, <2>5
<1> QED BY <1>4, <1>5

LEMMA RecoverImplements ==
    JournalCanFail = FALSE /\ IInv /\ Kept /\ Release /\ (Recover \/ GiveUp)
      => [Atomic!Next]_(Atomic!vars)
<1> SUFFICES ASSUME JournalCanFail = FALSE, IInv, Kept, Release, Recover \/ GiveUp
             PROVE  [Atomic!Next]_(Atomic!vars)
  OBVIOUS
<1>1. /\ mem = journal /\ journal \in Operation /\ journal.id \in OpIds
      /\ UNCHANGED <<runtime, snaps, work>>
  BY DEF Recover, GiveUp, Kept, Course, Same, IInv, TypeOK, Control
<1>2. CASE UNCHANGED journal
  BY <1>1, <1>2, Stutters DEF Durable, Undecided, Settled
<1>3. ASSUME NEW st \in {"FAILED", "ROLLING_BACK", "RECOVERY_REQUIRED"},
             journal' = Moved(journal, st), ~Settled(journal),
             journal.state # "RECOVERY_REQUIRED",
             st # "RECOVERY_REQUIRED" => ~journal.committed,
             st = "FAILED" => ~journal.snap
      PROVE  [Atomic!Next]_(Atomic!vars)
  <2>1. st \in States
    BY DEF States, Terminal
  <2>2. /\ journal'.id = journal.id /\ journal'.state = st /\ journal'.prev = journal.prev
        /\ journal'.version = journal.version
        /\ journal'.committed = (journal.committed \/ st = "COMMITTING")
        /\ journal'.snap =
             (journal.snap \/ (journal.state = "BACKING_UP" /\ st \in {"MIGRATING", "INSTALLING"}))
    BY <1>1, <1>3, <2>1, MovedFacts, MovedRest
  <2>3. journal'.committed = journal.committed /\ journal'.snap = journal.snap
    BY <1>1, <2>2 DEF Operation
  <2>4. ReleaseInForce' = ReleaseInForce
    BY <2>2, <2>3 DEF ReleaseInForce
  <2>5. Undecided' <=> Undecided
    BY <1>1, <1>3, <2>2, <2>3 DEF Undecided, Settled
  <2>6. <<PhaseOf(journal), PhaseOf(journal')>> \in Arrows
    BY <1>3, <2>2, <2>3 DEF PhaseOf, Settled, Arrows
  <2> QED BY <1>1, <2>2, <2>4, <2>5, <2>6, DurableStays, PhaseMoves
<1>4. CASE Recover /\ ~journal.committed
  <2>1. ~Settled(journal) /\ journal.state # "RECOVERY_REQUIRED"
    BY <1>1, <1>4 DEF Recover, IInv, TypeOK, Control, Modes, ForwardCalls, BackCalls, Restoring, Kept,
       Course, Same, Settled, Terminal
  <2>2. journal.state \in PreMutation => ~journal.snap
    BY DEF Kept, Files, Pointed
  <2>3. \/ journal' = Moved(journal, "FAILED") /\ journal.state \in PreMutation
        \/ journal' = Moved(journal, "ROLLING_BACK")
    BY <1>1, <1>4, RecordKept DEF Recover
  <2> QED BY <1>3, <1>4, <2>1, <2>2, <2>3
<1>5. CASE GiveUp /\ MayMove(journal, "RECOVERY_REQUIRED")
  <2>1. ~Settled(journal) /\ journal.state # "RECOVERY_REQUIRED"
    BY <1>1, <1>5 DEF MayMove, Terminal, Settled, Release, Decided
  <2>2. journal' = Moved(journal, "RECOVERY_REQUIRED")
    BY <1>1, <1>5, RecordKept DEF GiveUp
  <2> QED BY <1>3, <2>1, <2>2
<1> QED BY <1>1, <1>2, <1>4, <1>5 DEF Recover, GiveUp

\* The calls that write an installed record, a recovery point or the data.
LEMMA OthersImplement ==
    IInv /\ Door /\ Kept
      /\ (Snapshot \/ Commit \/ Open \/ RestoreDisplace \/ RestorePlace \/ RestoreCheck
          \/ RestoreRecord)
      => [Atomic!Next]_(Atomic!vars)
<1> SUFFICES ASSUME IInv, Door, Kept,
                    Snapshot \/ Commit \/ Open \/ RestoreDisplace \/ RestorePlace \/ RestoreCheck
                      \/ RestoreRecord
             PROVE  [Atomic!Next]_(Atomic!vars)
  OBVIOUS
<1> USE DEF Call, GoTo
<1>1. UNCHANGED journal
  BY DEF Snapshot, Commit, Open, RestoreDisplace, RestorePlace, RestoreCheck, RestoreRecord
<1>2. Durable' = Durable
  <2>1. CASE Commit \/ Open \/ RestoreRecord
    BY <2>1 DEF Commit, Open, RestoreRecord, Durable, Undecided, Settled
  <2>2. CASE Snapshot
    <3>1. ~snaps[journal.id].present /\ UNCHANGED <<journal, runtime, work>>
      BY <2>2 DEF Snapshot, Kept, Course, Same
    <3>2. ~Undecided
      BY <3>1 DEF Undecided, Kept, Files, Pointed
    <3> QED BY <3>1, <3>2 DEF Durable, Undecided, Settled
  <2>3. CASE RestoreDisplace \/ RestorePlace \/ RestoreCheck
    <3>1. /\ pc \in Restoring /\ UNCHANGED <<journal, snaps>> /\ pc \in {"displace", "place", "check"}
          /\ RestoreCheck => pc = "check"
      BY <2>3 DEF RestoreDisplace, RestorePlace, RestoreCheck, Restoring
    <3>2. /\ mode \in {"run", "back"} /\ journal.snap /\ ~journal.committed /\ ~Settled(journal)
          /\ mode = "run" => work.own = "none"
      BY <3>1, RestoringFacts
    <3>3. /\ Undecided <=> work.own # "completed"
          /\ Undecided' <=> work'.own # "completed"
      BY <3>1, <3>2 DEF Undecided, Settled
    <3>4. DOMAIN work = {"own", "target"}
      BY DEF IInv, TypeOK
    <3>5. CASE (RestoreCheck /\ mode = "run") \/ RestoreDisplace \/ RestorePlace
      <4>1. work.own # "completed" /\ work'.own # "completed"
        BY <3>1, <3>2, <3>4, <3>5 DEF RestoreCheck, RestoreDisplace, RestorePlace, Key, Door, Moving
      <4> QED BY <3>1, <3>3, <4>1 DEF Durable
    <3>6. CASE RestoreCheck /\ mode = "back"
      <4>1. work.own = "installed" /\ work'.own = "completed" /\ runtime' = runtime
        BY <3>1, <3>4, <3>6 DEF RestoreCheck, Key, Kept, Course, Undoing
      <4>2. runtime.writes = snaps[journal.id].writes
        BY <3>3, <4>1 DEF Kept, Files, PutBack
      <4> QED BY <3>1, <3>3, <4>1, <4>2 DEF Durable
    <3> QED BY <2>3, <3>2, <3>5, <3>6
  <2> QED BY <2>1, <2>2, <2>3
<1> QED BY <1>1, <1>2, Stutters

LEMMA ClientsImplement ==
    IInv /\ Kept /\ (AdminStore \/ \E w \in Writes : BrokerPublish(w))
      => [Atomic!Next]_(Atomic!vars)
<1> SUFFICES ASSUME IInv, Kept, AdminStore \/ \E w \in Writes : BrokerPublish(w)
             PROVE  [Atomic!Next]_(Atomic!vars)
  OBVIOUS
<1>1. UNCHANGED <<journal, snaps, work>>
  BY DEF AdminStore, BrokerPublish, disk
<1>2. CASE \E w \in Writes : BrokerPublish(w)
  <2>1. Durable' = Durable
    BY <1>1, <1>2 DEF BrokerPublish, disk, Durable, Undecided, Settled
  <2> QED BY <1>1, <2>1, Stutters
<1>3. CASE AdminStore
  <2>1. PICK W \in SUBSET Writes : runtime'.writes = runtime.writes \cup W
    BY <1>3 DEF AdminStore, IInv, TypeOK, Data
  <2>2. ~Undecided /\ ~Undecided'
    BY <1>1, <1>3 DEF AdminStore, Kept, Files, Shut, Closed, Undecided, Settled
  <2>3. Durable' = Durable \cup W
    BY <1>1, <2>1, <2>2 DEF Durable
  <2>4. Atomic!ClientWrite(W)
    BY <1>1, <2>3, PhaseIs DEF Atomic!ClientWrite, ReleaseInForce
  <2> QED BY <2>4 DEF Atomic!Next
<1> QED BY <1>2, <1>3

LEMMA StepImplements ==
    JournalCanFail = FALSE /\ IInv /\ Door /\ Kept /\ Release /\ [Next]_vars
      => [Atomic!Next]_(Atomic!vars)
<1> SUFFICES ASSUME JournalCanFail = FALSE, IInv, Door, Kept, Release, [Next]_vars
             PROVE  [Atomic!Next]_(Atomic!vars)
  OBVIOUS
<1>1. CASE Quietly
  BY <1>1, NextInv, QuietlyAside, AsideSteps
<1>2. CASE Owner \/ Log \/ Recover \/ GiveUp
  BY <1>2, OwnerImplements, LogImplements, RecoverImplements
<1>3. CASE Snapshot \/ Commit \/ Open \/ RestoreDisplace \/ RestorePlace \/ RestoreCheck
           \/ RestoreRecord
  BY <1>3, OthersImplement
<1>4. CASE AdminStore \/ \E w \in Writes : BrokerPublish(w)
  BY <1>4, ClientsImplement
<1> QED BY <1>1, <1>2, <1>3, <1>4 DEF Next, Controller, Quietly, Clients

(***************************************************************************)
(* On a disk that takes the journal, the updater implements the atomic     *)
(* update: with its crashes, failing calls, reboots and clients, each step *)
(* leaves the release in force and the surviving changes alone, or is the  *)
(* one step the abstract update takes (controller.py:12-143).              *)
(***************************************************************************)
THEOREM ImplementsAtomic == JournalCanFail = FALSE => (Spec => ImplementsAtomicUpdate)
<1> SUFFICES ASSUME JournalCanFail = FALSE PROVE Spec => ImplementsAtomicUpdate
  OBVIOUS
<1>1. Init => Atomic!Init
  <2> SUFFICES ASSUME Init PROVE Atomic!Init
    OBVIOUS
  <2>1. /\ NoOperation.state = "IDLE" /\ ~NoOperation.snap /\ ~NoOperation.committed
        /\ NoOperation.prev.version = 1
    BY DEF NoOperation, NewOperation, FirstRecord
  <2>2. journal = NoOperation /\ runtime.writes = {}
    BY DEF Init
  <2>3. ReleaseInForce = 1 /\ Phase = "steady" /\ Durable = {}
    BY <2>1, <2>2, PhaseIs DEF PhaseOf, Settled, ReleaseInForce, Durable, Undecided
  <2> QED BY <2>3 DEF Atomic!Init
<1>2. Spec => []Door
  BY DoorInit, DoorInv, Inductive, PTL DEF Spec
<1>3. IInv /\ Door /\ Kept /\ Release /\ [Next]_vars => [Atomic!Next]_(Atomic!vars)
  BY StepImplements
<1> QED
  BY <1>1, <1>2, <1>3, KeptAlways, ReleaseAlways, Inductive, PTL
     DEF Spec, ImplementsAtomicUpdate, Atomic!Spec

-----------------------------------------------------------------------------
(* The steps that write the journal, once for both properties.             *)

\* The record the journal had moves on; the controller is gone or goes on.
Rewritten(st) ==
    /\ st # "IDLE" /\ journal.state \notin {"IDLE", "COMPLETED", "ROLLED_BACK", "FAILED"}
    /\ journal'.id = journal.id /\ journal'.kind = journal.kind /\ journal'.state = st
    /\ journal'.version = journal.version /\ journal'.prev = journal.prev
    /\ hist' \in {hist, [hist EXCEPT ![journal.id] = journal']}
    /\ LetGo \/ UNCHANGED <<source, security>>

\* A transition of install(), of rollback(), or the last one of a recovery.
Advanced(next) ==
    /\ Rewritten(next)
    /\ (journal'.committed <=> journal.committed \/ next = "COMMITTING")
    /\ (journal'.snap <=>
          journal.snap \/ (journal.state = "BACKING_UP" /\ next \in {"MIGRATING", "INSTALLING"}))
    /\ pc = "log" /\ mode \in {"run", "forward", "back"}
    /\ LetGo \/ (mode = "run" /\ mode' = mode /\ pc' = FirstCall(journal'))
    /\ mode = "run" => journal.state \in Progress /\ next = Successor(journal)
    /\ mode = "forward" => next = "COMPLETED" /\ journal.committed
    /\ mode = "back" => next = "ROLLED_BACK" /\ ~journal.committed /\ journal.state = "ROLLING_BACK"

\* Recovery begins, asks the owner, is confirmed by him, or has nothing to undo.
Diverted(st) ==
    /\ Rewritten(st)
    /\ UNCHANGED work
    /\ (journal'.committed <=> journal.committed) /\ (journal'.snap <=> journal.snap)
    /\ \/ st = "FAILED" /\ journal.state \in PreMutation /\ ~journal.committed /\ ~journal.snap
       \/ st = "ROLLING_BACK" /\ ~journal.committed
       \/ st = "RECOVERY_REQUIRED"
       \/ st = "COMMITTING" /\ journal.committed
    /\ \/ LetGo
       \/ mode' = "back" /\ pc' = "maintain"
       \/ mode' = "run" /\ pc' = "recover"

LEMMA RecordGoesOn ==
    ASSUME JournalCanFail = FALSE, NEW o, NEW n, NEW m, NEW e, Record(o, n, m, e)
    PROVE  /\ journal' = o /\ hist' \in {hist, [hist EXCEPT ![o.id] = o]}
           /\ \/ LetGo
              \/ n # "idle" /\ pc' = n /\ mode' = m /\ UNCHANGED <<source, security>>
BY DEF Record, Dies

LEMMA LogAdvances ==
    ASSUME JournalCanFail = FALSE, IInv, Kept, Release, Log
    PROVE  /\ UNCHANGED <<installed, marker, runtime, units, snaps, work, services, logins>>
           /\ \/ /\ UNCHANGED <<journal, hist, mode, source, security>>
                 /\ pc' = OnError /\ mode \in {"run", "forward", "back"}
              \/ \E next \in States : Advanced(next)
<1> DEFINE next == CASE mode = "run" -> Successor(mem)
                     [] mode = "forward" -> "COMPLETED"
                     [] mode = "back" -> "ROLLED_BACK"
           o == Moved(mem, next)
           call == IF mode = "run" THEN FirstCall(o) ELSE "idle"
<1>1. /\ mem = journal /\ journal \in Operation /\ journal.id \in OpIds
      /\ pc = "log" /\ mode \in {"run", "forward", "back"}
      /\ mode = "run" => journal.state \in Progress
  BY DEF Log, Kept, Course, Same, IInv, TypeOK, Control, RunCalls, Modes
<1>2. /\ mode = "run" => next = Successor(journal)
      /\ mode = "forward" => next = "COMPLETED" /\ journal.committed
      /\ mode = "back" => next = "ROLLED_BACK" /\ ~journal.committed /\ journal.state = "ROLLING_BACK"
      /\ next \in States /\ next # "IDLE"
  BY <1>1, SuccessorFacts DEF IInv, Control, States, Progress, PreMutation, Terminal
<1> HIDE DEF next
<1>3. /\ o.id = journal.id /\ o.kind = journal.kind /\ o.state = next
      /\ o.prev = journal.prev /\ o.version = journal.version
      /\ (o.committed <=> journal.committed \/ next = "COMMITTING")
      /\ o.snap = (journal.snap \/ (journal.state = "BACKING_UP" /\ next \in {"MIGRATING", "INSTALLING"}))
  BY <1>1, <1>2, MovedFacts, MovedRest
<1>4. CASE ~MayMove(mem, next)
  BY <1>1, <1>4 DEF Log, GoTo, next
<1>5. CASE MayMove(mem, next)
  <2>1. Record(o, call, mode, OnError)
    BY <1>5 DEF Log, next
  <2>2. journal.state \notin {"IDLE", "COMPLETED", "ROLLED_BACK", "FAILED"}
    BY <1>1, <1>5 DEF MayMove, Terminal, Release, Decided
  <2> HIDE DEF o
  <2>3. Rewritten(next) /\ (LetGo \/ (mode = "run" /\ mode' = mode /\ pc' = FirstCall(journal')))
    BY <1>2, <1>3, <2>1, <2>2, RecordGoesOn DEF Rewritten
  <2>4. Advanced(next)
    BY <1>1, <1>2, <1>3, <2>1, <2>3, RecordGoesOn DEF Advanced
  <2> QED BY <1>2, <2>4 DEF Log
<1> QED BY <1>4, <1>5

LEMMA RecoveryDiverts ==
    ASSUME JournalCanFail = FALSE, IInv, Kept, Release, Recover \/ GiveUp \/ RetryRecovery
    PROVE  /\ UNCHANGED <<installed, marker, runtime, units, snaps, work, services, logins>>
           /\ \/ UNCHANGED <<journal, hist>> /\ LetGo
              \/ /\ UNCHANGED <<journal, hist, source, security>> /\ journal.state = "COMMITTING"
                 /\ mode' = "forward" /\ pc' = "maintain"
              \/ \E st \in States : Diverted(st)
<1>1. UNCHANGED <<installed, marker, runtime, units, snaps, work, services, logins>>
  BY DEF Recover, GiveUp, RetryRecovery
<1>2. ASSUME NEW st \in {"FAILED", "ROLLING_BACK", "RECOVERY_REQUIRED"},
             NEW n, NEW m, NEW e, Record(Moved(journal, st), n, m, e),
             journal.id \in OpIds, journal.state \notin Terminal,
             st = "FAILED" => journal.state \in PreMutation,
             st # "RECOVERY_REQUIRED" => ~journal.committed,
             n = "idle" \/ (n = "maintain" /\ m = "back")
      PROVE  \E s \in States : Diverted(s)
  <2> DEFINE o == Moved(journal, st)
  <2>1. st \in States /\ st # "IDLE" /\ st # "COMMITTING" /\ st \notin {"MIGRATING", "INSTALLING"}
    BY DEF States, Terminal
  <2>2. /\ o.id = journal.id /\ o.kind = journal.kind /\ o.state = st /\ o.prev = journal.prev
        /\ o.version = journal.version /\ (o.committed <=> journal.committed)
        /\ (o.snap <=> journal.snap)
    <3>1. /\ o.id = journal.id /\ o.kind = journal.kind /\ o.state = st /\ o.prev = journal.prev
          /\ o.version = journal.version /\ o.committed = (journal.committed \/ st = "COMMITTING")
          /\ o.snap = (journal.snap \/ (journal.state = "BACKING_UP" /\ st \in {"MIGRATING", "INSTALLING"}))
      <4>1. journal \in Operation
        BY DEF IInv, TypeOK
      <4> QED BY <2>1, <4>1, MovedFacts, MovedRest
    <3> HIDE DEF o
    <3> QED BY <2>1, <3>1
  <2> HIDE DEF o
  <2>3. Record(o, n, m, e)
    BY <1>2 DEF o
  <2>4. journal.state \notin {"IDLE", "COMPLETED", "ROLLED_BACK", "FAILED"}
    BY <1>2 DEF Terminal, Release, Decided
  <2>5. Rewritten(st) /\ (LetGo \/ (mode' = "back" /\ pc' = "maintain"))
    BY <1>2, <2>1, <2>2, <2>3, <2>4, RecordGoesOn DEF Rewritten
  <2>6. st = "FAILED" => ~journal.snap
    BY <1>2 DEF Kept, Files, Pointed
  <2>7. Diverted(st)
    BY <1>1, <1>2, <2>2, <2>3, <2>5, <2>6, RecordGoesOn DEF Diverted
  <2> QED BY <2>1, <2>7
<1>3. CASE Recover
  <2>1. /\ mem = journal /\ journal.id \in OpIds /\ mode = "run" /\ journal.state \notin Terminal
    BY <1>3 DEF Recover, Kept, Course, Same, IInv, TypeOK, Control, Modes, ForwardCalls, BackCalls,
       Restoring
  <2>2. CASE journal.committed
    BY <1>1, <1>3, <2>1, <2>2 DEF Recover, IInv, Link, CommitPoint
  <2>3. CASE ~journal.committed
    <3>1. \/ /\ journal.state \in PreMutation
             /\ Record(Moved(journal, "FAILED"), "idle", "none", "idle")
          \/ Record(Moved(journal, "ROLLING_BACK"), "maintain", "back", "giveup")
      BY <1>3, <2>1, <2>3 DEF Recover
    <3>2. CASE /\ journal.state \in PreMutation
               /\ Record(Moved(journal, "FAILED"), "idle", "none", "idle")
      BY <1>1, <1>2, <2>1, <2>3, <3>2
    <3>3. CASE Record(Moved(journal, "ROLLING_BACK"), "maintain", "back", "giveup")
      BY <1>1, <1>2, <2>1, <2>3, <3>3
    <3> QED BY <3>1, <3>2, <3>3
  <2> QED BY <2>2, <2>3
<1>4. CASE GiveUp
  <2>1. mem = journal /\ journal.id \in OpIds
    BY <1>4 DEF GiveUp, Kept, Course, Same, IInv, TypeOK, Control
  <2>2. CASE ~MayMove(mem, "RECOVERY_REQUIRED")
    BY <1>1, <1>4, <2>2 DEF GiveUp
  <2>3. CASE MayMove(mem, "RECOVERY_REQUIRED")
    <3>1. Record(Moved(journal, "RECOVERY_REQUIRED"), "idle", "none", "idle")
      BY <1>4, <2>1, <2>3 DEF GiveUp
    <3>2. journal.state \notin Terminal
      BY <2>1, <2>3 DEF MayMove
    <3> QED BY <1>1, <1>2, <2>1, <3>1, <3>2
  <2> QED BY <2>2, <2>3
<1>5. CASE RetryRecovery
  <2> DEFINE state == IF journal.committed THEN "COMMITTING" ELSE "ROLLING_BACK"
             o == [journal EXCEPT !.state = state]
  <2>1. /\ o.id = journal.id /\ o.kind = journal.kind /\ o.state = state /\ o.prev = journal.prev
        /\ o.snap = journal.snap /\ o.committed = journal.committed /\ o.version = journal.version
        /\ state \in States /\ state # "IDLE"
    BY DEF IInv, TypeOK, Operation, States
  <2>2. Record(o, "recover", "run", "idle") /\ journal.state = "RECOVERY_REQUIRED"
    BY <1>5 DEF RetryRecovery
  <2> HIDE DEF o
  <2>3. Rewritten(state) /\ (LetGo \/ (mode' = "run" /\ pc' = "recover"))
    BY <2>1, <2>2, RecordGoesOn DEF Rewritten
  <2>4. Diverted(state)
    BY <1>1, <2>1, <2>2, <2>3, RecordGoesOn DEF Diverted
  <2> QED BY <1>1, <2>1, <2>4
<1> QED BY <1>3, <1>4, <1>5

-----------------------------------------------------------------------------
(* A replay counter never goes back.                                       *)

Moves == {"displace", "place", "check", "secure"}

\* The last counter accepted is in the data, or in the recovery point.
Counts ==
    /\ IF Undecided THEN snaps[journal.id].counter = logins ELSE runtime.counter = logins
    /\ runtime.counter <= logins /\ \A i \in OpIds : snaps[i].counter <= logins
    /\ Undecided /\ work.own = "installed" => runtime.counter = logins

\* What a restore read before it moved the data brings the counter back.
Reads ==
    /\ security = Unreadable \/ security <= logins
    /\ mode = "run" =>
         /\ pc \in (Calls \cup {"log"}) \ {"place", "check", "secure"} => runtime.counter = logins
         /\ pc \in Moves => security = logins
         /\ pc = "log" /\ journal.state = "BACKING_UP" => snaps[journal.id].counter = logins

Counted == Counts /\ Reads

LEMMA CountedInit == Init => Counted
<1> SUFFICES ASSUME Init PROVE Counted
  OBVIOUS
<1>1. ~NoOperation.snap
  BY DEF NoOperation, NewOperation
<1> QED
  BY <1>1 DEF Init, Counted, Counts, Reads, Undecided, Gone, OpIds, Calls, Offline, Moves

LEMMA CounterTypes ==
    ASSUME IInv
    PROVE  /\ logins \in Nat /\ logins < Unreadable /\ runtime.counter \in Nat
           /\ \A i \in OpIds : snaps[i].counter \in Nat
           /\ security \in Nat
BY UpdaterAssumption DEF IInv, TypeOK, Data, Unreadable

LEMMA ReadsGone == ASSUME LetGo PROVE Reads'
BY DEF LetGo, Reads

\* Journal writes.
LEMMA JournalCounted ==
    JournalCanFail = FALSE /\ IInv /\ Kept /\ Door /\ Release /\ Counted
      /\ (Owner \/ Log \/ Recover \/ GiveUp) => Counted'
<1> SUFFICES ASSUME JournalCanFail = FALSE, IInv, Kept, Door, Release, Counted,
                    Owner \/ Log \/ Recover \/ GiveUp
             PROVE  Counted'
  OBVIOUS
<1>1. ASSUME NEW st \in States, Advanced(st), UNCHANGED <<runtime, snaps, work, logins>>
      PROVE  Counted'
  <2>1. mode = "run" => /\ runtime.counter = logins
                        /\ journal.state = "BACKING_UP" => snaps[journal.id].counter = logins
    BY <1>1 DEF Advanced, Counted, Reads
  <2>2. mode = "run" =>
          (journal'.snap /\ ~journal'.committed /\ ~Settled(journal') /\ ~Undecided
             => journal.state = "BACKING_UP")
    BY <1>1 DEF Advanced, Rewritten, Undecided, Settled, Door, Fresh
  <2>3. mode # "run" => ~Undecided /\ ~Undecided'
    BY <1>1 DEF Advanced, Rewritten, Undecided, Settled, Kept, Course, Undoing
  <2>4. Counts'
    BY <1>1, <2>1, <2>2, <2>3 DEF Counted, Counts, Undecided, Advanced, Rewritten
  <2>5. mode' = "run" => pc' \notin Moves \cup {"log"}
    <3>1. journal \in Operation /\ journal' \in Operation
      BY <1>1, LogInv, RecoverInv, GiveUpInv, OwnerInv DEF IInv, TypeOK
    <3>2. mode = "run" => journal'.state \in (Progress \cup {"COMPLETED"}) \ {"CHECKING"}
      BY <1>1, <3>1, SuccessorFacts DEF Advanced, Rewritten
    <3>3. mode = "run" => FirstCall(journal') \notin Moves \cup {"log"}
      BY <3>1, <3>2, FirstCallFacts DEF Moves, Progress
    <3>4. LetGo \/ (mode = "run" /\ pc' = FirstCall(journal'))
      BY <1>1 DEF Advanced
    <3> QED BY <3>3, <3>4 DEF LetGo
  <2>6. Reads'
    BY <1>1, <2>1, <2>5 DEF Counted, Reads, Advanced, Rewritten, LetGo, Moves
  <2> QED BY <2>4, <2>6 DEF Counted
<1>2. ASSUME NEW st \in States, Diverted(st), UNCHANGED <<runtime, snaps, work, logins>>
      PROVE  Counted'
  <2>1. Undecided' <=> Undecided
    BY <1>2 DEF Diverted, Rewritten, Undecided, Settled
  <2>2. Counts'
    BY <1>2, <2>1 DEF Counted, Counts, Diverted, Rewritten
  <2>3. Reads'
    BY <1>2 DEF Counted, Reads, Diverted, Rewritten, LetGo, Calls, Offline, Moves
  <2> QED BY <2>2, <2>3 DEF Counted
<1>3. ASSUME UNCHANGED <<journal, runtime, snaps, work, logins>>,
             \/ LetGo
             \/ UNCHANGED security /\ pc' \in {"recover", "giveup", "maintain"} /\ mode' # "run"
             \/ UNCHANGED security /\ pc' \in {"recover", "giveup"}
      PROVE  Counted'
  <2>1. Counts'
    BY <1>3 DEF Counted, Counts, Undecided, Settled
  <2>2. Reads'
    BY <1>3, ReadsGone DEF Counted, Reads, Calls, Offline, Moves
  <2> QED BY <2>1, <2>2 DEF Counted
<1>4. CASE Log
  <2>1. /\ UNCHANGED <<runtime, snaps, work, logins>>
        /\ \/ UNCHANGED <<journal, security>> /\ pc' \in {"recover", "giveup"}
           \/ \E next \in States : Advanced(next)
    BY <1>4, LogAdvances DEF OnError
  <2> QED BY <1>1, <1>3, <2>1
<1>5. CASE Recover \/ GiveUp \/ RetryRecovery
  <2>1. /\ UNCHANGED <<runtime, snaps, work, logins>>
        /\ \/ UNCHANGED journal /\ LetGo
           \/ UNCHANGED <<journal, security>> /\ mode' = "forward" /\ pc' = "maintain"
           \/ \E st \in States : Diverted(st)
    BY <1>5, RecoveryDiverts
  <2> QED BY <1>2, <1>3, <2>1
<1>6. ASSUME NEW k \in {"install", "rollback"}, NEW v \in Versions,
             Begin(NewOperation(ops + 1, k, v, installed))
      PROVE  Counted'
  <2> DEFINE o == NewOperation(ops + 1, k, v, installed)
  <2>1. o.state = "CHECKING" /\ ~o.snap
    BY DEF NewOperation
  <2>2. FirstCall(o) \in {"resolve", "verify_snapshot"}
    BY DEF NewOperation, FirstCall
  <2>3. Begin(o)
    BY <1>6
  <2> HIDE DEF o
  <2>4. /\ journal' = o /\ Settled(journal) /\ UNCHANGED <<runtime, snaps, logins, security>>
        /\ pc' \in {"idle", "resolve", "verify_snapshot"}
    BY <2>2, <2>3 DEF Begin, MayBegin, Settled, Terminal
  <2>5. ~Undecided /\ ~Undecided'
    BY <2>1, <2>4 DEF Undecided
  <2> QED BY <2>1, <2>4, <2>5 DEF Counted, Counts, Reads, Calls, Moves
<1>7. ASSUME NEW i \in OpIds, Rollback(i) PROVE Counted'
  <2>1. hist[i].prev.version \in Versions
    BY DEF IInv, TypeOK, Operation, InstalledRecord
  <2> QED BY <1>6, <1>7, <2>1 DEF Rollback
<1>8. ASSUME NEW v \in Versions, Install(v) PROVE Counted'
  BY <1>6, <1>8 DEF Install
<1> QED BY <1>4, <1>5, <1>7, <1>8 DEF Owner

\* The calls and the outside that leave the counter alone.
LEMMA CountsStay ==
    ASSUME Counts, UNCHANGED <<journal, snaps, work, logins>>, runtime'.counter = runtime.counter
    PROVE  Counts'
BY DEF Counts, Undecided, Settled

Elsewhere == Clients \/ Resume \/ Supervisor \/ BrokerSave \/ BrokerRestart \/ Crash \/ Reboot
             \/ UNCHANGED vars \/ \E s \in Services : BootStart(s)

LEMMA LaunchCounter ==
    ASSUME IInv, NEW s \in Services, Launch(s) PROVE runtime'.counter = runtime.counter
BY DEF Launch, IInv, TypeOK, Data

LEMMA ElsewhereCounted == IInv /\ Kept /\ Counted /\ Elsewhere => Counted'
<1> SUFFICES ASSUME IInv, Kept, Counted, Elsewhere PROVE Counted'
  OBVIOUS
<1> USE DEF disk, services, locals, ghosts
<1>1. CASE Login
  <2>1. /\ logins' = logins + 1 /\ runtime'.counter = logins + 1 /\ ~marker
        /\ UNCHANGED <<journal, snaps, work, locals>>
    BY <1>1 DEF Login, IInv, TypeOK, Data
  <2>2. ~Undecided /\ ~Undecided' /\ ~PastStop
    BY <2>1 DEF Kept, Files, Shut, Closed, Course, Undecided, Settled
  <2>3. Counts'
    BY <2>1, <2>2, CounterTypes DEF Counted, Counts
  <2>4. Reads'
    BY <2>1, <2>2, CounterTypes DEF Counted, Reads, PastStop, Offline, Moves
  <2> QED BY <2>3, <2>4 DEF Counted
<1>2. CASE ~Login
  <2>1. UNCHANGED <<journal, snaps, work, logins>> /\ runtime'.counter = runtime.counter
    <3>1. ASSUME NEW s \in Services, BootStart(s) PROVE runtime'.counter = runtime.counter
      BY <3>1, LaunchCounter DEF BootStart
    <3>2. CASE AdminStore \/ \E w \in Writes : BrokerPublish(w)
      BY <3>2 DEF AdminStore, BrokerPublish, IInv, TypeOK, Data
    <3>3. CASE \E s \in Services : BootStart(s)
      BY <3>1, <3>3 DEF BootStart
    <3>4. CASE SupervisorRestart \/ BrokerSave
      BY <3>4, SaveFacts DEF SupervisorRestart, BrokerSave
    <3> QED
      BY <1>2, <3>2, <3>3, <3>4 DEF Elsewhere, Clients, AdminAdmit, Resume, Supervisor,
         SupervisorRecord, BrokerRestart, Crash, Reboot, Dies, vars
  <2>2. \/ UNCHANGED locals
        \/ LetGo
        \/ pc' \in {"open", "recover"} /\ security' = security /\ (mode' = "run" => pc' = "recover")
    BY <1>2 DEF Elsewhere, Clients, AdminAdmit, AdminStore, BrokerPublish, Resume, Supervisor,
       SupervisorRecord, SupervisorRestart, BrokerSave, BrokerRestart, Crash, Reboot, Dies, vars,
       BootStart
  <2>3. Reads'
    BY <2>1, <2>2, ReadsGone DEF Counted, Reads, Calls, Offline, Moves
  <2> QED BY <2>1, <2>3, CountsStay DEF Counted
<1> QED BY <1>1, <1>2

PlainCall ==
    \/ Check \/ Maintain \/ Prepare \/ StopAdmin \/ StopBroker \/ Recheck \/ Health \/ Migrate
    \/ Acknowledge \/ Fail \/ Commit \/ Open \/ RestoreRecord
    \/ \E s \in Services : Activate(s) \/ RestoreUnit(s) \/ Start(s)

LEMMA PlainCounted == IInv /\ Kept /\ Counted /\ PlainCall => Counted'
<1> SUFFICES ASSUME IInv, Kept, Counted, PlainCall PROVE Counted'
  OBVIOUS
<1> USE DEF Call, GoTo, disk, services, locals, ghosts
<1>1. UNCHANGED <<journal, snaps, work, logins>> /\ runtime'.counter = runtime.counter
  <2>1. ASSUME NEW s \in Services, Start(s) PROVE runtime'.counter = runtime.counter
    BY <2>1, LaunchCounter DEF Start
  <2>2. CASE Migrate
    BY <2>2 DEF Migrate, IInv, TypeOK, Data
  <2>3. CASE \E s \in Services : Start(s)
    BY <2>1, <2>3 DEF Start
  <2>4. CASE StopBroker
    BY <2>4, SaveFacts DEF StopBroker
  <2> QED
    BY <2>2, <2>3, <2>4 DEF PlainCall, Check, Maintain, Prepare, StopAdmin, Recheck, Health,
       Acknowledge, Fail, Commit, Open, RestoreRecord, Activate, RestoreUnit
<1>2. Reads'
  <2>1. CASE LetGo
    BY <2>1, ReadsGone
  <2>2. CASE Fail /\ ~LetGo
    BY <1>1, <2>2 DEF Fail, OnError, Counted, Reads, Calls, Offline, Moves
  <2>3. CASE ~Fail /\ ~LetGo
    <3>1. pc \in Calls /\ mem = journal /\ UNCHANGED <<mode, security>>
      <4>1. pc \in Calls /\ UNCHANGED <<mode, security>>
        BY <2>3 DEF PlainCall, Check, Maintain, Prepare, StopAdmin, StopBroker, Recheck, Health,
           Migrate, Acknowledge, Commit, Open, RestoreRecord, Activate, RestoreUnit, Start, Calls, Offline
      <4> QED BY <4>1 DEF Kept, Course, Same, Calls, Offline
    <3>2. mode = "run" =>
            /\ pc \notin {"displace", "place", "check", "secure"} /\ pc' \notin Moves
            /\ pc' = "log" => journal.state # "BACKING_UP"
      BY <2>3, <3>1 DEF PlainCall, Check, Maintain, Prepare, StopAdmin, StopBroker, Recheck, Health,
         Migrate, Acknowledge, Commit, Open, RestoreRecord, Activate, RestoreUnit, Start, Moves,
         IInv, Control, RunCalls, Restoring
    <3> QED BY <1>1, <3>1, <3>2 DEF Counted, Reads
  <2> QED BY <2>1, <2>2, <2>3
<1> QED BY <1>1, <1>2, CountsStay DEF Counted

\* The recovery point is made, and the data is replaced by one.
LEMMA DataCounted ==
    IInv /\ Door /\ Kept /\ Counted
      /\ (Snapshot \/ RestoreBegin \/ RestoreDisplace \/ RestorePlace \/ RestoreCheck
          \/ RestoreSecure) => Counted'
<1> SUFFICES ASSUME IInv, Door, Kept, Counted,
                    Snapshot \/ RestoreBegin \/ RestoreDisplace \/ RestorePlace \/ RestoreCheck
                      \/ RestoreSecure
             PROVE  Counted'
  OBVIOUS
<1> USE DEF Call, GoTo, disk, services, locals, ghosts
<1>1. mem = journal /\ journal.id \in OpIds /\ journal' = journal /\ UNCHANGED <<mode, logins>>
  BY DEF Snapshot, RestoreBegin, RestoreDisplace, RestorePlace, RestoreCheck, RestoreSecure, Kept,
     Course, Same, IInv, Control
<1>2. CASE Snapshot
  <2>1. /\ ~snaps[journal.id].present /\ UNCHANGED <<runtime, work, security>>
        /\ snaps' = [snaps EXCEPT ![journal.id] = [runtime EXCEPT !.touched = FALSE]]
        /\ pc = "snapshot" /\ pc' = "log" /\ runtime \in Data
    BY <1>1, <1>2 DEF Snapshot, IInv, TypeOK
  <2>2. /\ snaps'[journal.id].counter = runtime.counter
        /\ \A i \in OpIds \ {journal.id} : snaps'[i] = snaps[i]
    BY <1>1, <2>1 DEF IInv, TypeOK, Data
  <2>3. ~Undecided /\ ~Undecided'
    BY <1>1, <2>1 DEF Undecided, Settled, Kept, Files, Pointed
  <2>4. mode = "run"
    BY <2>1 DEF IInv, TypeOK, Control, Modes, ForwardCalls, BackCalls, Restoring
  <2>5. Counts' /\ runtime.counter = logins
    BY <1>1, <2>1, <2>2, <2>3 DEF Counted, Counts
  <2> QED BY <1>1, <2>1, <2>2, <2>4, <2>5 DEF Counted, Reads, Moves
<1>3. CASE ~Snapshot
  <2>1. /\ pc \in Restoring /\ UNCHANGED snaps /\ mode \in {"run", "back"}
        /\ journal.snap /\ ~journal.committed /\ ~Settled(journal)
        /\ (pc \notin {"place", "restore"} => runtime.present)
        /\ mode = "run" => work.own = "none" /\ source \in OpIds
    <3>1. pc \in Restoring /\ UNCHANGED snaps
      BY <1>3 DEF RestoreBegin, RestoreDisplace, RestorePlace, RestoreCheck, RestoreSecure, Restoring
    <3> QED BY <3>1, RestoringFacts
  <2>2. /\ Undecided <=> work.own # "completed"
        /\ Undecided' <=> work'.own # "completed"
    BY <1>1, <2>1 DEF Undecided, Settled
  <2>3. DOMAIN work = {"own", "target"} /\ runtime \in Data
    BY DEF IInv, TypeOK
  <2>4. CASE RestoreBegin
    <3>1. /\ UNCHANGED <<runtime, work>> /\ pc = "restore" /\ pc' \in Moves
          /\ security' = IF runtime.present THEN runtime.counter ELSE Unreadable
      BY <2>4 DEF RestoreBegin, Moves
    <3>2. mode = "run" => runtime.present /\ runtime.counter = logins
      BY <3>1 DEF Door, Absent, Counted, Reads, Calls, Offline
    <3>3. security' = Unreadable \/ security' <= logins
      BY <3>1 DEF Counted, Counts
    <3>4. Reads'
      BY <1>1, <3>1, <3>2, <3>3 DEF Counted, Reads, Moves
    <3> QED BY <1>1, <2>1, <3>1, <3>4, CountsStay DEF Counted
  <2>5. CASE RestoreDisplace
    <3>1. /\ runtime' = Gone /\ UNCHANGED <<work, security>> /\ pc = "displace" /\ pc' = "place"
          /\ work.own = "none"
      BY <2>5 DEF RestoreDisplace, Door, Moving
    <3>2. Counts'
      BY <1>1, <2>1, <2>2, <3>1, CounterTypes DEF Counted, Counts, Gone
    <3> QED BY <1>1, <3>1, <3>2 DEF Counted, Reads, Moves
  <2>6. CASE RestorePlace
    <3>1. /\ runtime' = Point /\ UNCHANGED security /\ pc = "place" /\ pc' = "check"
          /\ work' = [work EXCEPT ![Key] = "installed"] /\ work.own = "none"
      BY <2>6 DEF RestorePlace, Door, Moving
    <3>2. /\ work'.own = IF mode = "back" THEN "installed" ELSE "none"
          /\ Point.counter <= logins
          /\ mode = "back" => Point = snaps[journal.id]
      BY <1>1, <2>1, <2>3, <3>1 DEF Key, Point, Counted, Counts
    <3>3. Counts'
      BY <1>1, <2>1, <2>2, <3>1, <3>2 DEF Counted, Counts
    <3> QED BY <1>1, <3>1, <3>3 DEF Counted, Reads, Moves
  <2>7. CASE RestoreCheck
    <3>1. /\ runtime' = runtime /\ UNCHANGED security /\ pc = "check" /\ pc' = "secure"
          /\ work' = [work EXCEPT ![Key] = "completed"]
      BY <2>7 DEF RestoreCheck
    <3>2. /\ mode = "back" => work.own = "installed" /\ work'.own = "completed"
          /\ mode = "run" => work'.own = "none"
      BY <1>1, <2>1, <2>3, <3>1 DEF Key, Kept, Course, Undoing
    <3>3. Counts'
      BY <1>1, <2>1, <2>2, <3>1, <3>2 DEF Counted, Counts
    <3> QED BY <1>1, <3>1, <3>3 DEF Counted, Reads, Moves
  <2>8. CASE RestoreSecure
    <3>1. /\ UNCHANGED <<work, security>> /\ pc = "secure" /\ pc' = "unit_admin"
          /\ runtime'.counter = IF security # Unreadable /\ security > runtime.counter THEN security
                                ELSE runtime.counter
      BY <2>3, <2>8 DEF RestoreSecure, Data
    <3>2. /\ runtime.counter \in Nat /\ logins \in Nat /\ security \in Nat
          /\ logins < Unreadable /\ Unreadable \in Nat
      BY CounterTypes, UpdaterAssumption DEF Unreadable
    <3>3. runtime'.counter <= logins /\ (runtime.counter = logins => runtime'.counter = logins)
      BY <3>1, <3>2 DEF Counted, Counts, Reads
    <3>4. mode = "run" => runtime'.counter = logins
      <4>1. mode = "run" => security = logins
        BY <3>1 DEF Counted, Reads, Moves
      <4>2. runtime.counter <= logins
        BY DEF Counted, Counts
      <4> QED BY <3>1, <3>2, <4>1, <4>2
    <3>5. Counts'
      BY <1>1, <2>1, <2>2, <3>1, <3>3 DEF Counted, Counts
    <3> QED BY <1>1, <3>1, <3>4, <3>5 DEF Counted, Reads, Moves
  <2> QED BY <1>3, <2>4, <2>5, <2>6, <2>7, <2>8
<1> QED BY <1>2, <1>3

LEMMA CountedInv ==
    JournalCanFail = FALSE /\ IInv /\ Door /\ Kept /\ Release /\ Counted /\ [Next]_vars => Counted'
BY JournalCounted, ElsewhereCounted, PlainCounted, DataCounted
   DEF Next, Controller, Elsewhere, PlainCall

LEMMA EndedAlways == JournalCanFail = FALSE => (Spec => [](IInv /\ Door /\ Kept /\ Release))
<1> SUFFICES ASSUME JournalCanFail = FALSE PROVE Spec => [](IInv /\ Door /\ Kept /\ Release)
  OBVIOUS
<1>1. Spec => []Door
  BY DoorInit, DoorInv, Inductive, PTL DEF Spec
<1> QED BY <1>1, KeptAlways, ReleaseAlways, Inductive, PTL

(***************************************************************************)
(* On a disk that takes the journal, while Admin accepts logins the stored *)
(* replay counter is the last one it accepted, whatever was restored in    *)
(* between, in one go or resumed after deaths (host.py:283-301).           *)
(***************************************************************************)
THEOREM CounterKept == JournalCanFail = FALSE => (Spec => []ReplayCounterKept)
<1> SUFFICES ASSUME JournalCanFail = FALSE PROVE Spec => []ReplayCounterKept
  OBVIOUS
<1>1. IInv /\ Door /\ Kept /\ Release /\ Counted /\ [Next]_vars => Counted'
  BY CountedInv
<1>2. Kept /\ Counted => ReplayCounterKept
  BY DEF Kept, Files, Shut, Closed, Counted, Counts, ReplayCounterKept
<1> QED BY <1>1, <1>2, CountedInit, EndedAlways, PTL DEF Spec
-----------------------------------------------------------------------------
(* An operation that ended has one release in force everywhere.            *)

Uniform(r) == r.images = [s \in Services |-> r.version]

Fits(v) == runtime.schema = Schema[v] /\ \A s \in Services : units[s].version = v

\* Every installed record is about one release, as image_ids() found it.
OneRelease ==
    Uniform(installed) /\ Uniform(journal.prev) /\ \A i \in OpIds : Uniform(hist[i].prev)

\* A service that runs was started from the unit that is there.
Ran == \A s \in Services : running[s] # 0 => running[s] = units[s].version

\* Past the commit point, and before the first mutation, data and units fit the
\* release in force.
InUse ==
    /\ journal.committed => Fits(journal.version)
    /\ ~journal.committed /\ (~journal.snap \/ Settled(journal)) => Fits(journal.prev.version)

\* The marker is there only while something may be unfinished.
Gates ==
    /\ (Settled(journal) \/ journal.state \in PreMutation) => ~marker
    /\ pc = "ack" => ~marker
    /\ pc = "log" /\ (mode # "run" \/ journal.state = "COMMITTING") => ~marker
    /\ mode = "forward" => journal.state = "COMMITTING"

\* The release the running chain of calls leads to.
Aim == IF mode = "back" THEN journal.prev.version ELSE journal.version

BothUnits ==
    \/ pc = "reinstate"
    \/ mode = "back" /\ pc \in {"start_broker", "start_admin", "health", "open", "ack", "log"}
    \/ mode = "run" /\ pc \in {"start_broker", "start_admin", "health"}
    \/ mode = "run" /\ pc = "log" /\ journal.state \in {"INSTALLING", "STARTING", "HEALTH_CHECKING"}

Examined ==
    \/ mode = "back" /\ pc \in {"open", "ack", "log"}
    \/ mode = "run" /\ pc = "log" /\ journal.state = "HEALTH_CHECKING"

\* What the chain has put in place so far.
Placed ==
    /\ pc \in {"activate_broker", "unit_broker"} => units["admin"].version = Aim
    /\ BothUnits => \A s \in Services : units[s].version = Aim
    /\ Examined => runtime.schema = Schema[Aim]
    /\ mode = "run" /\ journal.kind = "rollback" /\ pc \in Calls \cup {"log"} =>
         hist[source].prev.version = journal.version

Consistent == OneRelease /\ Ran /\ InUse /\ Gates /\ Placed

LEMMA ConsistentInit == Init => Consistent
<1> SUFFICES ASSUME Init PROVE Consistent
  OBVIOUS
<1>1. /\ ~NoOperation.snap /\ ~NoOperation.committed /\ NoOperation.prev = FirstRecord
      /\ FirstRecord.version = 1 /\ FirstRecord.images = [s \in Services |-> 1]
  BY DEF NoOperation, NewOperation, FirstRecord
<1>2. OneRelease /\ Ran
  BY <1>1 DEF Init, OneRelease, Uniform, Ran, FirstUnits
<1>3. InUse /\ Gates /\ Placed
  BY <1>1 DEF Init, InUse, Fits, FirstUnits, Gates, Placed, BothUnits, Examined, Calls, Offline
<1> QED BY <1>2, <1>3 DEF Consistent

\* The controller is gone: its chain asks for nothing.
LEMMA PlacedGone == ASSUME LetGo PROVE Placed'
BY DEF LetGo, Placed, BothUnits, Examined, Calls, Offline

LEMMA GatesGone ==
    ASSUME Gates, LetGo, UNCHANGED <<journal, marker>> PROVE Gates'
BY DEF Gates, LetGo, Settled

\* A step that leaves the records and the units, and the schema to what the
\* unit of Admin needs, keeps what is in use.
LEMMA InUseStays ==
    ASSUME OneRelease, InUse, UNCHANGED <<journal, hist, installed, units>>,
           runtime'.schema \in {runtime.schema, Schema[units["admin"].version]}
    PROVE  OneRelease' /\ InUse'
<1>1. OneRelease'
  BY DEF OneRelease, Uniform
<1>2. ASSUME NEW v, Fits(v) PROVE Fits(v)'
  BY <1>2 DEF Fits, Services
<1>3. InUse'
  BY <1>2 DEF InUse, Settled
<1> QED BY <1>1, <1>3

LEMMA PlacedStays ==
    ASSUME Placed, UNCHANGED <<journal, hist, units, pc, mode, source>>,
           runtime'.schema \in {runtime.schema, Schema[units["admin"].version]}
    PROVE  Placed'
<1>1. Examined => BothUnits
  BY DEF Examined, BothUnits
<1> QED BY <1>1 DEF Placed, BothUnits, Examined, Aim, Services

\* Journal writes.
LEMMA JournalConsistent ==
    JournalCanFail = FALSE /\ IInv /\ Kept /\ Door /\ Release /\ Consistent
      /\ (Owner \/ Log \/ Recover \/ GiveUp) => Consistent'
<1> SUFFICES ASSUME JournalCanFail = FALSE, IInv, Kept, Door, Release, Consistent,
                    Owner \/ Log \/ Recover \/ GiveUp
             PROVE  Consistent'
  OBVIOUS
<1> DEFINE Frame == UNCHANGED <<installed, marker, runtime, units, running>>
<1>1. ASSUME Frame, journal.id \in OpIds, Uniform(journal'.prev),
             hist' \in {hist, [hist EXCEPT ![journal'.id] = journal']}
      PROVE  OneRelease' /\ Ran'
  <2>1. \A i \in OpIds : hist'[i].prev \in {journal'.prev, hist[i].prev}
    BY <1>1 DEF IInv, TypeOK
  <2>2. OneRelease'
    BY <1>1, <2>1 DEF Consistent, OneRelease
  <2>3. Ran'
    BY <1>1 DEF Consistent, Ran
  <2> QED BY <2>2, <2>3
<1>2. ASSUME NEW st \in States, Advanced(st), Frame PROVE Consistent'
  <2>1. journal \in Operation /\ journal' \in Operation /\ journal.id \in OpIds
    <3>1. IInv'
      BY LogInv, RecoverInv, GiveUpInv, OwnerInv
    <3> QED BY <1>2, <3>1 DEF IInv, TypeOK, Link, Advanced, Rewritten
  <2>2. OneRelease' /\ Ran'
    BY <1>1, <1>2, <2>1 DEF Advanced, Rewritten, Consistent, OneRelease
  <2>3. InUse'
    <3>1. CASE mode = "run" /\ journal.state = "HEALTH_CHECKING"
      <4>1. Fits(journal.version) /\ st = "COMMITTING"
        BY <1>2, <2>1, <3>1 DEF Consistent, Placed, BothUnits, Examined, Aim, Fits, Advanced, Successor,
           Operation
      <4> QED BY <1>2, <4>1 DEF InUse, Fits, Advanced, Rewritten
    <3>2. CASE mode = "run" /\ journal.state # "HEALTH_CHECKING"
      <4>1. st # "COMMITTING" /\ (st = "COMPLETED" => journal.committed)
            /\ st \in Progress \cup {"COMPLETED"}
        <5>1. mode = "run" => journal.state \in Progress /\ st = Successor(journal)
          BY <1>2 DEF Advanced
        <5>2. st # "COMMITTING"
          BY <2>1, <3>2, <5>1 DEF Successor, Progress, Operation
        <5>3. st = "COMPLETED" => journal.committed
          BY <2>1, <3>2, <5>1, SuccessorFacts DEF IInv, Link, CommitPoint
        <5> QED BY <2>1, <3>2, <5>1, <5>2, <5>3, SuccessorFacts
      <4> QED BY <1>2, <4>1 DEF Consistent, InUse, Fits, Settled, Progress, Advanced, Rewritten
    <3>3. CASE mode = "forward"
      BY <1>2, <3>3 DEF Consistent, InUse, Fits, Advanced, Rewritten
    <3>4. CASE mode = "back"
      <4>1. Fits(journal.prev.version)
        BY <1>2, <3>4 DEF Consistent, Placed, BothUnits, Examined, Aim, Fits, Advanced
      <4> QED BY <1>2, <3>4, <4>1 DEF InUse, Fits, Advanced, Rewritten
    <3> QED BY <1>2, <3>1, <3>2, <3>3, <3>4 DEF Advanced
  <2>4. Gates'
    <3>1. Settled(journal') \/ journal'.state \in PreMutation => ~marker
      <4>1. CASE mode = "run"
        <5>1. journal.state \in Progress /\ st = Successor(journal) /\ journal'.state = st
              /\ pc = "log"
          BY <1>2, <4>1 DEF Advanced, Rewritten
        <5>2. st \in PreMutation => journal.state \in PreMutation
          BY <2>1, <5>1 DEF Successor, Progress, PreMutation, Operation
        <5>3. Settled(journal') => journal.state = "COMMITTING"
          BY <2>1, <5>1, SuccessorFacts DEF Settled, Progress
        <5> QED BY <4>1, <5>1, <5>2, <5>3 DEF Consistent, Gates
      <4>2. CASE mode # "run"
        BY <1>2, <4>2 DEF Consistent, Gates, Advanced
      <4> QED BY <4>1, <4>2
    <3>2. pc' \notin {"ack", "log"} /\ mode' # "forward"
      <4>1. CASE LetGo
        BY <4>1 DEF LetGo
      <4>2. CASE mode = "run" /\ mode' = mode /\ pc' = FirstCall(journal')
        <5>1. journal'.state \in Progress \cup {"COMPLETED"}
          BY <1>2, <2>1, <4>2, SuccessorFacts DEF Advanced, Rewritten
        <5>2. FirstCall(journal') \notin {"ack", "log"}
          BY <2>1, <5>1, FirstCallFacts DEF Progress
        <5> QED BY <4>2, <5>2
      <4> QED BY <1>2, <4>1, <4>2 DEF Advanced
    <3> QED BY <1>2, <3>1, <3>2 DEF Gates
  <2>5. Placed'
    <3>1. CASE LetGo
      BY <3>1, PlacedGone
    <3>2. CASE ~LetGo
      <4>1. /\ mode = "run" /\ mode' = mode /\ pc' = FirstCall(journal') /\ source' = source
            /\ journal.state \in Progress /\ st = Successor(journal) /\ pc = "log"
            /\ journal'.state = st /\ journal'.version = journal.version
            /\ journal'.kind = journal.kind
        BY <1>2, <3>2 DEF Advanced, Rewritten
      <4>2. st \in (Progress \cup {"COMPLETED"}) \ {"CHECKING"}
        BY <2>1, <4>1, SuccessorFacts
      <4>3. /\ pc' \notin {"activate_broker", "unit_broker", "reinstate", "start_admin", "log"}
            /\ pc' = "start_broker" => journal.state = "INSTALLING"
            /\ pc' = "health" => journal.state = "STARTING"
        <5>1. /\ st = "STARTING" => journal.state = "INSTALLING"
              /\ st = "HEALTH_CHECKING" => journal.state = "STARTING"
          BY <2>1, <4>1 DEF Successor, Progress, Operation
        <5> QED BY <2>1, <4>1, <4>2, <5>1, FirstCallFacts DEF Progress
      <4>4. BothUnits' => \A s \in Services : units'[s].version = journal.version
        BY <1>2, <4>1, <4>3 DEF BothUnits, Consistent, Placed, Aim
      <4>5. ~Examined'
        BY <4>1, <4>3 DEF Examined
      <4>6. journal.kind = "rollback" => hist'[source].prev.version = journal.version
        <5> SUFFICES ASSUME journal.kind = "rollback" PROVE hist'[source].prev.version = journal.version
          OBVIOUS
        <5>1. mem = journal /\ source \in OpIds /\ journal.prev.op = source
          BY <4>1 DEF Kept, Course, Same, Rolling, IInv, Control, RunCalls
        <5>2. source # journal.id
          BY <2>1, <5>1, UpdaterAssumption DEF Release, Lineage, Older, OpIds, Operation
        <5>3. hist'[source] = hist[source]
          BY <1>2, <5>1, <5>2 DEF Advanced, Rewritten, IInv, TypeOK
        <5> QED BY <4>1, <5>3 DEF Consistent, Placed
      <4> QED BY <4>1, <4>3, <4>4, <4>5, <4>6 DEF Placed, Aim
    <3> QED BY <3>1, <3>2
  <2> QED BY <2>2, <2>3, <2>4, <2>5 DEF Consistent
<1>3. ASSUME NEW st \in States, Diverted(st), Frame PROVE Consistent'
  <2>1. journal.id \in OpIds
    BY <1>3 DEF Diverted, Rewritten, IInv, Link
  <2>2. OneRelease' /\ Ran'
    BY <1>1, <1>3, <2>1 DEF Diverted, Rewritten, Consistent, OneRelease
  <2>3. InUse'
    BY <1>3 DEF Consistent, InUse, Fits, Settled, Diverted, Rewritten
  <2>4. Gates' /\ Placed'
    BY <1>3 DEF Consistent, Gates, Placed, BothUnits, Examined, Settled, PreMutation, Diverted, Rewritten,
       LetGo, Calls, Offline
  <2> QED BY <2>2, <2>3, <2>4 DEF Consistent
<1>4. ASSUME Frame, UNCHANGED <<journal, hist>>,
             \/ LetGo
             \/ pc' \in {"recover", "giveup", "maintain"}
                /\ (mode' = "forward" => journal.state = "COMMITTING")
                /\ (pc' = "maintain" => mode' = "forward")
      PROVE  Consistent'
  <2>1. OneRelease' /\ Ran' /\ InUse'
    BY <1>4, InUseStays DEF Consistent, Ran
  <2>2. Gates' /\ Placed'
    BY <1>4 DEF Consistent, Gates, Placed, BothUnits, Examined, Settled, LetGo, Calls, Offline
  <2> QED BY <2>1, <2>2 DEF Consistent
<1>5. CASE Log
  <2>1. /\ Frame
        /\ \/ UNCHANGED <<journal, hist, mode>> /\ pc' \in {"recover", "giveup"}
           \/ \E next \in States : Advanced(next)
    BY <1>5, LogAdvances DEF OnError, services
  <2>2. mode = "forward" => journal.state = "COMMITTING"
    BY DEF Consistent, Gates
  <2> QED BY <1>2, <1>4, <2>1, <2>2
<1>6. CASE Recover \/ GiveUp \/ RetryRecovery
  <2>1. /\ Frame
        /\ \/ UNCHANGED <<journal, hist>> /\ LetGo
           \/ /\ UNCHANGED <<journal, hist>> /\ journal.state = "COMMITTING"
              /\ mode' = "forward" /\ pc' = "maintain"
           \/ \E st \in States : Diverted(st)
    BY <1>6, RecoveryDiverts DEF services
  <2> QED BY <1>3, <1>4, <2>1
<1>7. ASSUME NEW k \in {"install", "rollback"}, NEW v \in Versions,
             Begin(NewOperation(ops + 1, k, v, installed)),
             k = "rollback" /\ pc' # "idle" =>
               source' \in OpIds /\ source' # ops + 1 /\ hist[source'].prev.version = v
      PROVE  Consistent'
  <2> DEFINE o == NewOperation(ops + 1, k, v, installed)
  <2>1. /\ o.id = ops + 1 /\ o.kind = k /\ o.state = "CHECKING" /\ ~o.committed /\ ~o.snap
        /\ o.prev = installed /\ o.version = v
    BY DEF NewOperation
  <2>2. FirstCall(o) \in {"resolve", "verify_snapshot"}
    BY DEF NewOperation, FirstCall
  <2>3. Begin(o)
    BY <1>7
  <2> HIDE DEF o
  <2>4. /\ journal' = o /\ hist' \in {hist, [hist EXCEPT ![o.id] = o]} /\ Frame /\ Settled(journal)
        /\ \/ pc' = FirstCall(o) /\ mode' = "run"
           \/ pc' = "idle" /\ mode' = "none"
    BY <2>3 DEF Begin, MayBegin, Settled, Terminal, services, IInv, Control
  <2>5. Fits(installed.version)
    <3>1. CASE journal.committed
      <4>1. ReleaseInForce = journal.version
        BY <3>1 DEF ReleaseInForce
      <4> QED BY <2>4, <3>1, <4>1, InForceInstalled DEF Consistent, InUse
    <3>2. CASE ~journal.committed
      BY <2>4, <3>2 DEF Consistent, InUse, Release, Decided
    <3> QED BY <3>1, <3>2
  <2>6. OneRelease' /\ Ran'
    <3>1. \A i \in OpIds : hist'[i].prev \in {installed, hist[i].prev}
      BY <2>1, <2>4 DEF IInv, TypeOK
    <3>2. OneRelease'
      BY <2>1, <2>4, <3>1 DEF Consistent, OneRelease
    <3>3. Ran'
      BY <2>4 DEF Consistent, Ran
    <3> QED BY <3>2, <3>3
  <2>7. InUse'
    BY <2>1, <2>4, <2>5 DEF InUse, Fits
  <2>8. Gates'
    BY <2>1, <2>2, <2>4 DEF Consistent, Gates
  <2>9. Placed'
    <3>1. ~BothUnits' /\ ~Examined' /\ pc' \notin {"activate_broker", "unit_broker"}
      BY <2>2, <2>4 DEF BothUnits, Examined
    <3>2. ASSUME mode' = "run", k = "rollback" PROVE hist'[source'].prev.version = v
      <4>1. source' \in OpIds /\ source' # ops + 1 /\ hist[source'].prev.version = v
        BY <1>7, <2>2, <2>4, <3>2
      <4> QED BY <2>1, <2>4, <4>1 DEF IInv, TypeOK
    <3> QED BY <2>1, <2>4, <3>1, <3>2 DEF Placed
  <2> QED BY <2>6, <2>7, <2>8, <2>9 DEF Consistent
<1>8. ASSUME NEW i \in OpIds, Rollback(i) PROVE Consistent'
  <2>1. hist[i].prev.version \in Versions
    BY DEF IInv, TypeOK, Operation, InstalledRecord
  <2>2. i # ops + 1
    <3>1. hist[i].state = "COMPLETED" /\ journal.id = ops
      BY <1>8 DEF Rollback, RollbackAdmits, Release, Lineage
    <3>2. i <= ops
      BY <3>1 DEF Release, Lineage
    <3>3. ops \in Nat /\ i \in Nat
      BY UpdaterAssumption DEF IInv, TypeOK, OpIds
    <3> QED BY <3>2, <3>3
  <2> QED BY <1>7, <1>8, <2>1, <2>2 DEF Rollback
<1>9. ASSUME NEW v \in Versions, Install(v) PROVE Consistent'
  BY <1>7, <1>9 DEF Install
<1> QED BY <1>5, <1>6, <1>8, <1>9 DEF Owner

LEMMA LaunchSchema ==
    ASSUME IInv, NEW s \in Services, Launch(s)
    PROVE  /\ runtime'.schema \in {runtime.schema, Schema[units["admin"].version]}
           /\ running' \in {running, [running EXCEPT ![s] = units[s].version]}
BY DEF Launch, IInv, TypeOK, Data

LEMMA ElsewhereConsistent == IInv /\ Kept /\ Consistent /\ Elsewhere => Consistent'
<1> SUFFICES ASSUME IInv, Kept, Consistent, Elsewhere PROVE Consistent'
  OBVIOUS
<1> USE DEF disk, services, locals, ghosts
<1>1. ASSUME NEW s \in Services, BootStart(s)
      PROVE  /\ runtime'.schema \in {runtime.schema, Schema[units["admin"].version]}
             /\ running' \in {running, [running EXCEPT ![s] = units[s].version]}
  BY <1>1, LaunchSchema DEF BootStart
<1>2. /\ UNCHANGED <<journal, hist, installed, marker, units>>
      /\ runtime'.schema \in {runtime.schema, Schema[units["admin"].version]}
      /\ \A s \in Services : running'[s] \in {0, running[s], units[s].version}
  <2>1. CASE \E s \in Services : BootStart(s)
    <3>1. PICK s \in Services : BootStart(s)
      BY <2>1
    <3>2. running' \in {running, [running EXCEPT ![s] = units[s].version]}
      BY <1>1, <3>1
    <3> QED BY <1>1, <3>1, <3>2 DEF BootStart, IInv, TypeOK
  <2>2. CASE Login \/ AdminStore \/ \E w \in Writes : BrokerPublish(w)
    BY <2>2 DEF Login, AdminStore, BrokerPublish, IInv, TypeOK, Data
  <2>3. CASE \/ (\E w \in Writes : AdminAdmit(w)) \/ Resume \/ SupervisorRecord \/ BrokerRestart
             \/ Crash \/ Reboot \/ UNCHANGED vars
    BY <2>3 DEF AdminAdmit, Resume, SupervisorRecord, BrokerRestart, Crash, Reboot, Dies, vars
  <2>4. CASE SupervisorRestart \/ BrokerSave
    BY <2>4, SaveFacts DEF SupervisorRestart, BrokerSave
  <2> QED BY <2>1, <2>2, <2>3, <2>4 DEF Elsewhere, Clients, Supervisor
<1>3. OneRelease' /\ InUse'
  BY <1>2, InUseStays DEF Consistent
<1>4. Ran'
  BY <1>2 DEF Consistent, Ran
<1>5. \/ UNCHANGED locals
      \/ LetGo
      \/ pc' \in {"open", "recover"} /\ mode' \in {"done", "run"}
  BY DEF Elsewhere, Clients, AdminAdmit, AdminStore, BrokerPublish, Login, Resume, Supervisor,
     SupervisorRecord, SupervisorRestart, BrokerSave, BrokerRestart, Crash, Reboot, Dies, vars,
     BootStart
<1>6. Gates'
  BY <1>2, <1>5 DEF Consistent, Gates, LetGo, Settled
<1>7. Placed'
  <2>1. CASE UNCHANGED locals
    BY <1>2, <2>1, PlacedStays DEF Consistent
  <2>2. CASE LetGo
    BY <2>2, PlacedGone
  <2>3. CASE Resume
    BY <2>3 DEF Resume, Placed, BothUnits, Examined, Calls, Offline
  <2> QED
    BY <2>1, <2>2, <2>3 DEF Elsewhere, Clients, AdminAdmit, AdminStore, BrokerPublish, Login,
       Supervisor, SupervisorRecord, SupervisorRestart, BrokerSave, BrokerRestart, Crash, Reboot,
       Dies, vars, BootStart
<1> QED BY <1>3, <1>4, <1>6, <1>7 DEF Consistent

\* Where the calls are made that replace data and units.
LEMMA ReplacingFacts ==
    ASSUME IInv, Door, Kept, pc \in {"migrate", "activate_admin", "activate_broker"} \cup Restoring
    PROVE  /\ mem = journal /\ mode \in {"run", "back"}
           /\ journal.snap /\ ~journal.committed /\ ~Settled(journal)
           /\ pc \notin Restoring =>
                mode = "run" /\ journal.state = IF pc = "migrate" THEN "MIGRATING" ELSE "INSTALLING"
<1>1. CASE pc \in Restoring
  BY <1>1, RestoringFacts
<1>2. CASE pc \notin Restoring
  <2>1. pc \in {"migrate", "activate_admin", "activate_broker"}
    BY <1>2
  <2>2. mode = "run" /\ mem = journal
    BY <2>1, <1>2 DEF IInv, TypeOK, Control, Modes, ForwardCalls, BackCalls, Kept, Course, Same
  <2>3. journal.state = IF pc = "migrate" THEN "MIGRATING" ELSE "INSTALLING"
    BY <2>1, <2>2 DEF IInv, Control, RunCalls
  <2> QED
    BY <1>2, <2>2, <2>3 DEF Kept, Files, Pointed, Settled, IInv, Link, CommitPoint, Terminal
<1> QED BY <1>1, <1>2

ACall ==
    PlainCall \/ Snapshot \/ RestoreBegin \/ RestoreDisplace \/ RestorePlace \/ RestoreCheck
      \/ RestoreSecure

\* Only maintenance() writes and removes the marker.
LEMMA CallGates == IInv /\ Kept /\ Consistent /\ ACall => Gates'
<1> SUFFICES ASSUME IInv, Kept, Consistent, ACall PROVE Gates'
  OBVIOUS
<1> USE DEF Call, GoTo, disk, services, locals, ghosts
<1>1. UNCHANGED journal
  BY DEF ACall, PlainCall, Check, Maintain, Prepare, StopAdmin, StopBroker, Recheck, Health, Migrate,
     Acknowledge, Fail, Commit, Open, RestoreRecord, Activate, RestoreUnit, Start, Snapshot,
     RestoreBegin, RestoreDisplace, RestorePlace, RestoreCheck, RestoreSecure
<1>2. CASE Maintain
  <2>1. /\ mem = journal /\ pc = "maintain" /\ mode' = mode
        /\ pc' \in {"prepare", "stop_admin", "start_broker"}
    BY <1>2 DEF Maintain, Kept, Course, Same
  <2>2. journal.state \in {"STOPPING", "COMMITTING", "ROLLING_BACK"}
    BY <2>1 DEF IInv, TypeOK, Control, RunCalls, Modes, Consistent, Gates
  <2> QED BY <1>1, <2>1, <2>2 DEF Consistent, Gates, Settled, PreMutation
<1>3. CASE Open
  BY <1>1, <1>3 DEF Open, Consistent, Gates
<1>4. CASE Acknowledge
  BY <1>1, <1>4 DEF Acknowledge, LetGo, Consistent, Gates, Settled
<1>5. CASE Fail
  BY <1>1, <1>5 DEF Fail, OnError, LetGo, Consistent, Gates, Settled
<1>6. CASE ~Maintain /\ ~Open /\ ~Acknowledge /\ ~Fail
  <2>1. pc \in Calls /\ pc # "ack" /\ UNCHANGED <<marker, mode>> /\ pc' # "ack"
    <3>1. CASE Health
      BY <3>1 DEF Health, Calls, IInv, TypeOK, Control, Modes
    <3>2. CASE RestoreBegin
      BY <3>2 DEF RestoreBegin, Calls, Offline
    <3>3. CASE ~Health /\ ~RestoreBegin
      BY <1>6, <3>3 DEF ACall, PlainCall, Check, Prepare, StopAdmin, StopBroker, Recheck, Migrate,
         Commit, RestoreRecord, Activate, RestoreUnit, Start, Snapshot, RestoreDisplace,
         RestorePlace, RestoreCheck, RestoreSecure, Calls, Offline
    <3> QED BY <3>1, <3>2, <3>3
  <2>2. mem = journal
    BY <2>1 DEF Kept, Course, Same, Calls, Offline
  <2>3. pc' = "log" => mode = "run" /\ journal.state # "COMMITTING"
    <3>1. CASE Health
      <4>1. mode \in {"run", "forward", "back"} /\ (mode = "run" => journal.state = "HEALTH_CHECKING")
        BY <2>2, <3>1 DEF Health, IInv, TypeOK, Control, RunCalls, Modes
      <4> QED BY <3>1, <4>1 DEF Health
    <3>2. CASE RestoreBegin
      BY <3>2 DEF RestoreBegin
    <3>3. CASE ~Health /\ ~RestoreBegin
      BY <1>6, <2>2, <3>3 DEF ACall, PlainCall, Check, Prepare, StopAdmin, StopBroker, Recheck, Migrate,
         Commit, RestoreRecord, Activate, RestoreUnit, Start, Snapshot, RestoreDisplace,
         RestorePlace, RestoreCheck, RestoreSecure, IInv, TypeOK, Control, RunCalls, Modes,
         ForwardCalls, BackCalls, Restoring
    <3> QED BY <3>1, <3>2, <3>3
  <2> QED BY <1>1, <2>1, <2>3 DEF Consistent, Gates, Settled
<1> QED BY <1>2, <1>3, <1>4, <1>5, <1>6

\* Calls that write neither units nor records, nor replace the data.
LEMMA MildConsistent ==
    IInv /\ Kept /\ Consistent
      /\ (Check \/ Maintain \/ Prepare \/ StopAdmin \/ StopBroker \/ Recheck \/ Health \/ Acknowledge
          \/ Fail \/ Open \/ Snapshot \/ RestoreBegin \/ RestoreCheck \/ RestoreSecure
          \/ \E s \in Services : Start(s)) => Consistent'
<1> SUFFICES ASSUME IInv, Kept, Consistent,
                    Check \/ Maintain \/ Prepare \/ StopAdmin \/ StopBroker \/ Recheck \/ Health
                      \/ Acknowledge \/ Fail \/ Open \/ Snapshot \/ RestoreBegin \/ RestoreCheck
                      \/ RestoreSecure \/ \E s \in Services : Start(s)
             PROVE  Consistent'
  OBVIOUS
<1> USE DEF Call, GoTo, disk, services, locals, ghosts
<1>1. Gates'
  BY CallGates DEF ACall, PlainCall
<1>2. ASSUME NEW s \in Services, Start(s)
      PROVE  /\ runtime'.schema \in {runtime.schema, Schema[units["admin"].version]}
             /\ running' \in {running, [running EXCEPT ![s] = units[s].version]}
  BY <1>2, LaunchSchema DEF Start
<1>3. /\ UNCHANGED <<journal, hist, installed, units>>
      /\ runtime'.schema \in {runtime.schema, Schema[units["admin"].version]}
      /\ \A s \in Services : running'[s] \in {0, running[s], units[s].version}
      /\ ~(\E s \in Services : Start(s)) => runtime'.schema = runtime.schema
  <2>1. CASE \E s \in Services : Start(s)
    <3>1. PICK s \in Services : Start(s)
      BY <2>1
    <3>2. running' \in {running, [running EXCEPT ![s] = units[s].version]}
      BY <1>2, <3>1
    <3> QED BY <1>2, <2>1, <3>1, <3>2 DEF Start, IInv, TypeOK
  <2>2. CASE RestoreSecure
    BY <2>2 DEF RestoreSecure, IInv, TypeOK, Data
  <2>3. CASE StopAdmin \/ StopBroker
    BY <2>3, SaveFacts DEF StopAdmin, StopBroker, IInv, TypeOK
  <2>4. CASE Check \/ Maintain \/ Prepare \/ Recheck \/ Health \/ Acknowledge \/ Fail \/ Open
             \/ Snapshot \/ RestoreBegin \/ RestoreCheck
    BY <2>4 DEF Check, Maintain, Prepare, Recheck, Health, Acknowledge, Fail, Open, Snapshot,
       RestoreBegin, RestoreCheck
  <2> QED BY <2>1, <2>2, <2>3, <2>4
<1>4. OneRelease' /\ InUse'
  BY <1>3, InUseStays DEF Consistent
<1>5. Ran'
  BY <1>3 DEF Consistent, Ran
<1>6. Placed'
  <2>1. CASE LetGo
    BY <2>1, PlacedGone
  <2>2. CASE Fail /\ ~LetGo
    BY <2>2 DEF Fail, OnError, Placed, BothUnits, Examined, Calls, Offline
  <2>3. CASE ~Fail /\ ~LetGo
    <3>1. pc \in Calls /\ pc \notin {"activate_admin", "unit_admin"} /\ UNCHANGED <<mode, source>>
          /\ mem = journal
      <4>1. pc \in Calls /\ pc \notin {"activate_admin", "unit_admin"} /\ UNCHANGED <<mode, source>>
        BY <2>3 DEF Check, Maintain, Prepare, StopAdmin, StopBroker, Recheck, Health, Acknowledge, Open,
           Snapshot, RestoreBegin, RestoreCheck, RestoreSecure, Start, Calls, Offline
      <4> QED BY <4>1 DEF Kept, Course, Same, Calls, Offline
    <3>2. Aim' = Aim
      BY <1>3, <3>1 DEF Aim
    <3>3. pc' \notin {"activate_broker", "unit_broker", "reinstate"}
      <4>1. CASE Health
        BY <4>1 DEF Health, IInv, TypeOK, Control, Modes, Calls, Offline
      <4>2. CASE ~Health
        BY <2>3, <4>2 DEF Check, Maintain, Prepare, StopAdmin, StopBroker, Recheck, Acknowledge, Open,
           Snapshot, RestoreBegin, RestoreCheck, RestoreSecure, Start
      <4> QED BY <4>1, <4>2
    <3>4. BothUnits' => BothUnits \/ (mode = "back" /\ ~journal.snap /\ ~journal.committed)
      <4>1. CASE mode = "run"
        BY <1>3, <2>3, <3>1, <3>3, <4>1 DEF Check, Maintain, Prepare, StopAdmin, StopBroker, Recheck,
           Health, Acknowledge, Open, Snapshot, RestoreBegin, RestoreCheck, RestoreSecure, Start,
           BothUnits, IInv, Control, RunCalls, Restoring
      <4>2. CASE mode = "back"
        <5>1. ~journal.committed /\ pc \in BackCalls
          BY <3>1, <4>2 DEF IInv, Control, Calls, Offline
        <5> QED
          BY <1>3, <2>3, <3>1, <3>3, <4>2, <5>1 DEF Check, Maintain, Prepare, StopAdmin, StopBroker, Recheck,
             Health, Acknowledge, Open, Snapshot, RestoreBegin, RestoreCheck, RestoreSecure, Start,
             BothUnits, BackCalls, Restoring
      <4>3. CASE mode \notin {"run", "back"}
        BY <3>1, <3>3, <4>3 DEF BothUnits
      <4> QED BY <4>1, <4>2, <4>3
    <3>5. mode = "back" /\ ~journal.snap /\ ~journal.committed =>
            \A s \in Services : units[s].version = Aim
      BY DEF Consistent, InUse, Fits, Aim
    <3>6. BothUnits' => \A s \in Services : units'[s].version = Aim
      BY <1>3, <3>4, <3>5 DEF Consistent, Placed
    <3>7. Examined' => Examined \/ Health
      <4>1. CASE mode = "run"
        BY <1>3, <2>3, <3>1, <4>1 DEF Check, Maintain, Prepare, StopAdmin, StopBroker, Recheck,
           Health, Acknowledge, Open, Snapshot, RestoreBegin, RestoreCheck, RestoreSecure, Start,
           Examined, IInv, Control, RunCalls, Restoring
      <4>2. CASE mode = "back"
        <5>1. ~journal.committed /\ pc \in BackCalls
          BY <3>1, <4>2 DEF IInv, Control, Calls, Offline
        <5> QED
          BY <1>3, <2>3, <3>1, <4>2, <5>1 DEF Check, Maintain, Prepare, StopAdmin, StopBroker, Recheck,
             Health, Acknowledge, Open, Snapshot, RestoreBegin, RestoreCheck, RestoreSecure, Start,
             Examined, BackCalls, Restoring
      <4>3. CASE mode \notin {"run", "back"}
        BY <3>1, <4>3 DEF Examined
      <4> QED BY <4>1, <4>2, <4>3
    <3>8. Examined' => runtime'.schema = Schema[Aim]
      <4>1. CASE Examined
        <5>1. BothUnits
          BY <4>1 DEF Examined, BothUnits
        <5> QED BY <1>3, <4>1, <5>1 DEF Consistent, Placed, Services
      <4>2. CASE Health
        BY <3>1, <4>2 DEF Health, HealthOf, Healthy, Aim
      <4> QED BY <3>7, <4>1, <4>2
    <3> QED BY <1>3, <3>1, <3>2, <3>3, <3>6, <3>8 DEF Consistent, Placed
  <2> QED BY <2>1, <2>2, <2>3
<1> QED BY <1>1, <1>4, <1>5, <1>6 DEF Consistent

\* The data is replaced: while it is, nothing says it fits.
LEMMA DataConsistent ==
    IInv /\ Door /\ Kept /\ Consistent /\ (Migrate \/ RestoreDisplace \/ RestorePlace) => Consistent'
<1> SUFFICES ASSUME IInv, Door, Kept, Consistent, Migrate \/ RestoreDisplace \/ RestorePlace
             PROVE  Consistent'
  OBVIOUS
<1> USE DEF Call, GoTo, disk, services, locals, ghosts
<1>1. Gates'
  BY CallGates DEF ACall, PlainCall
<1>2. /\ pc \in {"migrate"} \cup Restoring
      /\ UNCHANGED <<journal, hist, installed, units, running, mode, source>>
      /\ \/ pc = "migrate" /\ pc' = "log"
         \/ pc \in Restoring /\ pc' \in {"place", "check"}
  BY DEF Migrate, RestoreDisplace, RestorePlace, Restoring
<1>3. /\ mem = journal /\ mode \in {"run", "back"}
      /\ journal.snap /\ ~journal.committed /\ ~Settled(journal)
      /\ pc = "migrate" => mode = "run" /\ journal.state = "MIGRATING"
  BY <1>2, ReplacingFacts DEF Restoring
<1>4. OneRelease' /\ Ran'
  BY <1>2 DEF Consistent, OneRelease, Ran
<1>5. InUse'
  BY <1>2, <1>3 DEF InUse, Settled
<1>6. ~BothUnits' /\ ~Examined' /\ pc' \notin {"activate_broker", "unit_broker"}
  BY <1>2, <1>3 DEF BothUnits, Examined
<1>7. pc \in Calls
  BY <1>2 DEF Calls, Offline, Restoring
<1>8. Placed'
  BY <1>2, <1>6, <1>7 DEF Consistent, Placed
<1> QED BY <1>1, <1>4, <1>5, <1>8 DEF Consistent

\* One unit after the other, while both services are down.
LEMMA UnitsConsistent ==
    IInv /\ Door /\ Kept /\ Release /\ OfflineWhileReplacing /\ Consistent
      /\ (\E s \in Services : Activate(s) \/ RestoreUnit(s)) => Consistent'
<1> SUFFICES ASSUME IInv, Door, Kept, Release, OfflineWhileReplacing, Consistent,
                    NEW s \in Services, Activate(s) \/ RestoreUnit(s)
             PROVE  Consistent'
  OBVIOUS
<1> USE DEF Call, GoTo, disk, services, locals, ghosts
<1>1. Gates'
  BY CallGates DEF ACall, PlainCall
<1>2. /\ UNCHANGED <<journal, hist, installed, runtime, running, mode, source>>
      /\ \/ pc = "activate_admin" /\ pc' = "activate_broker" /\ s = "admin" /\ Activate(s)
         \/ pc = "activate_broker" /\ pc' = "log" /\ s = "broker" /\ Activate(s)
         \/ pc = "unit_admin" /\ pc' = "unit_broker" /\ s = "admin" /\ RestoreUnit(s)
         \/ pc = "unit_broker" /\ pc' = "reinstate" /\ s = "broker" /\ RestoreUnit(s)
  BY DEF Activate, RestoreUnit, Services
<1>3. /\ mem = journal /\ mode \in {"run", "back"}
      /\ journal.snap /\ ~journal.committed /\ ~Settled(journal)
      /\ Activate(s) => mode = "run" /\ journal.state = "INSTALLING"
  BY <1>2, ReplacingFacts DEF Restoring, Activate
<1>4. Quiescent
  BY <1>2 DEF OfflineWhileReplacing, Offline
<1>5. OneRelease' /\ Ran'
  BY <1>2, <1>4 DEF Consistent, OneRelease, Ran, Quiescent
<1>6. InUse'
  BY <1>2, <1>3 DEF InUse, Settled
<1>7. units'[s].version = Aim /\ \A t \in Services \ {s} : units'[t] = units[t]
  <2>1. CASE Activate(s)
    BY <1>3, <2>1 DEF Activate, Aim, IInv, TypeOK
  <2>2. CASE RestoreUnit(s)
    <3>1. /\ units'[s].version = Reinstated.images[s]
          /\ \A t \in Services \ {s} : units'[t] = units[t]
      BY <2>2 DEF RestoreUnit, IInv, TypeOK
    <3>2. Uniform(Reinstated) /\ Reinstated.version = Aim
      <4>1. CASE mode = "run"
        <5>1. source \in OpIds /\ journal.kind = "rollback" /\ pc \in Calls \cup {"log"}
          BY <1>2, <2>2, <4>1, RestoringFacts DEF Restoring, RestoreUnit, Calls, Offline
        <5> QED BY <4>1, <5>1 DEF Reinstated, Aim, Consistent, OneRelease, Placed
      <4>2. CASE mode = "back"
        BY <1>3, <4>2 DEF Reinstated, Aim, Consistent, OneRelease
      <4> QED BY <1>3, <4>1, <4>2
    <3> QED BY <3>1, <3>2 DEF Uniform
  <2> QED BY <2>1, <2>2
<1>8. Aim' = Aim /\ pc \in Calls
  BY <1>2 DEF Aim, Calls, Offline
<1>9. pc' # "activate_broker" /\ pc' # "unit_broker" => \A t \in Services : units'[t].version = Aim
  BY <1>2, <1>7 DEF Consistent, Placed, Services
<1>10. ~Examined' /\ (BothUnits' => pc' \notin {"activate_broker", "unit_broker"})
  BY <1>2, <1>3 DEF Examined, BothUnits
<1>11. Placed'
  BY <1>2, <1>7, <1>8, <1>9, <1>10 DEF Consistent, Placed
<1> QED BY <1>1, <1>5, <1>6, <1>11 DEF Consistent

\* The installed record is written.
LEMMA RecordConsistent ==
    IInv /\ Door /\ Kept /\ Release /\ Consistent /\ (Commit \/ RestoreRecord) => Consistent'
<1> SUFFICES ASSUME IInv, Door, Kept, Release, Consistent, Commit \/ RestoreRecord PROVE Consistent'
  OBVIOUS
<1> USE DEF Call, GoTo, disk, services, locals, ghosts
<1>1. Gates'
  BY CallGates DEF ACall, PlainCall
<1>2. UNCHANGED <<journal, hist, runtime, units, running, mode, source>>
  BY DEF Commit, RestoreRecord
<1>3. Ran' /\ InUse'
  BY <1>2 DEF Consistent, Ran, InUse, Fits, Settled
<1>4. Uniform(installed')
  <2>1. CASE Commit
    <3>1. pc = "commit" /\ mem = journal
      BY <2>1 DEF Commit, Kept, Course, Same
    <3>2. journal.committed
      BY <3>1 DEF IInv, TypeOK, Control, RunCalls, Modes, BackCalls, Restoring, Link, CommitPoint
    <3>3. \A s \in Services : InForce(s) = journal.version
      BY <3>2 DEF Consistent, Ran, InUse, Fits, InForce
    <3>4. installed' = installed \/
            (/\ installed'.version = journal.version
             /\ installed'.images = [s \in Services |-> InForce(s)])
      BY <2>1, <3>1 DEF Commit
    <3>5. [s \in Services |-> InForce(s)] = [s \in Services |-> journal.version]
      BY <3>3
    <3> QED BY <3>4, <3>5 DEF Consistent, OneRelease, Uniform
  <2>2. CASE RestoreRecord
    <3>1. pc \in Restoring /\ installed' = Reinstated
      BY <2>2 DEF RestoreRecord, Restoring
    <3>2. Uniform(Reinstated)
      BY <3>1, RestoringFacts DEF Reinstated, Consistent, OneRelease
    <3> QED BY <3>1, <3>2
  <2> QED BY <2>1, <2>2
<1>5. OneRelease'
  BY <1>2, <1>4 DEF Consistent, OneRelease
<1>6. Placed'
  <2>1. CASE Commit
    <3>1. pc = "commit" /\ pc' = "open" /\ mode # "back" /\ pc \in Calls
      BY <2>1 DEF Commit, IInv, Control, BackCalls, Restoring, Calls
    <3> QED BY <1>2, <3>1 DEF Consistent, Placed, BothUnits, Examined
  <2>2. CASE RestoreRecord
    <3>1. /\ pc = "reinstate" /\ pc \in Calls /\ pc' = IF mode = "run" THEN "log" ELSE "start_broker"
          /\ mode \in {"run", "back"}
      BY <2>2, ReplacingFacts DEF RestoreRecord, Calls, Offline, Restoring
    <3>2. mode = "run" => journal.state = "INSTALLING"
      BY <3>1, RestoringFacts DEF Restoring
    <3>3. BothUnits
      BY <3>1 DEF BothUnits
    <3>4. ~Examined' /\ Aim' = Aim
      BY <1>2, <3>1, <3>2 DEF Examined, Aim
    <3> QED BY <1>2, <3>1, <3>3, <3>4 DEF Consistent, Placed
  <2> QED BY <2>1, <2>2
<1> QED BY <1>1, <1>3, <1>5, <1>6 DEF Consistent

LEMMA ConsistentInv ==
    JournalCanFail = FALSE /\ IInv /\ Door /\ Kept /\ Release /\ OfflineWhileReplacing /\ Consistent
      /\ [Next]_vars => Consistent'
BY JournalConsistent, ElsewhereConsistent, MildConsistent, DataConsistent, UnitsConsistent,
   RecordConsistent DEF Next, Controller, Elsewhere

(***************************************************************************)
(* On a disk that takes the journal, an operation that ended left one      *)
(* release in force everywhere: installed record, both units and schema,   *)
(* the new one if it completed and the previous one otherwise, and the     *)
(* gate is open (controller.py:12-48, 115-143; host.py:275-366).           *)
(***************************************************************************)
THEOREM EndsConsistent == JournalCanFail = FALSE => (Spec => []SettledIsConsistent)
<1> SUFFICES ASSUME JournalCanFail = FALSE PROVE Spec => []SettledIsConsistent
  OBVIOUS
<1>1. IInv /\ Door /\ Kept /\ Release /\ OfflineWhileReplacing /\ Consistent /\ [Next]_vars
        => Consistent'
  BY ConsistentInv
<1>2. ASSUME IInv, Kept, Release, Consistent PROVE SettledIsConsistent
  <2>1. journal.state = "COMPLETED" =>
          installed.op = journal.id /\ installed.version = journal.version
    BY <1>2 DEF Kept, Files, AllNamed, Release, Lineage
  <2>2. installed.images = [s \in Services |-> installed.version]
    BY <1>2 DEF Consistent, OneRelease, Uniform
  <2>3. journal.state \in {"ROLLED_BACK", "FAILED"} => installed = journal.prev
    BY <1>2 DEF Release, Decided, Settled
  <2>4. Settled(journal) => Fits(installed.version)
    <3>1. CASE journal.committed
      <4>1. ReleaseInForce = journal.version
        BY <3>1 DEF ReleaseInForce
      <4> QED BY <1>2, <3>1, <4>1, InForceInstalled DEF Consistent, InUse
    <3>2. CASE ~journal.committed
      BY <1>2, <3>2 DEF Consistent, InUse, Release, Decided
    <3> QED BY <3>1, <3>2
  <2>5. Settled(journal) => ~marker
    BY <1>2 DEF Consistent, Gates
  <2> QED BY <2>1, <2>2, <2>3, <2>4, <2>5 DEF SettledIsConsistent, Fits
<1> QED BY <1>1, <1>2, ConsistentInit, EndedAlways, ReplacesOffline, PTL DEF Spec
=============================================================================
