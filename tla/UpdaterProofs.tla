---------------------------- MODULE UpdaterProofs ----------------------------
(***************************************************************************)
(* Proofs about Updater for every value of its constants: the inductive    *)
(* invariant and, on top of it, the properties that hold on every disk.    *)
(***************************************************************************)
EXTENDS Updater, TLAPS

-----------------------------------------------------------------------------
(* The inductive invariant of type correctness.  TypeOK is not inductive   *)
(* by itself: which record a step writes, and which call comes next,       *)
(* depend on where the controller stands.                                  *)

\* The journal states install() and rollback() go through.
Progress == {"CHECKING", "DOWNLOADING", "VERIFYING", "PREPARING", "STOPPING", "BACKING_UP",
             "MIGRATING", "INSTALLING", "STARTING", "HEALTH_CHECKING", "COMMITTING"}

\* The calls of restore().
Restoring == {"restore", "displace", "place", "check", "secure", "unit_admin", "unit_broker",
              "reinstate"}

ForwardCalls == {"maintain", "start_broker", "start_admin", "health", "commit", "open", "ack"}
BackCalls == {"maintain", "stop_admin", "stop_broker", "start_broker", "start_admin", "health",
              "open", "ack"} \cup Restoring

\* The journal state in which install() and rollback() make each call.
RunCalls ==
    /\ pc \in {"resolve", "verify_snapshot"} => mem.state = "CHECKING"
    /\ pc = "download" => mem.state = "DOWNLOADING"
    /\ pc = "verify_images" => mem.state = "VERIFYING"
    /\ pc = "preflight" => mem.state = "PREPARING"
    /\ pc \in {"maintain", "prepare", "stop_admin", "stop_broker", "recheck"} => mem.state = "STOPPING"
    /\ pc = "snapshot" => mem.state = "BACKING_UP"
    /\ pc = "migrate" => mem.state = "MIGRATING"
    /\ pc \in {"activate_admin", "activate_broker"} \cup Restoring => mem.state = "INSTALLING"
    /\ pc \in {"start_broker", "start_admin"} => mem.state = "STARTING"
    /\ pc = "health" => mem.state = "HEALTH_CHECKING"
    /\ pc \in {"commit", "open", "ack"} => mem.state = "COMMITTING"
    /\ pc = "log" => mem.state \in Progress
    /\ pc \in Restoring \cup {"verify_snapshot", "recheck"} => mem.kind = "rollback"
    /\ pc = "resolve" => mem.kind = "install"
    /\ pc \in Calls \cup {"log"} /\ mem.kind = "rollback" => source \in OpIds

\* Where the controller stands in each of its chains.
Control ==
    /\ pc = "idle" <=> mode = "none"
    /\ pc # "idle" => mem.id \in OpIds
    /\ mode = "run" => RunCalls
    /\ mode = "forward" => mem.committed /\ pc \in ForwardCalls \cup {"log", "giveup"}
    /\ mode = "back" =>
         /\ ~mem.committed /\ pc \in BackCalls \cup {"log", "giveup"}
         /\ pc # "giveup" => mem.state = "ROLLING_BACK"
    /\ mode = "done" => pc \in {"open", "ack"} /\ mem.state = "COMPLETED"

CommitPoint(o) ==
    /\ o.committed => o.state \in {"COMMITTING"} \cup Terminal
    /\ o.state \in {"COMMITTING", "COMPLETED"} => o.committed

\* The in-memory record and the one on disk.
Link ==
    /\ CommitPoint(journal) /\ CommitPoint(mem)
    /\ journal.state # "IDLE" => journal.id \in OpIds
    /\ journal.id <= ops
    /\ pc # "idle" => mem.id = journal.id /\ (journal.committed => mem.committed)

\* mosquitto has listeners exactly while the broker service runs, and unsaved
\* publishes only while they are public.
Supervised ==
    /\ (bmode = "none" <=> running["broker"] = 0)
    /\ unsaved # {} => bmode = "open"

IInv == TypeOK /\ Control /\ Link /\ Supervised

-----------------------------------------------------------------------------
(* The operation record.                                                   *)

\* A transition keeps the identity and moves the commit point only forward.
LEMMA MovedFacts ==
    ASSUME NEW o \in Operation, NEW s \in States
    PROVE  /\ Moved(o, s) \in Operation
           /\ Moved(o, s).id = o.id /\ Moved(o, s).kind = o.kind /\ Moved(o, s).state = s
           /\ (Moved(o, s).committed <=> o.committed \/ s = "COMMITTING")
BY DEF Moved, Operation

\* begin() writes a well-formed, uncommitted record.
LEMMA NewOperationFacts ==
    ASSUME NEW i \in 0..MaxOps, NEW k \in {"install", "rollback"}, NEW v \in Versions,
           NEW p \in InstalledRecord
    PROVE  LET o == NewOperation(i, k, v, p)
           IN  o \in Operation /\ o.id = i /\ o.kind = k /\ o.state = "CHECKING" /\ ~o.committed
BY DEF NewOperation, Operation, States, PreMutation

\* Each state of install() and rollback() has a next one.
LEMMA SuccessorFacts ==
    ASSUME NEW o \in Operation, o.state \in Progress
    PROVE  /\ Successor(o) \in (Progress \cup {"COMPLETED"}) \ {"CHECKING"}
           /\ Successor(o) = "COMPLETED" <=> o.state = "COMMITTING"
           /\ Successor(o) = "STOPPING" =>
                o.state = "PREPARING" \/ (o.state = "CHECKING" /\ o.kind = "rollback")
BY DEF Successor, Progress, Operation

\* The call that follows a transition belongs to the state it enters.
LEMMA FirstCallFacts ==
    ASSUME NEW o \in Operation, o.state \in (Progress \cup {"COMPLETED"})
    PROVE  /\ o.state = "CHECKING" =>
                FirstCall(o) = IF o.kind = "install" THEN "resolve" ELSE "verify_snapshot"
           /\ o.state = "DOWNLOADING" => FirstCall(o) = "download"
           /\ o.state = "VERIFYING" => FirstCall(o) = "verify_images"
           /\ o.state = "PREPARING" => FirstCall(o) = "preflight"
           /\ o.state = "STOPPING" => FirstCall(o) = "maintain"
           /\ o.state = "BACKING_UP" => FirstCall(o) = "snapshot"
           /\ o.state = "MIGRATING" => FirstCall(o) = "migrate"
           /\ o.state = "INSTALLING" =>
                FirstCall(o) = IF o.kind = "install" THEN "activate_admin" ELSE "restore"
           /\ o.state = "STARTING" => FirstCall(o) = "start_broker"
           /\ o.state = "HEALTH_CHECKING" => FirstCall(o) = "health"
           /\ o.state = "COMMITTING" => FirstCall(o) = "commit"
           /\ o.state = "COMPLETED" => FirstCall(o) = "idle"
BY DEF FirstCall, Progress, Operation

-----------------------------------------------------------------------------
(* The initial state, and what a journal write can leave behind.           *)

LEMMA FirstRecordFacts ==
    /\ FirstRecord \in InstalledRecord
    /\ NoOperation \in Operation /\ NoOperation.id = 0 /\ NoOperation.state = "IDLE"
    /\ ~NoOperation.committed
<1>1. FirstRecord \in InstalledRecord
  BY UpdaterAssumption DEF FirstRecord, InstalledRecord, Fingerprints, FirstUnits, Unit, Versions
<1>2. NewOperation(0, "install", 1, FirstRecord) \in Operation
  BY <1>1, NewOperationFacts, UpdaterAssumption DEF Versions
<1> QED BY <1>1, <1>2 DEF NoOperation, NewOperation, Operation, States

LEMMA InitInv == Init => IInv
<1> SUFFICES ASSUME Init PROVE IInv
  OBVIOUS
<1>1. TypeOK
  <2>1. journal \in Operation /\ mem \in Operation /\ hist \in [OpIds -> Operation]
    BY FirstRecordFacts DEF Init
  <2>2. runtime \in Data /\ snaps \in [OpIds -> Data]
    BY UpdaterAssumption DEF Init, Data, Gone, Versions
  <2>3. units \in [Services -> Unit] /\ running \in [Services -> 0..MaxVersion]
    BY UpdaterAssumption DEF Init, FirstUnits, Unit, Versions
  <2>4. work \in [{"own", "target"} -> {"none", "installed", "completed"}]
    BY DEF Init
  <2>5. /\ installed \in InstalledRecord /\ marker \in BOOLEAN /\ boot \subseteq Services
        /\ bmode \in {"none", "open", "maintenance"} /\ gateFile \in {"open", "maintenance"}
        /\ inflight \in Writes \cup {NoWrite} /\ unsaved \subseteq Writes
        /\ pc = "idle" /\ mode \in Modes
    BY FirstRecordFacts DEF Init, Modes
  <2>6. /\ source \in 0..MaxOps /\ security \in 0..Unreadable
        /\ ops \in 0..MaxOps /\ crashes \in 0..MaxCrashes
        /\ acked \subseteq Writes /\ logins \in 0..MaxLogins
    BY UpdaterAssumption DEF Init, Unreadable
  <2> QED
    BY <2>1, <2>2, <2>3, <2>4, <2>5, <2>6 DEF TypeOK
<1>2. Control
  BY DEF Init, Control
<1>3. Link
  BY FirstRecordFacts DEF Init, Link, CommitPoint
<1>4. Supervised
  BY DEF Init, Supervised, Services
<1> QED BY <1>1, <1>2, <1>3, <1>4 DEF IInv

\* Whatever happens to the write, the file is the old or the new record, and
\* the controller is gone or goes on with the new one in memory.
LEMMA RecordOutcome ==
    ASSUME NEW o, NEW n, NEW m, NEW e, Record(o, n, m, e)
    PROVE  /\ journal' \in {journal, o} /\ hist' \in {hist, [hist EXCEPT ![o.id] = o]}
           /\ crashes' = crashes \/ (crashes < MaxCrashes /\ crashes' = crashes + 1)
           /\ \/ LetGo
              \/ /\ journal' = o /\ n # "idle" /\ pc' = n /\ mode' = m /\ mem' = o
                 /\ UNCHANGED <<source, security>>
              \/ /\ e # "idle" /\ pc' = e /\ mode' = mode /\ mem' = o
                 /\ UNCHANGED <<source, security>>
BY DEF Record, Dies

Places == Calls \cup {"idle", "log", "recover", "giveup"}

\* A write of the running operation's record, or of the one on disk.
LEMMA RecordInv ==
    ASSUME IInv, NEW o \in Operation, NEW n \in Places, NEW m \in Modes, NEW e \in Places,
           Record(o, n, m, e),
           CommitPoint(o), o.id = journal.id, o.id \in OpIds, journal.committed => o.committed,
           UNCHANGED <<installed, marker, runtime, units, snaps, work, services, ops, acked, logins>>
    PROVE  TypeOK' /\ Link' /\ Supervised'
<1>1. hist' \in [OpIds -> Operation] /\ journal' \in Operation
  BY RecordOutcome DEF IInv, Supervised, TypeOK
<1>2. crashes' \in 0..MaxCrashes
  BY RecordOutcome, UpdaterAssumption DEF IInv, Supervised, TypeOK
<1>3. /\ mem' \in Operation /\ pc' \in Places /\ mode' \in Modes
      /\ source' \in 0..MaxOps /\ security' \in 0..Unreadable
  BY RecordOutcome, FirstRecordFacts, UpdaterAssumption
     DEF LetGo, IInv, Supervised, TypeOK, Places, Modes, Unreadable
<1>4. TypeOK'
  BY <1>1, <1>2, <1>3 DEF IInv, Supervised, TypeOK, Places, services
<1>5. Link'
  BY RecordOutcome, FirstRecordFacts DEF IInv, Link, CommitPoint, LetGo
<1> QED BY <1>4, <1>5 DEF IInv, Supervised, services

-----------------------------------------------------------------------------
(* The steps that write the journal.                                       *)

LEMMA LogInv == IInv /\ Log => IInv'
<1> SUFFICES ASSUME IInv, Log PROVE IInv'
  OBVIOUS
<1> DEFINE next == CASE mode = "run" -> Successor(mem)
                     [] mode = "forward" -> "COMPLETED"
                     [] mode = "back" -> "ROLLED_BACK"
           o == Moved(mem, next)
<1>1. /\ mem \in Operation /\ mode \in {"run", "forward", "back"} /\ mem.id \in OpIds
      /\ mode = "run" => mem.state \in Progress
  BY DEF IInv, Supervised, TypeOK, Control, RunCalls, Log, Modes
<1>2. /\ mode = "run" => next \in (Progress \cup {"COMPLETED"}) \ {"CHECKING"}
      /\ next \in States
  BY <1>1, SuccessorFacts DEF States, Progress, PreMutation, Terminal
<1> HIDE DEF next
<1>3. /\ o \in Operation /\ o.id = mem.id /\ o.kind = mem.kind /\ o.state = next
      /\ (o.committed <=> mem.committed \/ next = "COMMITTING")
  BY <1>1, <1>2, MovedFacts
<1> HIDE DEF o
<1>4. CASE ~MayMove(mem, next)
  <2>1. GoTo(OnError) /\ UNCHANGED <<disk, services, ghosts>>
    BY <1>4 DEF Log, next, disk, ghosts
  <2>2. TypeOK' /\ Supervised'
    BY <2>1, <1>1 DEF IInv, Supervised, TypeOK, GoTo, OnError, disk, services, ghosts
  <2>3. Control'
    BY <2>1, <1>1 DEF IInv, Supervised, Control, RunCalls, GoTo, OnError, Calls, Offline, Restoring
  <2>4. Link'
    BY <2>1, <1>1 DEF IInv, Supervised, Link, Control, CommitPoint, GoTo, OnError, disk, ghosts
  <2> QED BY <2>2, <2>3, <2>4 DEF IInv, Supervised
<1>5. CASE MayMove(mem, next)
  <2> DEFINE call == IF mode = "run" THEN FirstCall(o) ELSE "idle"
  <2>1. Record(o, call, mode, OnError)
    BY <1>5 DEF Log, next, o
  <2>2. /\ call \in Places /\ OnError \in Places
        /\ mode = "run" => o.state \in (Progress \cup {"COMPLETED"}) \ {"CHECKING"}
    BY <1>1, <1>2, <1>3, FirstCallFacts DEF Places, Calls, Offline, OnError, Progress
  <2> HIDE DEF call
  <2>3. CommitPoint(o)
    <3>1. mode = "run" => (next = "COMPLETED" <=> mem.state = "COMMITTING")
      BY <1>1, SuccessorFacts DEF next
    <3>2. mode = "forward" => next = "COMPLETED" /\ mem.committed
      BY DEF next, IInv, Control
    <3>3. mode = "back" => next = "ROLLED_BACK" /\ ~mem.committed
      BY DEF next, IInv, Control
    <3> QED
      BY <1>1, <1>2, <1>3, <1>5, <3>1, <3>2, <3>3
         DEF CommitPoint, MayMove, Terminal, Progress, IInv, Link
  <2>4. TypeOK' /\ Link' /\ Supervised'
    BY <2>1, <2>2, <2>3, <1>1, <1>3, RecordInv
       DEF IInv, Supervised, Link, Control, Log, Modes
  <2>5. Control'
    <3>1. \/ LetGo
          \/ /\ mode = "run" /\ pc' = FirstCall(o) /\ FirstCall(o) # "idle"
             /\ mode' = mode /\ mem' = o /\ source' = source
          \/ pc' = OnError /\ mode' = mode /\ mem' = o
      BY <2>1, RecordOutcome DEF call
    <3>2. CASE LetGo
      BY <3>2 DEF Control, LetGo
    <3>3. CASE /\ mode = "run" /\ pc' = FirstCall(o) /\ FirstCall(o) # "idle"
               /\ mode' = mode /\ mem' = o /\ source' = source
      <4>1. o.kind = "rollback" => source \in OpIds
        BY <3>3, <1>3 DEF IInv, Supervised, Control, RunCalls, Log
      <4>2. o.kind \in {"install", "rollback"}
        BY <1>3 DEF Operation
      <4> QED
        BY <3>3, <4>1, <4>2, <2>2, <1>1, <1>3, FirstCallFacts
           DEF Control, RunCalls, Calls, Offline, Restoring, Progress
    <3>4. CASE pc' = OnError /\ mode' = mode /\ mem' = o
      BY <3>4, <1>1, <1>2, <1>3
         DEF IInv, Supervised, Control, RunCalls, OnError, Log, Calls, Offline, Restoring, next
    <3> QED BY <3>1, <3>2, <3>3, <3>4
  <2> QED BY <2>4, <2>5 DEF IInv, Supervised
<1> QED BY <1>4, <1>5

LEMMA BeginInv ==
    ASSUME IInv, NEW k \in {"install", "rollback"}, NEW v \in Versions, NEW s \in OpIds,
           Begin(NewOperation(ops + 1, k, v, installed)),
           source' = IF k = "install" \/ pc' = "idle" THEN source ELSE s
    PROVE  IInv'
<1> DEFINE o == NewOperation(ops + 1, k, v, installed)
<1>1. /\ o \in Operation /\ o.id = ops + 1 /\ o.kind = k /\ o.state = "CHECKING" /\ ~o.committed
      /\ ops + 1 \in OpIds /\ ops' = ops + 1 /\ ops' \in 0..MaxOps
  <2>1. ops + 1 \in OpIds /\ ops' = ops + 1 /\ ops' \in 0..MaxOps /\ ops + 1 \in 0..MaxOps
    BY UpdaterAssumption DEF Begin, IInv, Supervised, TypeOK, OpIds
  <2> QED BY <2>1, NewOperationFacts DEF IInv, Supervised, TypeOK
<1>2. Begin(o)
  OBVIOUS
<1> HIDE DEF o
<1>3. FirstCall(o) = IF k = "install" THEN "resolve" ELSE "verify_snapshot"
  BY <1>1, FirstCallFacts DEF Progress
<1>4. /\ pc = "idle" /\ mode = "none" /\ journal' = o
      /\ hist' \in {hist, [hist EXCEPT ![o.id] = o]}
      /\ crashes' = crashes \/ (crashes < MaxCrashes /\ crashes' = crashes + 1)
      /\ \/ pc' = FirstCall(o) /\ mode' = "run" /\ mem' = o
         \/ pc' = "idle" /\ UNCHANGED <<mode, mem>>
  BY <1>2, <1>1 DEF Begin, IInv, Control
<1>5. UNCHANGED <<installed, marker, runtime, units, snaps, services, security, acked, logins>>
      /\ work' = [own |-> "none", target |-> "none"]
  BY <1>2 DEF Begin
<1>6. TypeOK' /\ Supervised'
  <2>1. hist' \in [OpIds -> Operation] /\ journal' \in Operation /\ mem' \in Operation
    BY <1>1, <1>4 DEF IInv, Supervised, TypeOK
  <2>2. crashes' \in 0..MaxCrashes
    BY <1>4, UpdaterAssumption DEF IInv, Supervised, TypeOK
  <2>3. pc' \in Places /\ mode' \in Modes /\ source' \in 0..MaxOps
    BY <1>3, <1>4, UpdaterAssumption DEF IInv, Supervised, TypeOK, Places, Modes, Calls, OpIds
  <2>4. work' \in [{"own", "target"} -> {"none", "installed", "completed"}]
    BY <1>5
  <2> QED BY <1>1, <1>5, <2>1, <2>2, <2>3, <2>4 DEF IInv, Supervised, TypeOK, Places, services
<1>7. Control'
  BY <1>1, <1>3, <1>4
     DEF IInv, Supervised, Control, RunCalls, Calls, Offline, Restoring, Progress
<1>8. Link'
  BY <1>1, <1>4, FirstRecordFacts DEF IInv, Supervised, TypeOK, Link, CommitPoint, Control
<1> QED BY <1>6, <1>7, <1>8 DEF IInv, Supervised

LEMMA OwnerInv == IInv /\ Owner => IInv'
<1> SUFFICES ASSUME IInv, Owner PROVE IInv'
  OBVIOUS
<1>1. ASSUME NEW v \in Versions, Install(v) PROVE IInv'
  <2>1. ops + 1 \in OpIds
    BY <1>1, UpdaterAssumption DEF Install, Begin, IInv, Supervised, TypeOK, OpIds
  <2> QED BY <1>1, <2>1, BeginInv DEF Install
<1>2. ASSUME NEW i \in OpIds, Rollback(i) PROVE IInv'
  <2>1. hist[i].prev.version \in Versions
    BY DEF IInv, Supervised, TypeOK, Operation, InstalledRecord
  <2> QED BY <1>2, <2>1, BeginInv DEF Rollback
<1>3. ASSUME RetryRecovery PROVE IInv'
  <2> DEFINE state == IF journal.committed THEN "COMMITTING" ELSE "ROLLING_BACK"
             o == [journal EXCEPT !.state = state]
  <2>1. /\ o \in Operation /\ o.id = journal.id /\ o.state = state
        /\ (o.committed <=> journal.committed) /\ journal.id \in OpIds
    BY <1>3 DEF RetryRecovery, IInv, Supervised, TypeOK, Link, Operation, States
  <2>2. Record(o, "recover", "run", "idle")
    BY <1>3 DEF RetryRecovery
  <2> HIDE DEF o
  <2>3. TypeOK' /\ Link' /\ Supervised'
    BY <1>3, <2>1, <2>2, RecordInv
       DEF RetryRecovery, Places, Modes, CommitPoint, Terminal
  <2>4. Control'
    BY <1>3, <2>1, <2>2, RecordOutcome
       DEF RetryRecovery, Control, RunCalls, LetGo, Calls, Offline, Restoring
  <2> QED BY <2>3, <2>4 DEF IInv, Supervised
<1> QED BY <1>1, <1>2, <1>3 DEF Owner

LEMMA ResumeInv == IInv /\ Resume => IInv'
<1> SUFFICES ASSUME IInv, Resume PROVE IInv'
  OBVIOUS
<1>1. TypeOK' /\ Supervised'
  BY DEF IInv, Supervised, TypeOK, Resume, disk, services, ghosts, Modes, Calls
<1>2. Control'
  BY DEF IInv, Supervised, Control, RunCalls, Link, Resume, Calls, Offline, Restoring
<1>3. Link'
  BY DEF IInv, Supervised, Link, CommitPoint, Resume, disk, ghosts
<1> QED BY <1>1, <1>2, <1>3 DEF IInv, Supervised

LEMMA RecoverInv == IInv /\ Recover => IInv'
<1> SUFFICES ASSUME IInv, Recover PROVE IInv'
  OBVIOUS
<1>1. mode = "run" /\ mem \in Operation /\ mem.id \in OpIds /\ mem.id = journal.id
  BY DEF IInv, Supervised, TypeOK, Control, Link, Recover, Modes, ForwardCalls, BackCalls, Restoring
<1>2. CASE mem.committed
  <2>1. /\ pc' = "maintain" /\ mode' = "forward"
        /\ UNCHANGED <<disk, services, ghosts, mem, source, security>>
    BY <1>2 DEF Recover, disk, services, ghosts
  <2>2. TypeOK' /\ Supervised'
    BY <2>1 DEF IInv, Supervised, TypeOK, disk, services, ghosts, Calls, Modes
  <2>3. Control' /\ Link'
    BY <2>1, <1>1, <1>2 DEF IInv, Supervised, Control, Link, CommitPoint, ForwardCalls, Recover, disk, ghosts
  <2> QED BY <2>2, <2>3 DEF IInv, Supervised
<1>3. CASE ~mem.committed /\ mem.state \in PreMutation
  <2> DEFINE o == Moved(mem, "FAILED")
  <2>1. Record(o, "idle", "none", "idle")
    BY <1>3 DEF Recover
  <2>2. o \in Operation /\ o.id = mem.id /\ o.state = "FAILED" /\ ~o.committed
    BY <1>1, <1>3, MovedFacts DEF States, Terminal
  <2> HIDE DEF o
  <2>3. TypeOK' /\ Link' /\ Supervised'
    BY <1>1, <1>3, <2>1, <2>2, RecordInv
       DEF IInv, Supervised, Link, Recover, Places, Modes, CommitPoint
  <2>4. Control'
    BY <2>1, RecordOutcome DEF LetGo, Control
  <2> QED BY <2>3, <2>4 DEF IInv, Supervised
<1>4. CASE ~mem.committed /\ mem.state \notin PreMutation
  <2> DEFINE o == Moved(mem, "ROLLING_BACK")
  <2>1. Record(o, "maintain", "back", "giveup")
    BY <1>4 DEF Recover
  <2>2. o \in Operation /\ o.id = mem.id /\ o.state = "ROLLING_BACK" /\ ~o.committed
    BY <1>1, <1>4, MovedFacts DEF States
  <2> HIDE DEF o
  <2>3. TypeOK' /\ Link' /\ Supervised'
    BY <1>1, <1>4, <2>1, <2>2, RecordInv
       DEF IInv, Supervised, Link, Recover, Places, Calls, Modes, CommitPoint
  <2>4. Control'
    BY <2>1, <2>2, <1>1, RecordOutcome
       DEF LetGo, Control, RunCalls, BackCalls, Calls, Offline, Restoring, Recover
  <2> QED BY <2>3, <2>4 DEF IInv, Supervised
<1> QED BY <1>2, <1>3, <1>4

LEMMA GiveUpInv == IInv /\ GiveUp => IInv'
<1> SUFFICES ASSUME IInv, GiveUp PROVE IInv'
  OBVIOUS
<1>1. mem \in Operation /\ mem.id \in OpIds /\ mem.id = journal.id
  BY DEF IInv, Supervised, TypeOK, Control, Link, GiveUp
<1>2. CASE MayMove(mem, "RECOVERY_REQUIRED")
  <2> DEFINE o == Moved(mem, "RECOVERY_REQUIRED")
  <2>1. Record(o, "idle", "none", "idle")
    BY <1>2 DEF GiveUp
  <2>2. /\ o \in Operation /\ o.id = mem.id /\ o.state = "RECOVERY_REQUIRED"
        /\ (o.committed <=> mem.committed)
    BY <1>1, MovedFacts DEF States, Terminal
  <2> HIDE DEF o
  <2>3. TypeOK' /\ Link' /\ Supervised'
    BY <1>1, <2>1, <2>2, RecordInv
       DEF IInv, Supervised, Link, GiveUp, Places, Modes, CommitPoint, Terminal
  <2>4. Control'
    BY <2>1, RecordOutcome DEF LetGo, Control
  <2> QED BY <2>3, <2>4 DEF IInv, Supervised
<1>3. CASE ~MayMove(mem, "RECOVERY_REQUIRED")
  <2>1. LetGo /\ UNCHANGED <<disk, services, ghosts>>
    BY <1>3 DEF GiveUp, disk, ghosts
  <2>2. TypeOK' /\ Supervised'
    BY <2>1, FirstRecordFacts, UpdaterAssumption
       DEF IInv, Supervised, TypeOK, LetGo, disk, services, ghosts, Modes, Unreadable
  <2>3. Control' /\ Link'
    BY <2>1, FirstRecordFacts DEF IInv, Supervised, Control, Link, CommitPoint, LetGo, disk, ghosts
  <2> QED BY <2>2, <2>3 DEF IInv, Supervised
<1> QED BY <1>2, <1>3

-----------------------------------------------------------------------------
(* The backend calls: the journal stays, the controller goes one call on.  *)

\* A call that only moves the controller keeps the link to the journal.
LEMMA CallLink ==
    ASSUME IInv, pc # "idle", UNCHANGED <<mem, journal, ops>>
    PROVE  Link'
BY DEF IInv, Supervised, Link, CommitPoint

LEMMA QuietCallInv ==
    IInv /\ (Check \/ Prepare \/ Recheck \/ Health \/ RestoreBegin) => IInv'
<1> SUFFICES ASSUME IInv, Check \/ Prepare \/ Recheck \/ Health \/ RestoreBegin PROVE IInv'
  OBVIOUS
<1> USE DEF Call, GoTo, disk, services, ghosts
<1>1. CASE Check
  BY <1>1, CallLink DEF Check, IInv, Supervised, TypeOK, Control, RunCalls, Calls, Offline, Restoring,
     Progress, ForwardCalls, BackCalls, Modes
<1>2. CASE Prepare
  BY <1>2, CallLink DEF Prepare, IInv, Supervised, TypeOK, Control, RunCalls, Calls, Offline, Restoring,
     Progress, ForwardCalls, BackCalls, Modes
<1>3. CASE Recheck
  BY <1>3, CallLink DEF Recheck, IInv, Supervised, TypeOK, Control, RunCalls, Calls, Offline, Restoring,
     Progress, ForwardCalls, BackCalls, Modes
<1>4. CASE Health
  <2>1. mode \in {"run", "forward", "back"} /\ pc = "health"
    BY <1>4 DEF Health, IInv, Supervised, TypeOK, Control, Modes
  <2>2. pc' = IF mode = "run" THEN "log" ELSE IF mode = "forward" THEN "commit" ELSE "open"
    BY <1>4, <2>1 DEF Health
  <2>3. UNCHANGED <<disk, services, ghosts, mode, mem, source, security>>
    BY <1>4 DEF Health
  <2> QED
    BY <2>1, <2>2, <2>3, CallLink DEF IInv, Supervised, TypeOK, Control, RunCalls, Calls, Offline, Restoring,
       Progress, ForwardCalls, BackCalls
<1>5. CASE RestoreBegin
  <2>1. /\ pc = "restore" /\ mode \in {"run", "back"} /\ pc' \in {"secure", "check", "displace", "place"}
        /\ UNCHANGED <<disk, services, ghosts, mode, mem, source>>
    BY <1>5 DEF RestoreBegin, IInv, Supervised, TypeOK, Control, Modes, ForwardCalls
  <2>2. security' \in 0..Unreadable
    BY <1>5, UpdaterAssumption DEF RestoreBegin, IInv, Supervised, TypeOK, Data, Unreadable
  <2> QED
    BY <2>1, <2>2, CallLink DEF IInv, Supervised, TypeOK, Control, RunCalls, Calls, Offline, Restoring,
       BackCalls
<1> QED BY <1>1, <1>2, <1>3, <1>4, <1>5

\* What a save leaves behind.
LEMMA SaveFacts ==
    ASSUME IInv, SaveInMemory
    PROVE  /\ runtime' \in Data /\ unsaved' = {}
           /\ runtime'.writes = runtime.writes \cup unsaved
           /\ runtime'.present = runtime.present /\ runtime'.schema = runtime.schema
           /\ runtime'.counter = runtime.counter /\ runtime'.touched = runtime.touched
BY DEF SaveInMemory, IInv, TypeOK, Data

LEMMA StopInv == IInv /\ (Maintain \/ StopAdmin \/ StopBroker) => IInv'
<1> SUFFICES ASSUME IInv, Maintain \/ StopAdmin \/ StopBroker PROVE IInv'
  OBVIOUS
<1> USE DEF Call, GoTo, disk, services, ghosts
<1>0. running \in [Services -> 0..MaxVersion] /\ 0 \in 0..MaxVersion
  BY UpdaterAssumption DEF IInv, Supervised, TypeOK
<1>1. CASE Maintain
  BY <1>1, CallLink DEF Maintain, IInv, Supervised, TypeOK, Control, RunCalls, Calls, Offline, Restoring,
     Progress, ForwardCalls, BackCalls, Modes
<1>2. CASE StopAdmin
  <2>1. running' \in [Services -> 0..MaxVersion]
    BY <1>2, <1>0 DEF StopAdmin
  <2> QED
    BY <1>2, <2>1, CallLink DEF StopAdmin, IInv, Supervised, TypeOK, Control, RunCalls, Calls, Offline,
       Restoring, Progress, ForwardCalls, BackCalls, Modes
<1>3. CASE StopBroker
  <2>1. running' \in [Services -> 0..MaxVersion] /\ running'["broker"] = 0
    BY <1>3, <1>0 DEF StopBroker, Services
  <2>2. runtime' \in Data /\ unsaved' = {}
    BY <1>3, SaveFacts DEF StopBroker
  <2>3. bmode' = "none" /\ boot' \subseteq Services
    BY <1>3 DEF StopBroker, IInv, TypeOK
  <2>4. TypeOK' /\ Supervised'
    BY <1>3, <2>1, <2>2, <2>3 DEF StopBroker, IInv, Supervised, TypeOK, Calls, Offline
  <2>5. Control' /\ Link'
    BY <1>3, CallLink DEF StopBroker, IInv, TypeOK, Control, RunCalls, Calls, Offline,
       Restoring, Progress, ForwardCalls, BackCalls, Modes
  <2> QED BY <2>4, <2>5 DEF IInv
<1> QED BY <1>1, <1>2, <1>3

\* What a service that comes up leaves behind.
LEMMA LaunchFacts ==
    ASSUME IInv, NEW s \in Services, Launch(s)
    PROVE  /\ runtime' \in Data /\ running' \in [Services -> 0..MaxVersion]
           /\ boot' \subseteq Services /\ bmode' \in {"none", "open", "maintenance"}
           /\ runtime'.present /\ runtime'.writes = runtime.writes
           /\ Supervised'
           /\ UNCHANGED <<gateFile, inflight, unsaved>>
<1>1. units[s].version \in 1..MaxVersion /\ Schema[units[s].version] \in Nat
  BY UpdaterAssumption DEF IInv, Supervised, TypeOK, Unit, Versions
<1>2. units[s].version \in 0..MaxVersion
  BY <1>1, UpdaterAssumption
<1>3. /\ runtime' \in Data /\ boot' \subseteq Services
      /\ runtime'.present /\ runtime'.writes = runtime.writes
      /\ UNCHANGED <<gateFile, inflight, unsaved>>
  BY <1>1 DEF Launch, IInv, TypeOK, Data
<1>4. running' \in {running, [running EXCEPT ![s] = units[s].version]}
  BY DEF Launch
<1>5. running' \in [Services -> 0..MaxVersion] /\ bmode' \in {"none", "open", "maintenance"}
  BY <1>2, <1>4 DEF Launch, IInv, TypeOK, Gate
<1>6. Supervised'
  <2>1. CASE s = "broker"
    BY <1>1, <2>1, UpdaterAssumption DEF Launch, IInv, TypeOK, Supervised, Gate
  <2>2. CASE s = "admin"
    BY <1>4, <2>2 DEF Launch, IInv, TypeOK, Supervised, Services
  <2> QED BY <2>1, <2>2 DEF Services
<1> QED BY <1>3, <1>5, <1>6

LEMMA ReplaceInv ==
    IInv /\ (Snapshot \/ Migrate \/ (\E s \in Services : Activate(s) \/ Start(s))) => IInv'
<1> SUFFICES ASSUME IInv, Snapshot \/ Migrate \/ (\E s \in Services : Activate(s) \/ Start(s))
             PROVE  IInv'
  OBVIOUS
<1> USE DEF Call, GoTo, disk, services, ghosts
<1>1. CASE Snapshot
  <2>1. [runtime EXCEPT !.touched = FALSE] \in Data
    BY DEF IInv, Supervised, TypeOK, Data
  <2>2. snaps' \in [OpIds -> Data]
    BY <1>1, <2>1 DEF Snapshot, IInv, Supervised, TypeOK
  <2> QED
    BY <1>1, <2>2, CallLink DEF Snapshot, IInv, Supervised, TypeOK, Control, RunCalls, Calls, Offline,
       Restoring, Progress, ForwardCalls, BackCalls, Modes
<1>2. CASE Migrate
  <2>1. mem.version \in Versions /\ Schema[mem.version] \in Nat
    BY UpdaterAssumption DEF IInv, Supervised, TypeOK, Operation
  <2>2. runtime' \in Data
    BY <1>2, <2>1 DEF Migrate, IInv, Supervised, TypeOK, Data
  <2> QED
    BY <1>2, <2>2, CallLink DEF Migrate, IInv, Supervised, TypeOK, Control, RunCalls, Calls, Offline,
       Restoring, Progress, ForwardCalls, BackCalls, Modes
<1>3. ASSUME NEW s \in Services, Activate(s) PROVE IInv'
  <2>1. units' \in [Services -> Unit]
    BY <1>3 DEF Activate, IInv, Supervised, TypeOK, Operation, Unit
  <2> QED
    BY <1>3, <2>1, CallLink DEF Activate, IInv, Supervised, TypeOK, Control, RunCalls, Calls, Offline,
       Restoring, Progress, ForwardCalls, BackCalls, Modes
<1>4. ASSUME NEW s \in Services, Start(s) PROVE IInv'
  <2>1. /\ runtime' \in Data /\ running' \in [Services -> 0..MaxVersion]
        /\ boot' \subseteq Services /\ bmode' \in {"none", "open", "maintenance"}
        /\ Supervised' /\ UNCHANGED <<gateFile, inflight, unsaved>>
    BY <1>4, LaunchFacts DEF Start
  <2>2. /\ pc \in {"start_broker", "start_admin"} /\ pc' \in {"start_admin", "log", "health"}
        /\ pc' = "log" => mode = "run"
        /\ pc' = "health" => mode # "run"
        /\ UNCHANGED <<journal, hist, installed, marker, units, snaps, work, ghosts,
                       mode, mem, source, security>>
    BY <1>4 DEF Start
  <2> QED
    BY <2>1, <2>2, CallLink DEF IInv, Supervised, TypeOK, Control, RunCalls, Calls, Offline,
       Restoring, Progress, ForwardCalls, BackCalls, Modes
<1> QED BY <1>1, <1>2, <1>3, <1>4

LEMMA CommitInv == IInv /\ (Commit \/ Open \/ Acknowledge) => IInv'
<1> SUFFICES ASSUME IInv, Commit \/ Open \/ Acknowledge PROVE IInv'
  OBVIOUS
<1> USE DEF Call, GoTo, disk, services, ghosts
<1>1. CASE Commit
  <2>1. [s \in Services |-> InForce(s)] \in [Services -> Versions]
    BY UpdaterAssumption DEF InForce, IInv, Supervised, TypeOK, Unit, Versions
  <2>2. Fingerprint \in Fingerprints
    BY DEF Fingerprint, Fingerprints, IInv, Supervised, TypeOK, Data
  <2>3. mem.version \in Versions /\ mem.id \in 0..MaxOps
    BY DEF IInv, Supervised, TypeOK, Operation
  <2>4. installed' \in InstalledRecord
    BY <1>1, <2>1, <2>2, <2>3 DEF Commit, IInv, Supervised, TypeOK, InstalledRecord
  <2> QED
    BY <1>1, <2>4, CallLink DEF Commit, IInv, Supervised, TypeOK, Control, RunCalls, Calls, Offline,
       Restoring, Progress, ForwardCalls, BackCalls, Modes
<1>2. CASE Open
  <2>1. TypeOK' /\ Supervised'
    BY <1>2 DEF Open, IInv, Supervised, TypeOK, Calls, Offline
  <2>2. Control' /\ Link'
    BY <1>2, CallLink DEF Open, IInv, TypeOK, Control, RunCalls, Calls, Offline,
       Restoring, ForwardCalls, BackCalls, Modes
  <2> QED BY <2>1, <2>2 DEF IInv
<1>3. CASE Acknowledge /\ mode # "done"
  BY <1>3, CallLink DEF Acknowledge, IInv, Supervised, TypeOK, Control, RunCalls, Calls, Offline,
     Restoring, Progress, ForwardCalls, BackCalls, Modes
<1>4. CASE Acknowledge /\ mode = "done"
  BY <1>4, FirstRecordFacts, UpdaterAssumption
     DEF Acknowledge, LetGo, IInv, Supervised, TypeOK, Control, Link, CommitPoint, Modes, Unreadable
<1> QED BY <1>1, <1>2, <1>3, <1>4

LEMMA RestoreInv ==
    IInv /\ (RestoreDisplace \/ RestorePlace \/ RestoreCheck \/ RestoreSecure \/ RestoreRecord
              \/ (\E s \in Services : RestoreUnit(s))) => IInv'
<1> SUFFICES ASSUME IInv,
                    RestoreDisplace \/ RestorePlace \/ RestoreCheck \/ RestoreSecure
                      \/ RestoreRecord \/ (\E s \in Services : RestoreUnit(s))
             PROVE  IInv'
  OBVIOUS
<1> USE DEF Call, GoTo, disk, services, ghosts
<1>1. pc \in Restoring =>
        /\ mode \in {"run", "back"} /\ mem.id \in OpIds
        /\ mode = "run" => source \in OpIds
  BY DEF IInv, Supervised, TypeOK, Control, RunCalls, Restoring, Calls, Offline, Modes, ForwardCalls
<1>2. pc \in Restoring => Reinstated \in InstalledRecord
  BY <1>1 DEF Reinstated, IInv, Supervised, TypeOK, Operation
<1>3. CASE RestoreDisplace
  <2>1. Gone \in Data
    BY UpdaterAssumption DEF Gone, Data
  <2> QED
    BY <1>3, <2>1, CallLink DEF RestoreDisplace, IInv, Supervised, TypeOK, Control, RunCalls, Calls, Offline,
       Restoring, Progress, ForwardCalls, BackCalls, Modes
<1>4. CASE RestorePlace
  <2>1. Point \in Data
    BY <1>1, <1>4 DEF RestorePlace, Restoring, Point, IInv, Supervised, TypeOK
  <2>2. work' \in [{"own", "target"} -> {"none", "installed", "completed"}]
    BY <1>4 DEF RestorePlace, Key, IInv, Supervised, TypeOK
  <2> QED
    BY <1>4, <2>1, <2>2, CallLink DEF RestorePlace, IInv, Supervised, TypeOK, Control, RunCalls, Calls, Offline,
       Restoring, Progress, ForwardCalls, BackCalls, Modes
<1>5. CASE RestoreCheck
  <2>1. work' \in [{"own", "target"} -> {"none", "installed", "completed"}]
    BY <1>5 DEF RestoreCheck, Key, IInv, Supervised, TypeOK
  <2> QED
    BY <1>5, <2>1, CallLink DEF RestoreCheck, IInv, Supervised, TypeOK, Control, RunCalls, Calls, Offline,
       Restoring, Progress, ForwardCalls, BackCalls, Modes
<1>6. CASE RestoreSecure
  <2>1. security # Unreadable => security \in 0..MaxLogins
    BY UpdaterAssumption DEF IInv, Supervised, TypeOK, Unreadable
  <2>2. runtime' \in Data
    BY <1>6, <2>1 DEF RestoreSecure, IInv, Supervised, TypeOK, Data
  <2> QED
    BY <1>6, <2>2, CallLink DEF RestoreSecure, IInv, Supervised, TypeOK, Control, RunCalls, Calls, Offline,
       Restoring, Progress, ForwardCalls, BackCalls, Modes
<1>7. CASE RestoreRecord
  <2>1. installed' \in InstalledRecord
    BY <1>2, <1>7 DEF RestoreRecord, Restoring
  <2> QED
    BY <1>7, <2>1, CallLink DEF RestoreRecord, IInv, Supervised, TypeOK, Control, RunCalls, Calls, Offline,
       Restoring, Progress, ForwardCalls, BackCalls, Modes
<1>8. ASSUME NEW s \in Services, RestoreUnit(s) PROVE IInv'
  <2>1. Reinstated.images[s] \in Versions
    BY <1>2, <1>8 DEF RestoreUnit, Restoring, InstalledRecord
  <2>2. units' \in [Services -> Unit]
    BY <1>8, <2>1 DEF RestoreUnit, IInv, Supervised, TypeOK, Unit
  <2> QED
    BY <1>8, <2>2, CallLink DEF RestoreUnit, IInv, Supervised, TypeOK, Control, RunCalls, Calls, Offline,
       Restoring, Progress, ForwardCalls, BackCalls, Modes
<1> QED BY <1>3, <1>4, <1>5, <1>6, <1>7, <1>8

LEMMA FailInv == IInv /\ Fail => IInv'
<1> SUFFICES ASSUME IInv, Fail PROVE IInv'
  OBVIOUS
<1>1. pc # "idle" /\ UNCHANGED <<disk, services, ghosts>>
  BY DEF Fail, Hopeless, Calls, Offline
<1>2. CASE mode = "done"
  BY <1>1, <1>2, FirstRecordFacts, UpdaterAssumption
     DEF Fail, LetGo, IInv, Supervised, TypeOK, Control, Link, CommitPoint, Modes, Unreadable,
         disk, services, ghosts
<1>3. CASE mode # "done"
  <2>1. pc' = OnError /\ UNCHANGED <<mode, mem, source, security>>
    BY <1>3 DEF Fail, GoTo
  <2> QED
    BY <1>1, <1>3, <2>1, CallLink
       DEF OnError, IInv, Supervised, TypeOK, Control, RunCalls, Calls, Offline, Restoring, Modes,
           disk, services, ghosts
<1> QED BY <1>2, <1>3

-----------------------------------------------------------------------------
(* The services, crashes and clients leave the controller's record alone,  *)
(* or the controller is gone.                                              *)

LEMMA CrashInv == IInv /\ (Crash \/ Reboot) => IInv'
<1> SUFFICES ASSUME IInv, Crash \/ Reboot PROVE IInv'
  OBVIOUS
<1> USE DEF Dies, LetGo, disk, services, ghosts
<1>1. crashes' \in 0..MaxCrashes
  BY UpdaterAssumption DEF Crash, Reboot, IInv, Supervised, TypeOK
<1>2. /\ mem' \in Operation /\ security' \in 0..Unreadable /\ source' \in 0..MaxOps
      /\ pc' = "idle" /\ mode' = "none" /\ mem' = NoOperation
  BY FirstRecordFacts, UpdaterAssumption DEF Crash, Reboot, Unreadable
<1>3. TypeOK' /\ Supervised'
  <2>1. CASE Crash
    BY <2>1, <1>1, <1>2 DEF Crash, IInv, Supervised, TypeOK, Modes
  <2>2. CASE Reboot
    <3>1. running' \in [Services -> 0..MaxVersion] /\ running'["broker"] = 0
      BY <2>2, UpdaterAssumption DEF Reboot, Services
    <3>2. acked' \subseteq Writes /\ unsaved' = {}
      BY <2>2 DEF Reboot, MemoryIsLost, IInv, TypeOK
    <3> QED BY <2>2, <3>1, <3>2, <1>1, <1>2 DEF Reboot, IInv, Supervised, TypeOK, Modes
  <2> QED BY <2>1, <2>2
<1>4. Control' /\ Link'
  BY <1>2, FirstRecordFacts DEF Crash, Reboot, IInv, Control, Link, CommitPoint
<1> QED BY <1>3, <1>4 DEF IInv, Supervised

\* Nothing that only services and clients do disturbs Control or Link.
LEMMA OutsideInv ==
    ASSUME IInv, UNCHANGED <<journal, locals, ops>>
    PROVE  Control' /\ Link'
BY DEF IInv, Supervised, Control, RunCalls, Link, CommitPoint, locals

LEMMA ServicesInv ==
    IInv /\ (Supervisor \/ BrokerSave \/ BrokerRestart \/ (\E s \in Services : BootStart(s))) => IInv'
<1> SUFFICES ASSUME IInv,
                    Supervisor \/ BrokerSave \/ BrokerRestart \/ (\E s \in Services : BootStart(s))
             PROVE  IInv'
  OBVIOUS
<1>1. CASE SupervisorRecord
  BY <1>1, OutsideInv DEF SupervisorRecord, IInv, Supervised, TypeOK, disk, locals, ghosts
<1>2. CASE SupervisorRestart \/ BrokerSave
  <2>1. runtime' \in Data /\ unsaved' = {}
    BY <1>2, SaveFacts DEF SupervisorRestart, BrokerSave
  <2>2. /\ bmode' \in {bmode, Gate} /\ (bmode' # bmode => running["broker"] # 0)
        /\ UNCHANGED <<journal, hist, installed, marker, units, snaps, work, running, boot,
                       gateFile, inflight, locals, ghosts>>
    BY <1>2 DEF SupervisorRestart, BrokerSave
  <2> QED
    BY <2>1, <2>2, OutsideInv DEF Gate, IInv, Supervised, TypeOK, locals, ghosts
<1>3. CASE BrokerRestart
  <2>1. acked' \subseteq Writes /\ unsaved' = {}
    BY <1>3 DEF BrokerRestart, MemoryIsLost, IInv, TypeOK
  <2> QED
    BY <1>3, <2>1, OutsideInv DEF BrokerRestart, Gate, IInv, Supervised, TypeOK, disk, locals
<1>4. ASSUME NEW s \in Services, BootStart(s) PROVE IInv'
  <2>1. UNCHANGED <<gateFile, inflight, unsaved>>
    BY <1>4 DEF BootStart, Launch
  <2> QED
    BY <1>4, <2>1, LaunchFacts, OutsideInv DEF BootStart, IInv, TypeOK, locals, ghosts
<1> QED BY <1>1, <1>2, <1>3, <1>4 DEF Supervisor

LEMMA ClientsInv == IInv /\ Clients => IInv'
<1> SUFFICES ASSUME IInv, Clients PROVE IInv'
  OBVIOUS
<1>1. ASSUME NEW w \in Writes, AdminAdmit(w) PROVE IInv'
  BY <1>1, OutsideInv DEF AdminAdmit, IInv, Supervised, TypeOK, disk, locals, ghosts
<1>2. ASSUME NEW w \in Writes, BrokerPublish(w) PROVE IInv'
  BY <1>2, OutsideInv DEF BrokerPublish, IInv, Supervised, TypeOK, disk, locals
<1>3. CASE AdminStore
  BY <1>3, OutsideInv DEF AdminStore, IInv, Supervised, TypeOK, Data, locals
<1>4. CASE Login
  <2>1. logins' \in 0..MaxLogins
    BY <1>4, UpdaterAssumption DEF Login, IInv, Supervised, TypeOK
  <2>2. runtime' \in Data
    BY <1>4, <2>1 DEF Login, IInv, Supervised, TypeOK, Data
  <2> QED BY <1>4, <2>1, <2>2, OutsideInv DEF Login, IInv, Supervised, TypeOK, services, locals
<1> QED BY <1>1, <1>2, <1>3, <1>4 DEF Clients

-----------------------------------------------------------------------------
LEMMA NextInv == IInv /\ [Next]_vars => IInv'
<1> SUFFICES ASSUME IInv, [Next]_vars PROVE IInv'
  OBVIOUS
<1>1. CASE Owner \/ Resume
  BY <1>1, OwnerInv, ResumeInv
<1>2. CASE Controller
  BY <1>2, LogInv, RecoverInv, GiveUpInv, QuietCallInv, StopInv, ReplaceInv, CommitInv,
     RestoreInv, FailInv DEF Controller
<1>3. CASE Supervisor \/ BrokerSave \/ BrokerRestart \/ (\E s \in Services : BootStart(s))
  BY <1>3, ServicesInv
<1>4. CASE Crash \/ Reboot \/ Clients
  BY <1>4, CrashInv, ClientsInv
<1>5. CASE UNCHANGED vars
  BY <1>5 DEF IInv, Supervised, TypeOK, Control, RunCalls, Link, CommitPoint, vars, disk, services, locals,
     ghosts
<1> QED BY <1>1, <1>2, <1>3, <1>4, <1>5 DEF Next

THEOREM Inductive == Spec => []IInv
BY InitInv, NextInv, PTL DEF Spec

(***************************************************************************)
(* Every reachable state is well formed: the controller's program counter, *)
(* its record, both journal files and the services' state stay in their    *)
(* types, whatever fails and whenever a process dies.                      *)
(***************************************************************************)
THEOREM TypeCorrect == Spec => []TypeOK
<1>1. IInv => TypeOK
  BY DEF IInv, Supervised
<1> QED BY <1>1, Inductive, PTL

-----------------------------------------------------------------------------
(* Files are replaced only while the services are down.                    *)

\* A stopped service comes back only if somebody starts it.
Stopped(s) == running[s] = 0 /\ s \notin boot

\* What the stops of install(), rollback() and recovery have established.
Down ==
    /\ pc = "stop_broker" => Stopped("admin")
    /\ \/ pc \in Offline \cup {"recheck"}
       \/ mode = "run" /\ pc = "log" /\ mem.state \in {"STOPPING", "BACKING_UP", "MIGRATING"}
       => \A s \in Services : Stopped(s)

\* A transition leads to a replacing call only from a state that has stopped
\* the services.
LEMMA OfflineCallAfterStop ==
    ASSUME NEW o \in Operation, o.state \in Progress,
           FirstCall(Moved(o, Successor(o))) \in Offline
    PROVE  o.state \in {"STOPPING", "BACKING_UP", "MIGRATING"}
<1> DEFINE n == Moved(o, Successor(o))
<1>1. Successor(o) \in (Progress \cup {"COMPLETED"}) \ {"CHECKING"}
  BY SuccessorFacts
<1>2. n \in Operation /\ n.state = Successor(o) /\ n.kind = o.kind
  BY <1>1, MovedFacts DEF States, Progress, PreMutation, Terminal
<1> HIDE DEF n
<1>3. n.state \in {"BACKING_UP", "MIGRATING", "INSTALLING"}
  BY <1>1, <1>2, FirstCallFacts DEF Progress, Offline, n
<1> QED BY <1>2, <1>3 DEF Successor, Progress, Operation

LEMMA LogSteps ==
    ASSUME IInv, Log
    PROVE  \/ LetGo
           \/ /\ mode = "run" /\ pc' = FirstCall(Moved(mem, Successor(mem)))
              /\ pc' # "idle" /\ mode' = mode /\ mem' = Moved(mem, Successor(mem))
              /\ journal' = mem'
           \/ pc' = OnError /\ mode' = mode
<1> DEFINE next == CASE mode = "run" -> Successor(mem)
                     [] mode = "forward" -> "COMPLETED"
                     [] mode = "back" -> "ROLLED_BACK"
           o == Moved(mem, next)
           call == IF mode = "run" THEN FirstCall(o) ELSE "idle"
<1>1. CASE ~MayMove(mem, next)
  BY <1>1 DEF Log, GoTo
<1>2. CASE MayMove(mem, next)
  <2>1. Record(o, call, mode, OnError)
    BY <1>2 DEF Log
  <2>2. mode = "run" => next = Successor(mem)
    OBVIOUS
  <2> HIDE DEF next, o
  <2>3. \/ LetGo
        \/ journal' = o /\ call # "idle" /\ pc' = call /\ mode' = mode /\ mem' = o
        \/ pc' = OnError /\ mode' = mode
    BY <2>1, RecordOutcome
  <2> QED BY <2>2, <2>3 DEF o
<1> QED BY <1>1, <1>2

LEMMA DownInv == IInv /\ Down /\ [Next]_vars => Down'
<1> SUFFICES ASSUME IInv, Down, [Next]_vars PROVE Down'
  OBVIOUS
<1> USE DEF Call, GoTo
<1>1. CASE Owner
  <2>1. pc' \in {"idle", "recover", "resolve", "verify_snapshot"}
    <3>1. ASSUME NEW v \in Versions, Install(v) PROVE pc' \in {"idle", "resolve"}
      <4>1. ops + 1 \in 0..MaxOps /\ installed \in InstalledRecord
        BY <3>1, UpdaterAssumption DEF Install, Begin, IInv, TypeOK
      <4> QED BY <3>1, <4>1, NewOperationFacts, FirstCallFacts DEF Install, Begin, Progress
    <3>2. ASSUME NEW i \in OpIds, Rollback(i) PROVE pc' \in {"idle", "verify_snapshot"}
      <4>1. /\ ops + 1 \in 0..MaxOps /\ installed \in InstalledRecord
            /\ hist[i].prev.version \in Versions
        BY <3>2, UpdaterAssumption DEF Rollback, Begin, IInv, TypeOK, Operation, InstalledRecord
      <4> QED BY <3>2, <4>1, NewOperationFacts, FirstCallFacts DEF Rollback, Begin, Progress
    <3>3. ASSUME RetryRecovery PROVE pc' \in {"idle", "recover"}
      BY <3>3, RecordOutcome DEF RetryRecovery, LetGo
    <3> QED BY <1>1, <3>1, <3>2, <3>3 DEF Owner
  <2> QED BY <2>1 DEF Down, Offline
<1>2. CASE Resume
  BY <1>2 DEF Resume, Down, Offline
<1>3. CASE Log
  <2>1. CASE LetGo
    BY <2>1 DEF LetGo, Down, Offline
  <2>2. CASE pc' = OnError
    BY <2>2 DEF OnError, Down, Offline
  <2>3. CASE /\ mode = "run" /\ pc' = FirstCall(Moved(mem, Successor(mem)))
             /\ pc' # "idle" /\ mode' = mode /\ mem' = Moved(mem, Successor(mem))
    <3>1. mem \in Operation /\ mem.state \in Progress /\ pc = "log"
      BY <1>3, <2>3 DEF IInv, TypeOK, Control, RunCalls, Log
    <3>2. Successor(mem) \in (Progress \cup {"COMPLETED"}) \ {"CHECKING"}
      BY <3>1, SuccessorFacts
    <3>3. mem' \in Operation /\ mem'.state = Successor(mem)
      BY <2>3, <3>1, <3>2, MovedFacts DEF States, Progress, PreMutation, Terminal
    <3>4. pc' \notin {"stop_broker", "recheck", "log"}
      BY <2>3, <3>2, <3>3, FirstCallFacts DEF Progress
    <3>5. pc' \in Offline => mem.state \in {"STOPPING", "BACKING_UP", "MIGRATING"}
      BY <2>3, <3>1, OfflineCallAfterStop
    <3>6. UNCHANGED services
      BY <1>3 DEF Log
    <3> QED BY <2>3, <3>1, <3>4, <3>5, <3>6 DEF Down, Stopped, services
  <2> QED BY <1>3, <2>1, <2>2, <2>3, LogSteps
<1>4. CASE Recover
  <2>1. pc' \in {"idle", "maintain", "giveup"}
    BY <1>4, RecordOutcome DEF Recover, LetGo
  <2> QED BY <2>1 DEF Down, Offline
<1>5. CASE GiveUp
  <2>1. pc' = "idle"
    BY <1>5, RecordOutcome DEF GiveUp, LetGo
  <2> QED BY <2>1 DEF Down, Offline
<1>6. CASE Check \/ Maintain \/ Prepare \/ Health \/ Commit \/ Open \/ Acknowledge \/ Fail
  <2>1. /\ pc' \notin Offline \cup {"recheck", "stop_broker"}
        /\ ~(mode' = "run" /\ pc' = "log" /\ mem'.state \in {"STOPPING", "BACKING_UP", "MIGRATING"})
    <3>1. CASE Check \/ Maintain \/ Prepare
      BY <3>1 DEF Check, Maintain, Prepare, IInv, Control, RunCalls, Offline, ForwardCalls,
         BackCalls, Restoring, TypeOK, Modes
    <3>2. CASE Health
      <4>1. mode \in {"run", "forward", "back"} /\ (mode = "run" => mem.state = "HEALTH_CHECKING")
        BY <3>2 DEF Health, IInv, TypeOK, Control, RunCalls, Modes
      <4> QED BY <3>2, <4>1 DEF Health, Offline
    <3>3. CASE Commit \/ Open \/ Acknowledge
      BY <3>3 DEF Commit, Open, Acknowledge, LetGo, IInv, Control, RunCalls, Offline
    <3>4. CASE Fail
      BY <3>4 DEF Fail, OnError, LetGo, Offline
    <3> QED BY <1>6, <3>1, <3>2, <3>3, <3>4
  <2> QED BY <2>1 DEF Down
<1>7. CASE StopAdmin
  <2>1. running["admin"]' = 0 /\ "admin" \notin boot' /\ pc' = "stop_broker"
    BY <1>7 DEF StopAdmin, IInv, TypeOK, Services
  <2> QED BY <2>1 DEF Down, Stopped, Offline
<1>8. CASE StopBroker
  <2>1. \A s \in Services : running'[s] = 0 /\ s \notin boot'
    BY <1>8 DEF StopBroker, Down, Stopped, IInv, TypeOK, Services
  <2> QED BY <1>8, <2>1 DEF StopBroker, Down, Stopped
<1>9. CASE Recheck \/ Snapshot \/ Migrate \/ RestoreBegin \/ RestoreDisplace \/ RestorePlace
           \/ RestoreCheck \/ RestoreSecure \/ RestoreRecord
           \/ (\E s \in Services : Activate(s) \/ RestoreUnit(s))
  <2>1. pc \in Offline \cup {"recheck"} /\ UNCHANGED services /\ pc' # "stop_broker"
    BY <1>9 DEF Recheck, Snapshot, Migrate, RestoreBegin, RestoreDisplace, RestorePlace,
       RestoreCheck, RestoreSecure, RestoreRecord, Activate, RestoreUnit, Offline
  <2> QED BY <2>1 DEF Down, Stopped, services
<1>10. ASSUME NEW s \in Services, Start(s) PROVE Down'
  <2>1. /\ pc' \in {"start_admin", "log", "health"} /\ UNCHANGED <<mode, mem>>
        /\ mode = "run" => mem.state = "STARTING"
    BY <1>10 DEF Start, IInv, Control, RunCalls
  <2> QED BY <2>1 DEF Down, Offline
<1>11. CASE Supervisor \/ BrokerSave \/ BrokerRestart \/ Clients
  <2>1. UNCHANGED <<running, boot, pc, mode, mem>>
    BY <1>11 DEF Supervisor, SupervisorRecord, SupervisorRestart, BrokerSave, BrokerRestart,
       Clients, AdminAdmit, AdminStore, BrokerPublish, Login, services, locals
  <2> QED BY <2>1 DEF Down, Stopped
<1>12. CASE Crash \/ Reboot
  BY <1>12 DEF Crash, Reboot, Dies, LetGo, Down, Offline
<1>13. ASSUME NEW s \in Services, BootStart(s) PROVE Down'
  <2>1. /\ s \in boot /\ boot' = boot \ {s} /\ UNCHANGED <<pc, mode, mem>>
        /\ \A t \in Services \ {s} : running'[t] = running[t]
    BY <1>13 DEF BootStart, Launch, locals, IInv, TypeOK
  <2> QED BY <2>1 DEF Down, Stopped, Services
<1>14. CASE UNCHANGED vars
  BY <1>14 DEF vars, services, locals, Down, Stopped
<1> QED
  BY <1>1, <1>2, <1>3, <1>4, <1>5, <1>6, <1>7, <1>8, <1>9, <1>10, <1>11, <1>12, <1>13, <1>14
     DEF Next, Controller

(***************************************************************************)
(* The snapshot, the migration, the replacement of the units and every     *)
(* call of a restore find both services down, and keep them so: a stop     *)
(* also drops the start jobs a reboot left (host.py:162-171).              *)
(***************************************************************************)
THEOREM ReplacesOffline == Spec => []OfflineWhileReplacing
<1>1. Init => Down
  BY DEF Init, Down, Offline
<1>2. Down => OfflineWhileReplacing
  BY DEF Down, Stopped, OfflineWhileReplacing, Quiescent
<1> QED BY <1>1, <1>2, Inductive, DownInv, PTL DEF Spec

-----------------------------------------------------------------------------
(* The commit point is a one-way door.                                     *)

\* While the controller works on the calls of a chain, the disk has its record.
Synced == mode \in {"run", "back"} /\ pc \in Calls \cup {"log"} => mem = journal

\* An operation's own recovery point is not touched before recovery.
Fresh == mode = "run" /\ pc \in Calls \cup {"log"} => work.own = "none"

\* A restore moves the data away only with the recovery point in hand.
Moving ==
    /\ pc \in {"displace", "place"} => Point.present /\ work.own = "none"
    /\ pc = "displace" => runtime.present

\* Only a rollback can leave the data directory moved away, and then nothing
\* but a restore of the operation's own recovery point comes next.
Absent ==
    ~runtime.present =>
        /\ ~journal.committed /\ work.own = "none"
        /\ journal.state \notin PreMutation \cup {"IDLE", "COMPLETED", "ROLLED_BACK", "FAILED"}
        /\ pc # "idle" => ~mem.committed /\ mem.state \notin PreMutation
        /\ \/ pc = "idle"
           \/ mode = "run" /\ pc \in {"place", "recover", "giveup"}
           \/ /\ mode = "back"
              /\ pc \in {"maintain", "stop_admin", "stop_broker", "restore", "place",
                        "start_broker", "giveup"}

Door == Synced /\ Fresh /\ Moving /\ Absent

LEMMA DoorInit == Init => Door
BY DEF Init, Door, Synced, Fresh, Moving, Absent

\* What a journal write can leave behind keeps the four parts.
LEMMA DoorRecord ==
    ASSUME IInv, Door, NEW o \in Operation, NEW n, NEW m \in Modes, NEW e,
           Record(o, n, m, e),
           ~(e \in Calls \cup {"log"}), n \notin {"displace", "place"},
           UNCHANGED <<runtime, snaps, work>>,
           m = "run" /\ n \in Calls \cup {"log"} => work.own = "none",
           ~runtime.present =>
             /\ ~o.committed
             /\ o.state \notin PreMutation \cup {"IDLE", "COMPLETED", "ROLLED_BACK", "FAILED"}
             /\ e \in {"idle", "recover", "giveup"} /\ (e # "idle" => mode \in {"run", "back"})
             /\ e = "recover" => mode = "run"
             /\ \/ n = "idle"
                \/ n = "recover" /\ m = "run"
                \/ n = "maintain" /\ m = "back"
    PROVE  Door'
<1>1. CASE LetGo
  BY <1>1, RecordOutcome DEF LetGo, Door, Synced, Fresh, Moving, Absent, Calls, Offline
<1>2. CASE journal' = o /\ n # "idle" /\ pc' = n /\ mode' = m /\ mem' = o
  BY <1>2 DEF Door, Synced, Fresh, Moving, Absent
<1>3. CASE e # "idle" /\ pc' = e /\ mode' = mode /\ mem' = o /\ UNCHANGED <<source, security>>
  BY <1>3, RecordOutcome DEF Door, Synced, Fresh, Moving, Absent, Calls, Offline
<1> QED BY <1>1, <1>2, <1>3, RecordOutcome

LEMMA BeginDoor ==
    ASSUME IInv, Door, NEW o, Begin(o), FirstCall(o) \in {"resolve", "verify_snapshot"}
    PROVE  Door'
<1>1. /\ pc = "idle" /\ mode = "none" /\ runtime.present /\ runtime' = runtime
      /\ work' = [own |-> "none", target |-> "none"]
  BY DEF Begin, MayBegin, Terminal, Door, Absent, IInv, Control
<1>2. \/ journal' = o /\ pc' = FirstCall(o) /\ mode' = "run" /\ mem' = o
      \/ pc' = "idle" /\ mode' = "none"
  BY <1>1 DEF Begin
<1>3. work'.own = "none"
  BY <1>1
<1> QED BY <1>1, <1>2, <1>3 DEF Door, Synced, Fresh, Moving, Absent

LEMMA OwnerDoor == IInv /\ Door /\ Owner => Door'
<1> SUFFICES ASSUME IInv, Door, Owner PROVE Door'
  OBVIOUS
<1>1. ASSUME NEW v \in Versions, Install(v) PROVE Door'
  <2> DEFINE o == NewOperation(ops + 1, "install", v, installed)
  <2>1. o \in Operation /\ o.kind = "install" /\ o.state = "CHECKING"
    BY <1>1, NewOperationFacts, UpdaterAssumption DEF Install, Begin, IInv, TypeOK
  <2>2. FirstCall(o) = "resolve" /\ Begin(o)
    BY <1>1, <2>1, FirstCallFacts DEF Install, Progress
  <2> QED BY <2>2, BeginDoor
<1>2. ASSUME NEW i \in OpIds, Rollback(i) PROVE Door'
  <2> DEFINE o == NewOperation(ops + 1, "rollback", hist[i].prev.version, installed)
  <2>1. hist[i].prev.version \in Versions
    BY DEF IInv, TypeOK, Operation, InstalledRecord
  <2>2. o \in Operation /\ o.kind = "rollback" /\ o.state = "CHECKING"
    BY <1>2, <2>1, NewOperationFacts, UpdaterAssumption DEF Rollback, Begin, IInv, TypeOK
  <2>3. FirstCall(o) = "verify_snapshot" /\ Begin(o)
    BY <1>2, <2>2, FirstCallFacts DEF Rollback, Progress
  <2> QED BY <2>3, BeginDoor
<1>3. ASSUME RetryRecovery PROVE Door'
  <2> DEFINE state == IF journal.committed THEN "COMMITTING" ELSE "ROLLING_BACK"
             o == [journal EXCEPT !.state = state]
  <2>1. o \in Operation /\ o.state = state /\ (o.committed <=> journal.committed)
    BY DEF IInv, TypeOK, Operation, States
  <2>2. Record(o, "recover", "run", "idle") /\ UNCHANGED <<runtime, snaps, work>>
    BY <1>3 DEF RetryRecovery
  <2>3. ~runtime.present =>
          ~o.committed /\ o.state \notin PreMutation \cup {"IDLE", "COMPLETED", "ROLLED_BACK", "FAILED"}
    BY <2>1 DEF Door, Absent, PreMutation
  <2> HIDE DEF o
  <2>4. \/ LetGo /\ journal' \in {journal, o}
        \/ pc' = "recover" /\ mode' = "run" /\ journal' = o /\ mem' = o
    BY <2>2, RecordOutcome
  <2> QED
    BY <2>2, <2>3, <2>4 DEF LetGo, Door, Synced, Fresh, Moving, Absent, Calls, Offline
<1> QED BY <1>1, <1>2, <1>3 DEF Owner

LEMMA JournalDoor == IInv /\ Door /\ (Log \/ Recover \/ GiveUp) => Door'
<1> SUFFICES ASSUME IInv, Door, Log \/ Recover \/ GiveUp PROVE Door'
  OBVIOUS
<1>1. CASE Log
  <2>1. runtime.present /\ runtime' = runtime
    BY <1>1 DEF Log, Door, Absent
  <2>2. UNCHANGED <<snaps, work>> /\ pc = "log"
    BY <1>1 DEF Log
  <2>3. CASE LetGo
    BY <2>1, <2>2, <2>3 DEF LetGo, Door, Synced, Fresh, Moving, Absent
  <2>4. CASE pc' = OnError /\ mode' = mode
    BY <2>1, <2>2, <2>4 DEF OnError, Door, Synced, Fresh, Moving, Absent, Calls, Offline
  <2>5. CASE /\ mode = "run" /\ pc' = FirstCall(Moved(mem, Successor(mem))) /\ mode' = mode
             /\ mem' = Moved(mem, Successor(mem)) /\ journal' = mem'
    <3>1. mem \in Operation /\ mem.state \in Progress
      BY <1>1, <2>5 DEF IInv, TypeOK, Control, RunCalls, Log
    <3>2. mem' \in Operation /\ mem'.state \in (Progress \cup {"COMPLETED"}) \ {"CHECKING"}
      BY <2>5, <3>1, SuccessorFacts, MovedFacts DEF States, Progress, PreMutation, Terminal
    <3>3. pc' \notin {"displace", "place"}
      BY <2>5, <3>2, FirstCallFacts DEF Progress
    <3> QED BY <2>1, <2>2, <2>5, <3>3 DEF Door, Synced, Fresh, Moving, Absent
  <2> QED BY <1>1, <2>3, <2>4, <2>5, LogSteps
<1>2. CASE Recover
  <2>1. /\ mode = "run" /\ mem \in Operation /\ pc = "recover"
        /\ UNCHANGED <<runtime, snaps, work>>
    BY <1>2 DEF IInv, TypeOK, Control, Recover, Modes, ForwardCalls, BackCalls, Restoring
  <2>2. CASE mem.committed
    BY <1>2, <2>1, <2>2 DEF Recover, Door, Synced, Fresh, Moving, Absent
  <2>3. CASE ~mem.committed /\ mem.state \in PreMutation
    <3> DEFINE o == Moved(mem, "FAILED")
    <3>1. Record(o, "idle", "none", "idle") /\ runtime.present
      BY <1>2, <2>3 DEF Recover, Door, Absent
    <3>2. o \in Operation
      BY <2>1, MovedFacts DEF States, Terminal
    <3> HIDE DEF o
    <3> QED BY <2>1, <3>1, <3>2, DoorRecord DEF Modes, Calls, Offline
  <2>4. CASE ~mem.committed /\ mem.state \notin PreMutation
    <3> DEFINE o == Moved(mem, "ROLLING_BACK")
    <3>1. Record(o, "maintain", "back", "giveup")
      BY <1>2, <2>4 DEF Recover
    <3>2. o \in Operation /\ o.state = "ROLLING_BACK" /\ ~o.committed
      BY <2>1, <2>4, MovedFacts DEF States
    <3> HIDE DEF o
    <3> QED BY <2>1, <3>1, <3>2, DoorRecord DEF Modes, Calls, Offline, PreMutation
  <2> QED BY <2>2, <2>3, <2>4
<1>3. CASE GiveUp
  <2>1. /\ mem \in Operation /\ pc = "giveup" /\ UNCHANGED <<runtime, snaps, work>>
    BY <1>3 DEF IInv, TypeOK, GiveUp
  <2>2. CASE MayMove(mem, "RECOVERY_REQUIRED")
    <3> DEFINE o == Moved(mem, "RECOVERY_REQUIRED")
    <3>1. Record(o, "idle", "none", "idle")
      BY <1>3, <2>2 DEF GiveUp
    <3>2. o \in Operation /\ o.state = "RECOVERY_REQUIRED" /\ (o.committed <=> mem.committed)
      BY <2>1, MovedFacts DEF States, Terminal
    <3>3. ~runtime.present => ~o.committed
      BY <2>1, <3>2 DEF Door, Absent
    <3> HIDE DEF o
    <3>4. o.state \notin PreMutation \cup {"IDLE", "COMPLETED", "ROLLED_BACK", "FAILED"}
      BY <3>2 DEF PreMutation
    <3>5. LetGo /\ journal' \in {journal, o}
      BY <3>1, RecordOutcome
    <3> QED
      BY <2>1, <3>3, <3>4, <3>5 DEF LetGo, Door, Synced, Fresh, Moving, Absent
  <2>3. CASE ~MayMove(mem, "RECOVERY_REQUIRED")
    BY <1>3, <2>1, <2>3 DEF GiveUp, LetGo, Door, Synced, Fresh, Moving, Absent
  <2> QED BY <2>2, <2>3
<1> QED BY <1>1, <1>2, <1>3

\* Calls that leave the data directory, the recovery points and the restore log alone.
LEMMA CallDoor ==
    IInv /\ Door /\ (Check \/ Maintain \/ Prepare \/ StopAdmin \/ StopBroker \/ Recheck \/ Health
                     \/ Commit \/ Open \/ Acknowledge \/ RestoreRecord \/ Fail
                     \/ \E s \in Services : Activate(s) \/ RestoreUnit(s)) => Door'
<1> SUFFICES ASSUME IInv, Door,
                    Check \/ Maintain \/ Prepare \/ StopAdmin \/ StopBroker \/ Recheck \/ Health
                      \/ Commit \/ Open \/ Acknowledge \/ RestoreRecord \/ Fail
                      \/ \E s \in Services : Activate(s) \/ RestoreUnit(s)
             PROVE  Door'
  OBVIOUS
<1> USE DEF Call, GoTo, disk, services, ghosts
<1>1. UNCHANGED <<journal, snaps, work>> /\ runtime'.present = runtime.present
  <2>1. CASE StopBroker
    BY <2>1, SaveFacts DEF StopBroker
  <2>2. CASE ~StopBroker
    BY <2>2 DEF Check, Maintain, Prepare, StopAdmin, Recheck, Health, Commit, Open,
       Acknowledge, RestoreRecord, Fail, Activate, RestoreUnit
  <2> QED BY <2>1, <2>2
<1>2. CASE LetGo
  BY <1>1, <1>2 DEF LetGo, Door, Synced, Fresh, Moving, Absent
<1>3. CASE ~LetGo
  <2>1. UNCHANGED <<mode, mem, source>>
    BY <1>3 DEF Check, Maintain, Prepare, StopAdmin, StopBroker, Recheck, Health, Commit, Open,
       Acknowledge, RestoreRecord, Fail, Activate, RestoreUnit
  <2>2. CASE Fail
    BY <1>1, <1>3, <2>1, <2>2
       DEF Fail, OnError, Hopeless, Door, Synced, Fresh, Moving, Absent, Calls, Offline, IInv,
           TypeOK, Control, Modes, ForwardCalls
  <2>3. CASE ~Fail
    <3>1. pc \in Calls /\ pc' \notin {"displace", "place"}
      <4>1. CASE Health
        <5>1. mode \in {"run", "forward", "back"}
          BY <4>1 DEF Health, IInv, TypeOK, Control, Modes
        <5> QED BY <4>1, <5>1 DEF Health, Calls
      <4> QED
        BY <1>3, <2>3, <4>1 DEF Check, Maintain, Prepare, StopAdmin, StopBroker, Recheck, Commit,
           Open, Acknowledge, RestoreRecord, Activate, RestoreUnit, Calls, Offline
    <3>2. Synced' /\ Fresh' /\ Moving'
      BY <1>1, <2>1, <3>1 DEF Door, Synced, Fresh, Moving
    <3>3. Absent'
      <4> SUFFICES ASSUME ~runtime.present PROVE Absent'
        BY <1>1 DEF Absent
      <4>1. /\ mode = "back"
            /\ pc \in {"maintain", "stop_admin", "stop_broker"}
        BY <1>3, <2>3, <3>1 DEF Door, Absent, Check, Maintain, Prepare, StopAdmin, StopBroker, Recheck,
           Health, Commit, Open, Acknowledge, RestoreRecord, Activate, RestoreUnit, Calls, Offline,
           IInv, Control
      <4>2. pc' \in {"stop_admin", "stop_broker", "restore", "start_broker"}
        BY <2>3, <4>1 DEF Check, Maintain, Prepare, StopAdmin, StopBroker, Recheck,
           Health, Commit, Open, Acknowledge, RestoreRecord, Activate, RestoreUnit
      <4> QED BY <1>1, <2>1, <4>1, <4>2 DEF Door, Absent
    <3> QED BY <3>2, <3>3 DEF Door
  <2> QED BY <2>2, <2>3
<1> QED BY <1>2, <1>3

\* Calls that write recovery points or the data directory.
LEMMA DataDoor ==
    IInv /\ Door /\ (Snapshot \/ Migrate \/ RestoreBegin \/ RestoreDisplace \/ RestorePlace
                     \/ RestoreCheck \/ RestoreSecure \/ \E s \in Services : Start(s)) => Door'
<1> SUFFICES ASSUME IInv, Door,
                    Snapshot \/ Migrate \/ RestoreBegin \/ RestoreDisplace \/ RestorePlace
                      \/ RestoreCheck \/ RestoreSecure \/ \E s \in Services : Start(s)
             PROVE  Door'
  OBVIOUS
<1> USE DEF Call, GoTo, disk, services, ghosts
<1>1. CASE Snapshot
  BY <1>1 DEF Snapshot, Door, Synced, Fresh, Moving, Absent, Calls, Offline
<1>2. CASE Migrate
  <2>1. runtime'.present = runtime.present
    BY <1>2 DEF Migrate, IInv, TypeOK, Data
  <2> QED BY <1>2, <2>1 DEF Migrate, Door, Synced, Fresh, Moving, Absent, Calls, Offline
<1>3. CASE RestoreBegin
  <2>1. /\ pc = "restore" /\ Point.present /\ mode \in {"run", "back"}
        /\ work[Key] \in {"none", "installed", "completed"}
    BY <1>3 DEF RestoreBegin, IInv, TypeOK, Control, Modes, ForwardCalls, Key
  <2>2. /\ UNCHANGED <<journal, runtime, snaps, work, mode, mem, source>>
        /\ Point' = Point
    BY <1>3 DEF RestoreBegin, Point
  <2>3. work.own = "none" => (mode = "back" => work[Key] = "none")
    BY DEF Key
  <2>4. pc' \in {"secure", "check", "displace", "place"} /\ pc' \in Calls
    BY <1>3, <2>1 DEF RestoreBegin, Calls, Offline
  <2>5. pc' \in {"displace", "place"} => work[Key] = "none"
    BY <1>3, <2>1 DEF RestoreBegin
  <2>6. pc' = "displace" => runtime.present
    BY <1>3, <2>1 DEF RestoreBegin
  <2>7. Synced' /\ Fresh'
    BY <2>1, <2>2, <2>4 DEF Door, Synced, Fresh, Calls, Offline
  <2>8. Moving'
    <3>1. pc' \in {"displace", "place"} => work.own = "none"
      BY <2>1, <2>5 DEF Door, Fresh, Key, Calls, Offline
    <3> QED BY <2>1, <2>2, <2>6, <3>1 DEF Moving
  <2>9. Absent'
    <3> SUFFICES ASSUME ~runtime.present PROVE Absent'
      BY <2>2 DEF Absent
    <3>1. mode = "back" /\ work[Key] = "none"
      BY <2>1, <2>3 DEF Door, Absent
    <3>2. pc' = "place"
      BY <1>3, <3>1 DEF RestoreBegin
    <3> QED BY <2>1, <2>2, <3>1, <3>2 DEF Door, Absent
  <2> QED BY <2>7, <2>8, <2>9 DEF Door
<1>4. CASE RestoreDisplace
  <2>1. /\ pc = "displace" /\ pc' = "place" /\ mode \in {"run", "back"} /\ mem = journal
        /\ work.own = "none" /\ Point.present
        /\ mode = "run" => mem.state = "INSTALLING"
        /\ mode = "back" => mem.state = "ROLLING_BACK" /\ ~mem.committed
    BY <1>4 DEF RestoreDisplace, Door, Synced, Moving, IInv, TypeOK, Control, RunCalls, Modes,
       ForwardCalls, Restoring, Calls, Offline
  <2>2. ~mem.committed
    BY <2>1 DEF IInv, Link, CommitPoint, Terminal
  <2>3. UNCHANGED <<journal, snaps, work, mode, mem, source>> /\ Point' = Point
    BY <1>4 DEF RestoreDisplace, Point
  <2> QED
    BY <2>1, <2>2, <2>3 DEF Door, Synced, Fresh, Moving, Absent, PreMutation, Calls, Offline
<1>5. CASE RestorePlace
  <2>1. /\ pc = "place" /\ pc' = "check" /\ mode \in {"run", "back"} /\ runtime'.present
        /\ UNCHANGED <<journal, mode, mem>>
    BY <1>5 DEF RestorePlace, Door, Moving, IInv, TypeOK, Control, Modes, ForwardCalls
  <2>2. mode = "run" => work'.own = "none"
    BY <1>5, <2>1 DEF RestorePlace, Door, Fresh, Key, Calls, Offline, IInv, TypeOK
  <2> QED BY <2>1, <2>2 DEF Door, Synced, Fresh, Moving, Absent, Calls, Offline
<1>6. CASE RestoreCheck
  <2>1. mode = "run" => work'.own = "none"
    BY <1>6 DEF RestoreCheck, Door, Fresh, Key, Calls, Offline, IInv, TypeOK
  <2> QED BY <1>6, <2>1 DEF RestoreCheck, Door, Synced, Fresh, Moving, Absent, Calls, Offline
<1>7. CASE RestoreSecure
  <2>1. runtime'.present = runtime.present
    BY <1>7 DEF RestoreSecure, IInv, TypeOK, Data
  <2> QED BY <1>7, <2>1 DEF RestoreSecure, Door, Synced, Fresh, Moving, Absent, Calls, Offline
<1>8. ASSUME NEW s \in Services, Start(s) PROVE Door'
  <2>1. runtime'.present
    BY <1>8, LaunchFacts DEF Start
  <2>2. /\ pc \in Calls /\ pc' \notin {"displace", "place"}
        /\ UNCHANGED <<journal, snaps, work, mode, mem, source>>
    BY <1>8 DEF Start, Calls
  <2> QED BY <2>1, <2>2 DEF Door, Synced, Fresh, Moving, Absent
<1> QED BY <1>1, <1>2, <1>3, <1>4, <1>5, <1>6, <1>7, <1>8

LEMMA OutsideDoor ==
    IInv /\ Door /\ (Resume \/ Supervisor \/ BrokerSave \/ BrokerRestart \/ Crash \/ Reboot
                     \/ Clients \/ \E s \in Services : BootStart(s)) => Door'
<1> SUFFICES ASSUME IInv, Door,
                    Resume \/ Supervisor \/ BrokerSave \/ BrokerRestart \/ Crash \/ Reboot
                      \/ Clients \/ \E s \in Services : BootStart(s)
             PROVE  Door'
  OBVIOUS
<1>1. CASE Resume
  BY <1>1 DEF Resume, disk, Door, Synced, Fresh, Moving, Absent, Calls, Offline, IInv, Link,
     CommitPoint, Point
<1>2. CASE Crash \/ Reboot
  BY <1>2 DEF Crash, Reboot, Dies, LetGo, disk, Door, Synced, Fresh, Moving, Absent
<1>4. ASSUME UNCHANGED <<journal, snaps, work, locals>>,
             runtime'.present \/ (~runtime.present /\ ~runtime'.present)
      PROVE  Door'
  BY <1>4 DEF locals, Door, Synced, Fresh, Moving, Absent, Point
<1>3. CASE Supervisor \/ BrokerSave \/ BrokerRestart
  <2>1. runtime'.present = runtime.present
    BY <1>3, SaveFacts DEF Supervisor, SupervisorRecord, SupervisorRestart, BrokerSave,
       BrokerRestart, disk
  <2>2. UNCHANGED <<journal, snaps, work, locals>>
    BY <1>3 DEF Supervisor, SupervisorRecord, SupervisorRestart, BrokerSave, BrokerRestart, disk
  <2> QED BY <1>4, <2>1, <2>2
<1>5. CASE Clients
  <2>1. runtime'.present <=> runtime.present
    BY <1>5 DEF Clients, AdminAdmit, AdminStore, BrokerPublish, Login, disk, IInv, TypeOK, Data
  <2>2. UNCHANGED <<journal, snaps, work, locals>>
    BY <1>5 DEF Clients, AdminAdmit, AdminStore, BrokerPublish, Login, disk
  <2> QED BY <1>4, <2>1, <2>2
<1>6. ASSUME NEW s \in Services, BootStart(s) PROVE Door'
  BY <1>4, <1>6, LaunchFacts DEF BootStart
<1> QED BY <1>1, <1>2, <1>3, <1>5, <1>6

LEMMA DoorInv == IInv /\ Door /\ [Next]_vars => Door'
<1> SUFFICES ASSUME IInv, Door, [Next]_vars PROVE Door'
  OBVIOUS
<1>1. CASE Owner \/ Controller
  BY <1>1, OwnerDoor, JournalDoor, CallDoor, DataDoor DEF Controller
<1>2. CASE UNCHANGED vars
  BY <1>2 DEF vars, disk, locals, Door, Synced, Fresh, Moving, Absent, Point
<1> QED BY <1>1, <1>2, OutsideDoor DEF Next

\* A write of the journal never takes the commit point back.
LEMMA JournalCommitted ==
    ASSUME IInv, journal.committed, journal'.id = journal.id, Owner \/ Log \/ Recover \/ GiveUp
    PROVE  journal'.committed /\ runtime' = runtime
<1> USE DEF services
<1>1. ASSUME NEW o, Begin(o), o.id = ops + 1 PROVE FALSE
  BY <1>1 DEF Begin, IInv, TypeOK, Link, Operation
<1>2. ASSUME NEW v \in Versions, Install(v) PROVE FALSE
  BY <1>1, <1>2 DEF Install, NewOperation
<1>3. ASSUME NEW i \in OpIds, Rollback(i) PROVE FALSE
  BY <1>1, <1>3 DEF Rollback, NewOperation
<1>4. CASE RetryRecovery
  <2>1. [journal EXCEPT !.state = "COMMITTING"].committed
    BY DEF IInv, TypeOK, Operation
  <2> QED BY <1>4, <2>1, RecordOutcome DEF RetryRecovery
<1>5. CASE Log
  <2> DEFINE next == CASE mode = "run" -> Successor(mem)
                       [] mode = "forward" -> "COMPLETED"
                       [] mode = "back" -> "ROLLED_BACK"
  <2>1. mem \in Operation /\ mem.committed /\ runtime' = runtime
    BY <1>5 DEF Log, IInv, TypeOK, Link
  <2>2. Moved(mem, next).committed
    BY <2>1 DEF Moved, Operation
  <2>3. \/ journal' = journal
        \/ \E n, m, e : Record(Moved(mem, next), n, m, e)
    BY <1>5 DEF Log
  <2>4. journal' \in {journal, Moved(mem, next)}
    BY <2>3, RecordOutcome
  <2> QED BY <2>1, <2>2, <2>4
<1>6. CASE Recover
  BY <1>6 DEF Recover, IInv, Link
<1>7. CASE GiveUp
  <2>1. mem \in Operation /\ mem.committed /\ runtime' = runtime
    BY <1>7 DEF GiveUp, IInv, TypeOK, Link
  <2>2. Moved(mem, "RECOVERY_REQUIRED").committed
    BY <2>1 DEF Moved, Operation
  <2>3. journal' \in {journal, Moved(mem, "RECOVERY_REQUIRED")}
    BY <1>7, RecordOutcome DEF GiveUp
  <2> QED BY <2>1, <2>2, <2>3
<1> QED BY <1>2, <1>3, <1>4, <1>5, <1>6, <1>7 DEF Owner

\* Only the two moves of a restore take data away, and they precede the commit point.
LEMMA WritesKept ==
    ASSUME IInv, Door, journal.committed, [Next]_vars, ~(Owner \/ Log \/ Recover \/ GiveUp)
    PROVE  journal' = journal /\ runtime.writes \subseteq runtime'.writes
<1> USE DEF Call, GoTo, disk, services, locals, ghosts
<1>1. CASE Check \/ Maintain \/ Prepare \/ StopAdmin \/ Recheck \/ Health \/ Commit
           \/ Open \/ Acknowledge \/ RestoreRecord \/ Fail \/ Snapshot \/ RestoreBegin \/ RestoreCheck
           \/ (\E s \in Services : Activate(s) \/ RestoreUnit(s))
  BY <1>1 DEF Check, Maintain, Prepare, StopAdmin, Recheck, Health, Commit, Open,
     Acknowledge, RestoreRecord, Fail, Activate, RestoreUnit, Snapshot, RestoreBegin, RestoreCheck
<1>2. CASE Migrate \/ RestoreSecure
  BY <1>2 DEF Migrate, RestoreSecure, IInv, TypeOK, Data
<1>3. CASE RestoreDisplace \/ RestorePlace
  <2>1. mode \in {"run", "back"} /\ pc \in {"displace", "place"} /\ mem.committed
    BY <1>3 DEF RestoreDisplace, RestorePlace, IInv, TypeOK, Control, Modes, ForwardCalls, Link
  <2>2. mode = "run" => mem.state = "INSTALLING"
    BY <2>1 DEF IInv, Control, RunCalls, Restoring
  <2> QED BY <2>1, <2>2 DEF IInv, Control, Link, CommitPoint, Terminal
<1>4. ASSUME NEW s \in Services, Start(s) \/ BootStart(s)
      PROVE  journal' = journal /\ runtime.writes \subseteq runtime'.writes
  BY <1>4, LaunchFacts DEF Start, BootStart
<1>5. CASE StopBroker \/ SupervisorRestart \/ BrokerSave
  BY <1>5, SaveFacts DEF StopBroker, SupervisorRestart, BrokerSave
<1>7. CASE Resume \/ SupervisorRecord \/ BrokerRestart \/ Crash \/ Reboot \/ UNCHANGED vars
  BY <1>7 DEF Resume, SupervisorRecord, BrokerRestart, Crash, Reboot, vars
<1>6. CASE Clients
  BY <1>6 DEF Clients, AdminAdmit, AdminStore, BrokerPublish, Login, IInv, TypeOK, Data
<1> QED BY <1>1, <1>2, <1>3, <1>4, <1>5, <1>6, <1>7 DEF Next, Controller, Supervisor

LEMMA CommittedStep == IInv /\ IInv' /\ Door /\ Door' /\ [Next]_vars => CommittedStays
<1> SUFFICES ASSUME IInv, IInv', Door, Door', [Next]_vars, journal.committed,
                    journal'.id = journal.id
             PROVE  /\ journal'.committed /\ journal'.state # "ROLLING_BACK"
                    /\ runtime'.present /\ runtime.writes \subseteq runtime'.writes
  BY DEF CommittedStays
<1>1. journal'.committed /\ runtime.writes \subseteq runtime'.writes
  BY JournalCommitted, WritesKept
<1>2. journal'.state # "ROLLING_BACK"
  BY <1>1 DEF IInv, Link, CommitPoint, Terminal
<1>3. runtime'.present
  BY <1>1 DEF Door, Absent
<1> QED BY <1>1, <1>2, <1>3

(***************************************************************************)
(* Once the journal on disk says committed, the same operation never rolls *)
(* back, its data directory is never moved away, and no change made since  *)
(* is taken back: through failing calls, a disk that refuses the journal,  *)
(* crashes, reboots and the owner's retries (controller.py:40-41, 115-143; *)
(* journal.py:86-96).                                                      *)
(***************************************************************************)
THEOREM CommitIsFinal == Spec => CommittedMovesForward
<1>1. Spec => []Door
  BY DoorInit, DoorInv, Inductive, PTL DEF Spec
<1> QED BY <1>1, Inductive, CommittedStep, PTL DEF Spec, CommittedMovesForward

-----------------------------------------------------------------------------
(* Admin is stopped only once nobody writes any more.                      *)

\* The last check before STOPPING has seen the supervisor caught up; from then
\* on a "maintenance" in the gate file is about the maintenance now asked for.
Drain ==
    SupervisorIsPrompt /\ mode = "run" =>
        /\ pc = "maintain" => SupervisorCaughtUp
        /\ pc = "log" /\ mem.state = "PREPARING" => SupervisorCaughtUp
        /\ pc = "log" /\ mem.state = "CHECKING" /\ mem.kind = "rollback" => SupervisorCaughtUp
        /\ pc \in {"prepare", "stop_admin"} => marker /\ (gateFile = "maintenance" => bmode # "open")
        /\ pc = "stop_admin" => inflight = NoWrite /\ bmode # "open"

\* Drain says nothing of a step that leaves these calls.
LEMMA DrainElsewhere ==
    ASSUME \/ mode' # "run"
           \/ pc' \notin {"maintain", "log", "prepare", "stop_admin"}
           \/ pc' = "log" /\ mem'.state \notin {"PREPARING", "CHECKING"}
    PROVE  Drain'
BY DEF Drain

LEMMA DrainLog == IInv /\ Drain /\ Log => Drain'
<1> SUFFICES ASSUME IInv, Drain, Log PROVE Drain'
  OBVIOUS
<1>1. CASE LetGo \/ pc' = OnError
  BY <1>1, DrainElsewhere DEF LetGo, OnError
<1>2. CASE /\ mode = "run" /\ pc' = FirstCall(Moved(mem, Successor(mem)))
           /\ mode' = mode /\ mem' = Moved(mem, Successor(mem))
  <2>1. mem \in Operation /\ mem.state \in Progress /\ pc = "log" /\ UNCHANGED <<services, marker>>
    BY <1>2 DEF IInv, TypeOK, Control, RunCalls, Log
  <2>2. Successor(mem) \in (Progress \cup {"COMPLETED"}) \ {"CHECKING"}
    BY <2>1, SuccessorFacts
  <2>3. mem' \in Operation /\ mem'.state = Successor(mem)
    BY <1>2, <2>1, <2>2, MovedFacts DEF States, Progress, PreMutation, Terminal
  <2>4. pc' \notin {"log", "prepare", "stop_admin"}
    BY <1>2, <2>2, <2>3, FirstCallFacts DEF Progress
  <2>5. pc' = "maintain" => Successor(mem) = "STOPPING"
    BY <1>2, <2>2, <2>3, FirstCallFacts DEF Progress
  <2>6. Successor(mem) = "STOPPING" =>
          mem.state = "PREPARING" \/ (mem.state = "CHECKING" /\ mem.kind = "rollback")
    BY <2>1, SuccessorFacts
  <2>7. SupervisorIsPrompt /\ pc' = "maintain" => SupervisorCaughtUp
    BY <1>2, <2>1, <2>5, <2>6 DEF Drain
  <2>8. SupervisorCaughtUp' = SupervisorCaughtUp
    BY <2>1 DEF SupervisorCaughtUp, Gate, services
  <2> QED BY <2>4, <2>7, <2>8 DEF Drain
<1> QED BY <1>1, <1>2, LogSteps

LEMMA DrainController ==
    IInv /\ Drain /\ (Owner \/ Resume \/ Controller \/ Crash \/ Reboot) => Drain'
<1> SUFFICES ASSUME IInv, Drain, Owner \/ Resume \/ Controller \/ Crash \/ Reboot PROVE Drain'
  OBVIOUS
<1> USE DEF Call, GoTo, disk, services, ghosts
<1>1. CASE Owner
  <2>1. ASSUME NEW o, Begin(o), FirstCall(o) \in {"resolve", "verify_snapshot"} PROVE Drain'
    BY <2>1, DrainElsewhere DEF Begin
  <2>2. ASSUME NEW v \in Versions, Install(v) PROVE Drain'
    <3>1. ops + 1 \in 0..MaxOps /\ installed \in InstalledRecord
      BY <2>2, UpdaterAssumption DEF Install, Begin, IInv, TypeOK
    <3>2. FirstCall(NewOperation(ops + 1, "install", v, installed)) = "resolve"
      BY <3>1, NewOperationFacts, FirstCallFacts DEF Progress
    <3> QED BY <2>1, <2>2, <3>2 DEF Install
  <2>3. ASSUME NEW i \in OpIds, Rollback(i) PROVE Drain'
    <3>1. /\ ops + 1 \in 0..MaxOps /\ installed \in InstalledRecord
          /\ hist[i].prev.version \in Versions
      BY <2>3, UpdaterAssumption DEF Rollback, Begin, IInv, TypeOK, Operation, InstalledRecord
    <3>2. FirstCall(NewOperation(ops + 1, "rollback", hist[i].prev.version, installed))
            = "verify_snapshot"
      BY <3>1, NewOperationFacts, FirstCallFacts DEF Progress
    <3> QED BY <2>1, <2>3, <3>2 DEF Rollback
  <2>4. CASE RetryRecovery
    BY <2>4, RecordOutcome, DrainElsewhere DEF RetryRecovery, LetGo
  <2> QED BY <1>1, <2>2, <2>3, <2>4 DEF Owner
<1>2. CASE Resume \/ GiveUp \/ Crash \/ Reboot
  BY <1>2, RecordOutcome, DrainElsewhere DEF Resume, GiveUp, Crash, Reboot, Dies, LetGo
<1>3. CASE Recover
  BY <1>3, RecordOutcome, DrainElsewhere DEF Recover, LetGo
<1>4. CASE Check
  <2>1. /\ UNCHANGED <<running, gateFile, bmode, marker, mode, mem>> /\ pc' = "log"
        /\ mode = "run" /\ mem.state = "PREPARING" => pc = "preflight"
        /\ mode = "run" /\ mem.state = "CHECKING" /\ mem.kind = "rollback" => pc = "verify_snapshot"
        /\ pc \in {"preflight", "verify_snapshot"} => SupervisorCaughtUp
    BY <1>4 DEF Check, IInv, Control, RunCalls
  <2>2. SupervisorCaughtUp' = SupervisorCaughtUp
    BY <2>1 DEF SupervisorCaughtUp, Gate
  <2> QED BY <2>1, <2>2 DEF Drain
<1>5. CASE Maintain
  BY <1>5 DEF Maintain, Drain, SupervisorCaughtUp
<1>6. CASE Prepare
  BY <1>6 DEF Prepare, Drain
<1>7. CASE Health
  <2>1. mode \in {"run", "forward", "back"} /\ (mode = "run" => mem.state = "HEALTH_CHECKING")
    BY <1>7 DEF Health, IInv, TypeOK, Control, RunCalls, Modes
  <2> QED BY <1>7, <2>1, DrainElsewhere DEF Health
<1>8. CASE StopAdmin \/ StopBroker \/ Recheck \/ Snapshot \/ Migrate \/ Commit \/ Open
           \/ RestoreBegin \/ RestoreDisplace \/ RestorePlace \/ RestoreCheck \/ RestoreSecure
           \/ RestoreRecord \/ (\E s \in Services : Activate(s) \/ Start(s) \/ RestoreUnit(s))
  <2>1. mem' = mem
    BY <1>8 DEF StopAdmin, StopBroker, Recheck, Snapshot, Migrate, Commit, Open, RestoreBegin,
       RestoreDisplace, RestorePlace, RestoreCheck, RestoreSecure, RestoreRecord, Activate,
       Start, RestoreUnit
  <2>2. \/ mode' # "run" \/ pc' \notin {"maintain", "log", "prepare", "stop_admin"}
        \/ pc' = "log" /\ mem.state \notin {"PREPARING", "CHECKING"}
    BY <1>8 DEF StopAdmin, StopBroker, Recheck, Snapshot, Migrate, Commit, Open, RestoreBegin,
       RestoreDisplace, RestorePlace, RestoreCheck, RestoreSecure, RestoreRecord, Activate,
       Start, RestoreUnit, IInv, Control, RunCalls, Restoring
  <2> QED BY <2>1, <2>2, DrainElsewhere
<1>9. CASE Acknowledge \/ Fail
  <2>1. \/ mode' # "run" \/ pc' \notin {"maintain", "log", "prepare", "stop_admin"}
        \/ pc' = "log" /\ mem'.state \notin {"PREPARING", "CHECKING"}
    BY <1>9 DEF Acknowledge, Fail, OnError, LetGo, IInv, Control, RunCalls
  <2> QED BY <2>1, DrainElsewhere
<1> QED
  BY <1>1, <1>2, <1>3, <1>4, <1>5, <1>6, <1>7, <1>8, <1>9, DrainLog DEF Controller

LEMMA DrainOutside ==
    IInv /\ Drain /\ (Supervisor \/ BrokerSave \/ BrokerRestart \/ Clients
                      \/ \E s \in Services : BootStart(s)) => Drain'
<1> SUFFICES ASSUME IInv, Drain,
                    Supervisor \/ BrokerSave \/ BrokerRestart \/ Clients \/ \E s \in Services : BootStart(s)
             PROVE  Drain'
  OBVIOUS
<1> USE DEF disk, services, locals, ghosts
<1>1. CASE Supervisor \/ BrokerSave \/ BrokerRestart
  BY <1>1 DEF Supervisor, SupervisorRecord, SupervisorRestart, BrokerSave, BrokerRestart, Drain,
     SupervisorCaughtUp, Gate
<1>2. CASE Clients
  BY <1>2 DEF Clients, AdminAdmit, AdminStore, BrokerPublish, Login, Drain, SupervisorCaughtUp,
     Gate
<1>3. ASSUME NEW s \in Services, BootStart(s) PROVE Drain'
  <2>1. UNCHANGED <<locals, marker, gateFile, inflight>>
    BY <1>3 DEF BootStart, Launch
  <2>2. running["broker"] # 0 => bmode' = bmode /\ running'["broker"] # 0
    BY <1>3, UpdaterAssumption DEF BootStart, Launch, IInv, TypeOK, Services, Unit, Versions
  <2>3. bmode' # bmode => bmode' = Gate
    BY <1>3 DEF BootStart, Launch
  <2> QED BY <2>1, <2>2, <2>3 DEF Drain, SupervisorCaughtUp, Gate
<1> QED BY <1>1, <1>2, <1>3

LEMMA DrainInv == IInv /\ Drain /\ [Next]_vars => Drain'
<1> SUFFICES ASSUME IInv, Drain, [Next]_vars PROVE Drain'
  OBVIOUS
<1>1. CASE UNCHANGED vars
  BY <1>1 DEF vars, disk, services, locals, Drain, SupervisorCaughtUp, Gate
<1> QED BY <1>1, DrainController, DrainOutside DEF Next

(***************************************************************************)
(* Where the supervisor finishes a restart before the next operation asks  *)
(* for the maintenance gate, install() and rollback() stop Admin only when *)
(* it holds no request and the mosquitto that runs has left the public     *)
(* listeners: the file the controller reads is then no acknowledgement of  *)
(* an earlier operation (host.py:149-160, broker-entrypoint.sh:59-84).     *)
(***************************************************************************)
THEOREM StopsAreDrained == SupervisorIsPrompt => (Spec => []StopsDrained)
<1> SUFFICES ASSUME SupervisorIsPrompt PROVE Spec => []StopsDrained
  OBVIOUS
<1>1. Init => Drain
  BY DEF Init, Drain
<1>2. Drain => StopsDrained
  BY DEF Drain, StopsDrained
<1> QED BY <1>1, <1>2, Inductive, DrainInv, PTL DEF Spec
=============================================================================
