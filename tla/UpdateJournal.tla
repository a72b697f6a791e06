---------------------------- MODULE UpdateJournal ----------------------------
(***************************************************************************)
(* The operation record of the host updater and the rules of its state     *)
(* machine (scripts/updater/journal.py, and the order of the transitions   *)
(* that controller.py asks for).  Pure definitions: Updater.tla holds the  *)
(* two files the record is written to.                                     *)
(***************************************************************************)
EXTENDS Naturals

\* A finished operation; transition() refuses to leave these states.
Terminal == {"COMPLETED", "ROLLED_BACK", "FAILED", "RECOVERY_REQUIRED"}

\* The states from which a failure needs no rollback (controller.PRE_MUTATION).
PreMutation == {"CHECKING", "DOWNLOADING", "VERIFYING", "PREPARING"}

\* "IDLE" stands for an absent operation.json.
States ==
    {"IDLE", "STOPPING", "BACKING_UP", "MIGRATING", "INSTALLING", "STARTING",
     "HEALTH_CHECKING", "COMMITTING", "ROLLING_BACK"} \cup PreMutation \cup Terminal

\* begin(): a new operation needs the last one finished, and not in the one
\* finished state that asks for the operator.
MayBegin(o) == o.state = "IDLE" \/ o.state \in Terminal \ {"RECOVERY_REQUIRED"}

NewOperation(id, kind, version, previous) ==
    [id |-> id, kind |-> kind, state |-> "CHECKING", version |-> version,
     committed |-> FALSE, snap |-> FALSE, prev |-> previous]

\* The checks of transition().
MayMove(o, state) ==
    /\ o.state \notin Terminal
    /\ ~(o.committed /\ state = "ROLLING_BACK")

\* Mutant of Moved: entering COMMITTING does not set the commit point.
MovedUncommitted(o, state) ==
    [o EXCEPT !.state = state,
              !.snap = @ \/ (o.state = "BACKING_UP" /\ state \in {"MIGRATING", "INSTALLING"})]

\* The fields a transition of controller.py adds: COMMITTING is the commit
\* point, and leaving BACKING_UP stores the recovery point's identity.
Moved(o, state) ==
    [o EXCEPT !.state = state,
              !.committed = @ \/ state = "COMMITTING",
              !.snap = @ \/ (o.state = "BACKING_UP" /\ state \in {"MIGRATING", "INSTALLING"})]

\* The transitions of install() and of rollback(), in the order of the code.
Successor(o) ==
    [CHECKING        |-> IF o.kind = "install" THEN "DOWNLOADING" ELSE "STOPPING",
     DOWNLOADING     |-> "VERIFYING",
     VERIFYING       |-> "PREPARING",
     PREPARING       |-> "STOPPING",
     STOPPING        |-> "BACKING_UP",
     BACKING_UP      |-> IF o.kind = "install" THEN "MIGRATING" ELSE "INSTALLING",
     MIGRATING       |-> "INSTALLING",
     INSTALLING      |-> "STARTING",
     STARTING        |-> "HEALTH_CHECKING",
     HEALTH_CHECKING |-> "COMMITTING",
     COMMITTING      |-> "COMPLETED"][o.state]

\* The first call that follows each transition of install() and rollback().
FirstCall(o) ==
    [CHECKING        |-> IF o.kind = "install" THEN "resolve" ELSE "verify_snapshot",
     DOWNLOADING     |-> "download",
     VERIFYING       |-> "verify_images",
     PREPARING       |-> "preflight",
     STOPPING        |-> "maintain",
     BACKING_UP      |-> "snapshot",
     MIGRATING       |-> "migrate",
     INSTALLING      |-> IF o.kind = "install" THEN "activate_admin" ELSE "restore",
     STARTING        |-> "start_broker",
     HEALTH_CHECKING |-> "health",
     COMMITTING      |-> "commit",
     COMPLETED       |-> "idle"][o.state]
=============================================================================
