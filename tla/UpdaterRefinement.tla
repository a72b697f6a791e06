-------------------------- MODULE UpdaterRefinement --------------------------
(***************************************************************************)
(* Updater implements AtomicUpdate: the journal is the phase, the record   *)
(* that enters COMMITTING is the atomic change, and what survives is the   *)
(* recovery point as long as it may still replace the data directory.      *)
(***************************************************************************)
EXTENDS Updater

ReleaseInForce == IF journal.committed THEN journal.version ELSE journal.prev.version

Phase ==
    CASE Settled(journal) -> "steady"
      [] journal.state = "RECOVERY_REQUIRED" ->
           IF journal.committed THEN "stuckCommitted" ELSE "stuck"
      [] OTHER -> IF journal.committed THEN "committed" ELSE "updating"

Durable == IF Undecided THEN snaps[journal.id].writes ELSE runtime.writes

Atomic == INSTANCE AtomicUpdate
            WITH release <- ReleaseInForce, phase <- Phase, durable <- Durable

(***************************************************************************)
(* Every step of the updater, of a crash and of the clients is a step of   *)
(* the abstract update or changes nothing of it (controller.py:12-143).    *)
(***************************************************************************)
ImplementsAtomicUpdate == Atomic!Spec
=============================================================================
