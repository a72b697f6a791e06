---------------------------- MODULE AtomicUpdate ----------------------------
(***************************************************************************)
(* What the host updater promises: an update is one atomic change of the   *)
(* release in force.  It happens or it is undone, possibly after the owner *)
(* was asked for help; what clients were told is stored only ever grows.   *)
(***************************************************************************)
EXTENDS Naturals

CONSTANTS Writes, Versions

VARIABLES
    release,  \* the release in force
    phase,    \* of the current operation
    durable   \* the client changes that survive whatever happens next

vars == <<release, phase, durable>>

Phases == {"steady", "updating", "committed", "stuck", "stuckCommitted"}

TypeOK == release \in Versions /\ phase \in Phases /\ durable \subseteq Writes

Init == release = 1 /\ phase = "steady" /\ durable = {}

Move(from, to) == phase = from /\ phase' = to /\ UNCHANGED <<release, durable>>

Begin == Move("steady", "updating")
Undo == Move("updating", "steady")
\* The only step that changes the release in force.
Commit ==
    /\ phase = "updating" /\ phase' = "committed"
    /\ release' \in Versions \ {release}
    /\ UNCHANGED durable
Finish == Move("committed", "steady")
AskOwner == Move("updating", "stuck") \/ Move("committed", "stuckCommitted")
Retry == Move("stuck", "updating") \/ Move("stuckCommitted", "committed")

\* Clients are served between operations, and while an operation that can no
\* longer be undone, or is already undone, has yet to be recorded as finished.
\* The broker's changes become durable together, when mosquitto saves.
ClientWrite(W) == durable' = durable \cup W /\ UNCHANGED <<release, phase>>

Next == Begin \/ Undo \/ Commit \/ Finish \/ AskOwner \/ Retry \/ \E W \in SUBSET Writes : ClientWrite(W)

Spec == Init /\ [][Next]_vars
=============================================================================
