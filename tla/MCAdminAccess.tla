--------------------------- MODULE MCAdminAccess ----------------------------
(***************************************************************************)
(* Small instances, for TLC, of parts of Admin that share no state: the    *)
(* administrator's account, the browser's view of sensitive values, and    *)
(* the log streams.  A behaviour is one of the part that MCInit chooses;   *)
(* the others stay in one of their initial states.  The account moves in   *)
(* two parts, each with the bounds that its states leave room for; the     *)
(* view rests when a hide missed the server.                               *)
(***************************************************************************)
EXTENDS AdminAccount, SensitiveView, LogStreams

CONSTANTS
    k1, f1, mqtt, infrastructure, mqttPage, overviewPage

VARIABLE part   \* who moves

-----------------------------------------------------------------------------
\* A list page and a vault page, each with a scope of its own.
PageScope ==
    [p \in {mqttPage, overviewPage} |-> IF p = mqttPage THEN mqtt ELSE infrastructure]

\* Those that stay need one of their initial states only.
MCInit ==
    /\ part \in {"account", "late", "view", "logs"}
    /\ AccountInit /\ ViewInit /\ LogInit
    /\ part # "view" => tab.page = mqttPage

\* Clients stay until they are answered: two sessions while time passes and challenges are drawn,
\* and a third while time stands still, with two challenges or one and an enrolment.
ClientsStay ==
    /\ part = "account" /\ late' = {}
    /\ sessions'[3] = "unused" \/ (clock' = 0 /\ drawn'.challenges + drawn'.secrets <= 2)

\* Clients go away: two sessions, and either time passes or there is a challenge.
ClientsLeave ==
    /\ part = "late" /\ sessions'[3] = "unused"
    /\ drawn'.challenges + clock' <= 1

\* The others stay where they are.
Alone(p) ==
    /\ part \in p /\ part' = part
    /\ "account" \notin p => UNCHANGED accountVars
    /\ "view" \notin p => UNCHANGED viewVars
    /\ "logs" \notin p => UNCHANGED logVars

MCNext ==
    \/ Alone({"account", "late"}) /\ AccountNext /\ (ClientsStay \/ ClientsLeave)
    \/ Alone({"view"}) /\ ~missed /\ ViewNext
    \/ Alone({"logs"}) /\ LogNext

MCSpec == MCInit /\ [][MCNext]_<<part, accountVars, viewVars, logVars>>
=============================================================================
