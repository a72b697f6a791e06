----------------------------- MODULE LogStreams -----------------------------
(***************************************************************************)
(* The live logs: one event stream for each tab that follows them          *)
(* (routes/log-routes.js), a snapshot of the log file each second          *)
(* (services/runtime-logs.js).                                             *)
(*                                                                         *)
(* A stream keeps the cookies it was opened with, so its grant, once gone, *)
(* does not come back.  The request and the response report their end      *)
(* separately, in any order, or only one of them does.  A version stands   *)
(* for the size and the time of the file, and for its text.                *)
(***************************************************************************)
EXTENDS Naturals, FiniteSets

CONSTANTS
    Streams,      \* streams that are ever opened
    Limit,        \* streams of an administrator at the same time
    MaxVersions   \* bound: changes of the log file

ASSUME LogAssumption == IsFiniteSet(Streams) /\ Limit \in Nat /\ MaxVersions \in Nat

VARIABLES
    connections,   \* connections.get(user)
    stream,        \* the streams
    logFile        \* version of the log file, 0 when there is none

logVars == <<connections, stream, logFile>>

NoVersion == MaxVersions + 1
NewStream ==
    [stage |-> "new",          \* "open" until closed is set
     granted |-> FALSE,        \* hasSensitiveGrant() for its cookies
     busy |-> FALSE,           \* a poll is under way
     snapshot |-> NoVersion,   \* that poll's snapshot, once it is read
     previous |-> NoVersion,   \* the version that was written last
     ended |-> FALSE,          \* res.end() was called
     reports |-> {}]           \* ends that were not reported yet

LogInit ==
    /\ connections = 0 /\ stream = [s \in Streams |-> NewStream] /\ logFile = 0

Open(s) == stream[s].stage = "open"

-----------------------------------------------------------------------------
\* poll(): while one is under way the timer's others do nothing; without a grant, or with too
\* much that the client has not read, the stream ends.
PollStarts(st) ==
    {[st EXCEPT !.busy = TRUE], [st EXCEPT !.ended = TRUE, !.reports = {"request", "response"}]}

Polled(st) ==
    IF st.granted THEN PollStarts(st) ELSE PollStarts(st) \ {[st EXCEPT !.busy = TRUE]}

\* GET /api/logs/events; the route's guard wants a grant.
Connect(s) ==
    /\ stream[s].stage = "new"
    /\ IF connections >= Limit
       THEN stream' = [stream EXCEPT ![s].stage = "refused"] /\ UNCHANGED connections
       ELSE /\ connections' = connections + 1
            /\ \E st \in Polled([stream[s] EXCEPT !.stage = "open", !.granted = TRUE]) :
                   stream' = [stream EXCEPT ![s] = st]
    /\ UNCHANGED logFile

\* The timer.
Poll(s) ==
    /\ Open(s) /\ ~stream[s].busy
    /\ \E st \in Polled(stream[s]) : stream' = [stream EXCEPT ![s] = st]
    /\ UNCHANGED <<connections, logFile>>

\* logSnapshot() has its answer.
Snapshot(s) ==
    /\ stream[s].busy /\ stream[s].snapshot = NoVersion
    /\ stream' = [stream EXCEPT ![s].snapshot = logFile]
    /\ UNCHANGED <<connections, logFile>>

Written(st) == [st EXCEPT !.busy = FALSE, !.snapshot = NoVersion,
                          !.previous = IF st.ended THEN st.previous ELSE st.snapshot]
Ended(st) == [st EXCEPT !.busy = FALSE, !.snapshot = NoVersion, !.ended = TRUE,
                        !.reports = IF st.ended THEN st.reports ELSE {"request", "response"}]

WriteUnchecked(s) ==
    /\ stream[s].snapshot # NoVersion
    /\ stream' = [stream EXCEPT ![s] = IF Open(s) THEN Written(@) ELSE Ended(@)]
    /\ UNCHANGED <<connections, logFile>>

\* The rest of poll(): checks again before it writes.
Write(s) ==
    /\ stream[s].snapshot # NoVersion
    /\ stream' = [stream EXCEPT ![s] =
           IF Open(s) /\ stream[s].granted THEN Written(@) ELSE Ended(@)]
    /\ UNCHANGED <<connections, logFile>>

\* The file could not be read: an event says so, and the stream ends.
SnapshotFails(s) ==
    /\ stream[s].busy /\ stream[s].snapshot = NoVersion
    /\ stream' = [stream EXCEPT ![s] =
           IF Open(s) THEN Ended(@) ELSE [@ EXCEPT !.busy = FALSE]]
    /\ UNCHANGED <<connections, logFile>>

CloseTwice(s, report) ==
    /\ report \in stream[s].reports
    /\ stream' = [stream EXCEPT ![s].stage = "closed", ![s].reports = @ \ {report}]
    /\ connections' = IF connections > 0 THEN connections - 1 ELSE 0
    /\ UNCHANGED logFile

\* close(): the first of the two reports counts.
Close(s, report) ==
    /\ report \in stream[s].reports
    /\ stream' = [stream EXCEPT ![s].stage = "closed", ![s].reports = @ \ {report}]
    /\ connections' = IF Open(s) THEN connections - 1 ELSE connections
    /\ UNCHANGED logFile

\* The client goes away, or the network does.
ClientLeaves(s) ==
    /\ Open(s) /\ stream[s].reports = {}
    /\ \E reports \in {{"request"}, {"response"}, {"request", "response"}} :
           stream' = [stream EXCEPT ![s].reports = reports, ![s].ended = TRUE]
    /\ UNCHANGED <<connections, logFile>>

\* The owner hides the logs, the grant expires, or the session ends.
HideLogs ==
    /\ \E s \in Streams : stream[s].granted
    /\ stream' = [s \in Streams |-> [stream[s] EXCEPT !.granted = FALSE]]
    /\ UNCHANGED <<connections, logFile>>

\* appendAdminLog(), the broker's log, or its rotation.
Log ==
    /\ logFile < MaxVersions /\ logFile' = logFile + 1
    /\ UNCHANGED <<connections, stream>>

LogNext ==
    \/ \E s \in Streams :
           \/ Connect(s) \/ Poll(s) \/ Snapshot(s) \/ Write(s) \/ SnapshotFails(s)
           \/ ClientLeaves(s) \/ \E report \in {"request", "response"} : Close(s, report)
    \/ HideLogs \/ Log

LogSpec == LogInit /\ [][LogNext]_logVars

-----------------------------------------------------------------------------
\* The count of an administrator's streams is that of the streams that are open, however each of
\* them ended and how often its end was reported, and never passes the limit
\* (log-routes.js:11, 17-22).
StreamsCounted ==
    /\ connections = Cardinality({s \in Streams : Open(s)})
    /\ connections <= Limit

\* A snapshot is written only while the stream has its grant, even if it was read before the
\* owner hid the logs (log-routes.js:29-31).
WrittenUnderGrant ==
    \A s \in Streams : stream'[s].previous # stream[s].previous => stream[s].granted

LogsUnderGrant == [][WrittenUnderGrant]_logVars
=============================================================================
