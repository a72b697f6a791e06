--------------------------- MODULE TrafficMetrics ---------------------------
(***************************************************************************)
(* The broker's traffic as Admin counts it: hourly buckets in memory       *)
(* (services/traffic-metrics.js), one row of SQLite for each of them       *)
(* (services/traffic-store.js).                                            *)
(*                                                                         *)
(* The broker publishes running totals that start again from 0 when it     *)
(* does.  The three metrics and the failures of publications are treated   *)
(* alike; one metric stands for them.  Time is the hour it is.             *)
(***************************************************************************)
EXTENDS Naturals, FiniteSetsExt

CONSTANTS
    Capacity,     \* hours that are kept
    MaxHour,      \* bound: hours
    MaxCount,     \* bound: messages through one broker process
    MaxReboots    \* bound: restarts of Admin and of the broker

ASSUME TrafficAssumption == Capacity \in Nat \ {0} /\ MaxCount \in Nat

VARIABLES
    hour,         \* the current hour
    counter,      \* counters[metric]: the total seen last, or Unknown
    buckets,      \* in memory: the traffic of each hour there is a bucket for
    stored,       \* the rows of traffic_history
    brokerCount,  \* the running total of the broker's process
    traffic,      \* ghost: messages through the broker since Admin first started
    reboots       \* counter for the bound

trafficVars == <<hour, counter, buckets, stored, brokerCount, traffic, reboots>>

Unknown == MaxCount + 1

\* The broker may have run for some time before Admin did.
TrafficInit ==
    /\ hour = Capacity /\ counter = Unknown /\ reboots = 0
    /\ buckets = <<>> /\ stored = <<>>
    /\ brokerCount \in 0..MaxCount /\ traffic = 0

-----------------------------------------------------------------------------
\* The first hour that is kept.
Cutoff(now) == now + 1 - Capacity

InWindow(rows, first) == [h \in {k \in DOMAIN rows : k >= first} |-> rows[h]]

\* bucket(): makes sure that there is one for this hour, and forgets those out of the window.
WithBucket(rows, now) ==
    LET known == DOMAIN rows \cup {now}
        all == [h \in known |-> IF h \in DOMAIN rows THEN rows[h] ELSE 0]
    IN  InWindow(all, Cutoff(now))

\* save(): the row of one bucket, and the rows out of the window.
Saved(rows, now, sample) ==
    LET all == [h \in DOMAIN rows \cup {now} |-> IF h = now THEN sample ELSE rows[h]]
    IN  InWindow(all, Cutoff(now))

Later == {n \in {hour, hour + 1} : n <= MaxHour}

Observe(count, baseline) ==
    \E later \in Later :
        LET seen == IF baseline THEN 0 ELSE IF counter = Unknown THEN count ELSE count - counter
            mine == WithBucket(buckets, hour)
            after == WithBucket([mine EXCEPT ![hour] = @ + seen], later)
        IN  /\ counter' = count /\ hour' = later
            /\ buckets' = after /\ stored' = Saved(stored, later, after[later])
            /\ UNCHANGED <<brokerCount, traffic, reboots>>

\* Without a baseline for the first total after a start.
UpdateFromZero == Observe(brokerCount, counter # Unknown /\ brokerCount < counter)

\* update(): the hour may end between the reading that counts and the reading that saves.
Update == Observe(brokerCount, counter = Unknown \/ brokerCount < counter)

\* The hour ends between two messages.
Tick ==
    /\ hour < MaxHour /\ hour' = hour + 1
    /\ UNCHANGED <<counter, buckets, stored, brokerCount, traffic, reboots>>

\* The broker handles a message.
Message ==
    /\ brokerCount < MaxCount /\ brokerCount' = brokerCount + 1 /\ traffic' = traffic + 1
    /\ UNCHANGED <<hour, counter, buckets, stored, reboots>>

BrokerRestart ==
    /\ reboots < MaxReboots /\ reboots' = reboots + 1
    /\ brokerCount' = 0
    /\ UNCHANGED <<hour, counter, buckets, stored, traffic>>

\* attachStore(): goes on with the rows of the window.
AdminRestart ==
    /\ reboots < MaxReboots /\ reboots' = reboots + 1
    /\ counter' = Unknown /\ buckets' = InWindow(stored, Cutoff(hour))
    /\ UNCHANGED <<hour, stored, brokerCount, traffic>>

TrafficNext == Update \/ Tick \/ Message \/ BrokerRestart \/ AdminRestart

TrafficSpec == TrafficInit /\ [][TrafficNext]_trafficVars

-----------------------------------------------------------------------------
Total(rows) == MapThenSumSet(LAMBDA h : rows[h], DOMAIN rows)

\* What the chart shows, and what is stored, is traffic that went through the broker while Admin
\* was there to see it: nothing from before, nothing twice, whoever restarts in between
\* (traffic-metrics.js:26-30).
TrafficIsObserved == Total(buckets) <= traffic /\ Total(stored) <= traffic
=============================================================================
