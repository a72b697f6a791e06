---------------------------- MODULE MqttManager ----------------------------
(***************************************************************************)
(* The MQTT manager: Admin's own client of the broker, what it remembers   *)
(* of the retained messages, and the publications of owners                *)
(* (services/mqtt-service.js, routes/mqtt-routes.js).                      *)
(*                                                                         *)
(* The client's connection is one queue each way; once the broker has      *)
(* taken its subscription to `#', everything the broker accepts comes back *)
(* to it.  What the broker had for the client when the connection broke is *)
(* lost; publications with QoS 1 or 2 that were not acknowledged are sent  *)
(* again, unless a new client took the place of the old.  A value is what  *)
(* a message says, Empty the empty payload that clears a retained message; *)
(* a filter is the set of topics it matches.                               *)
(***************************************************************************)
EXTENDS Naturals, FiniteSets, SequencesExt

CONSTANTS
    Topics,
    Values,
    Publications,    \* requests of owners to publish, each made once
    Filters,         \* what owners subscribe to besides `#'
    MaxSubscriptions,
    RetainedLimit,   \* retained messages Admin remembers
    MaxInbox,        \* bound: packets from the broker under way
    MaxDeliveries,   \* bound: retained messages of devices
    MaxOutages       \* bound: broken connections

\* `#' is none of the filters that owners ask for.
ASSUME MqttAssumption ==
    /\ IsFiniteSet(Topics) /\ RetainedLimit \in Nat
    /\ Filters \subseteq SUBSET Topics /\ Topics \notin Filters

VARIABLES
    connected,   \* client.connected
    subscriptions,
    subscribing, \* subscriptions the broker has not taken on this connection
    inbox,       \* packets from the broker that the client has not handled
    wire,        \* publications the broker has not handled
    broker,      \* the broker's retained messages
    retained,    \* Admin's, in the order of its Map
    request,     \* the requests to publish
    failed,      \* publicationFailed()
    own,         \* ghost: topics Admin published a retained message to on this connection
    deliveries,  \* counter for the bound
    outages      \* counter for the bound

connection == <<connected, subscriptions, subscribing>>
mqttVars == <<connection, inbox, wire, broker, retained, request, failed, own, deliveries,
              outages>>

Empty == "empty"
NoRequest == [stage |-> "new", topic |-> Empty, value |-> Empty, qos |-> 0, retain |-> FALSE]

MqttInit ==
    /\ connected = FALSE /\ subscriptions = {Topics} /\ subscribing = {} /\ inbox = <<>>
    /\ wire = {} /\ retained = <<>>
    /\ broker \in [Topics -> Values \cup {Empty}]
    /\ request = [p \in Publications |-> NoRequest]
    /\ failed = 0 /\ own = {} /\ deliveries = 0 /\ outages = 0

-----------------------------------------------------------------------------
(* The map of retained messages: setting a known key keeps its place. *)

Has(map, t) == \E i \in DOMAIN map : map[i].topic = t
PlaceOf(map, t) == CHOOSE i \in DOMAIN map : map[i].topic = t
Forgotten(map, t) == IF Has(map, t) THEN RemoveAt(map, PlaceOf(map, t)) ELSE map
With(map, t, v) ==
    IF Has(map, t)
    THEN [i \in DOMAIN map |-> IF map[i].topic = t THEN [map[i] EXCEPT !.value = v] ELSE map[i]]
    ELSE Append(map, [topic |-> t, value |-> v])
Kept(map, t, v) == IF v = Empty THEN Forgotten(map, t) ELSE With(map, t, v)

\* What Admin shows for a topic.
Shown(t) == IF Has(retained, t) THEN retained[PlaceOf(retained, t)].value ELSE Empty

-----------------------------------------------------------------------------
(* The client. *)

MessagePacket(t, v, r) == [kind |-> "message", topic |-> t, value |-> v, retain |-> r]
AckPacket(p, ok) == [kind |-> "ack", request |-> p, ok |-> ok]

SubscribedPacket(f) == [kind |-> "suback", filter |-> f]

\* The broker's answer to a subscription: its retained messages, in some order.
RetainedPackets(f) ==
    {[i \in DOMAIN ts |-> MessagePacket(ts[i], broker[ts[i]], TRUE)] :
        ts \in SetToSeqs({t \in f : broker[t] # Empty})}

\* What the broker accepts comes back to the client.
Listening == connected /\ Topics \notin subscribing

\* Topics of the retained publications whose handlers have not gone on.
Unfinished ==
    {request[p].topic : p \in {q \in Publications :
        request[q].stage \in {"sent", "acked"} /\ request[q].retain}}

\* Mutant of Connect: what was retained when the connection broke is remembered.
ConnectKeeping ==
    /\ ~connected /\ connected' = TRUE
    /\ subscribing' = subscriptions
    /\ own' = Unfinished
    /\ UNCHANGED <<subscriptions, inbox, wire, broker, retained, request, failed, deliveries,
                   outages>>

\* on 'connect': forgets what it knew and subscribes again.
Connect ==
    /\ ~connected /\ connected' = TRUE
    /\ retained' = <<>> /\ subscribing' = subscriptions
    /\ own' = Unfinished
    /\ UNCHANGED <<subscriptions, inbox, wire, broker, request, failed, deliveries, outages>>

\* The connection breaks; the broker may restart and lose what it retained.
Disconnect ==
    /\ connected /\ outages < MaxOutages
    /\ connected' = FALSE /\ outages' = outages + 1
    /\ inbox' = <<>> /\ subscribing' = {}
    /\ wire' = {w \in wire : request[w.request].qos > 0}
    /\ broker' \in {broker, [t \in Topics |-> Empty]}
    /\ UNCHANGED <<subscriptions, retained, request, failed, own, deliveries>>

\* The daily refresh replaces the client, and with it what was to be sent again.  Its turn in
\* the queue may come while a handler waits whose own client went away.
RestartClient ==
    /\ outages < MaxOutages /\ outages' = outages + 1
    /\ connected' = FALSE /\ inbox' = <<>> /\ subscribing' = {} /\ wire' = {}
    /\ UNCHANGED <<subscriptions, broker, retained, request, failed, own, deliveries>>

\* An owner subscribes; the limit is looked at before the broker answers.
Subscribe(f) ==
    /\ connected /\ f \notin subscribing
    /\ Cardinality(subscriptions) < MaxSubscriptions \/ f \in subscriptions
    /\ subscribing' = subscribing \cup {f}
    /\ UNCHANGED <<connected, subscriptions, inbox, wire, broker, retained, request, failed,
                   own, deliveries, outages>>

HandleSuback ==
    /\ inbox # <<>> /\ Head(inbox).kind = "suback"
    /\ inbox' = Tail(inbox)
    /\ subscriptions' = subscriptions \cup {Head(inbox).filter}
    /\ UNCHANGED <<connected, subscribing, wire, broker, retained, request, failed, own,
                   deliveries, outages>>

\* on 'message': a message with the flag replaces or clears what is remembered of its topic, and
\* above the limit the oldest topic is forgotten.
HandleMessage ==
    /\ inbox # <<>> /\ Head(inbox).kind = "message"
    /\ inbox' = Tail(inbox)
    /\ LET m == Head(inbox)
           kept == IF m.retain THEN Kept(retained, m.topic, m.value) ELSE retained
       IN  retained' = IF Len(kept) > RetainedLimit THEN Tail(kept) ELSE kept
    /\ UNCHANGED <<connection, wire, broker, request, failed, own, deliveries, outages>>

\* The callback of publish(): an answer after the timeout finds the promise settled.
HandleAck ==
    /\ inbox # <<>> /\ Head(inbox).kind = "ack"
    /\ inbox' = Tail(inbox)
    /\ LET p == Head(inbox).request
       IN  IF request[p].stage # "sent"
           THEN UNCHANGED <<request, failed>>
           ELSE IF Head(inbox).ok
                THEN request' = [request EXCEPT ![p].stage = "acked"] /\ UNCHANGED failed
                ELSE request' = [request EXCEPT ![p].stage = "failed"] /\ failed' = failed + 1
    /\ UNCHANGED <<connection, wire, broker, retained, own, deliveries, outages>>

-----------------------------------------------------------------------------
(* Publishing. *)

Accept(p, t, v, qos, retain) ==
    /\ request' = [request EXCEPT ![p] = [stage |-> IF qos = 0 THEN "acked" ELSE "sent",
                       topic |-> t, value |-> v, qos |-> qos, retain |-> retain]]
    /\ wire' = wire \cup {[request |-> p, topic |-> t, value |-> v, retain |-> retain]}
    /\ own' = IF retain THEN own \cup {t} ELSE own
    /\ UNCHANGED <<connection, inbox, broker, retained, failed, deliveries, outages>>

\* publishMessage(), and DELETE /api/mqtt/retained with an empty payload: a client that is not
\* connected fails it at once; QoS 0 is done when it is written.
Publish(p, t, v, qos, retain) ==
    /\ request[p].stage = "new"
    /\ IF connected
       THEN Accept(p, t, v, qos, retain)
       ELSE /\ request' = [request EXCEPT ![p].stage = "failed"]
            /\ failed' = failed + 1
            /\ UNCHANGED <<connection, inbox, wire, broker, retained, own, deliveries, outages>>

\* The two routes that publish; removing a retained message is QoS 1.
Requested(p) ==
    \E t \in Topics :
        \/ \E v \in Values \cup {Empty}, qos \in 0..1, retain \in BOOLEAN :
               Publish(p, t, v, qos, retain)
        \/ Publish(p, t, Empty, 1, TRUE)

\* Ten seconds without an answer; the client goes on trying.
TimesOut(p) ==
    /\ request[p].stage = "sent"
    /\ request' = [request EXCEPT ![p].stage = "failed"]
    /\ failed' = failed + 1
    /\ UNCHANGED <<connection, inbox, wire, broker, retained, own, deliveries, outages>>

\* The handler goes on after the answer: packets that came with it may be handled before.
Continue(p) ==
    /\ request[p].stage = "acked"
    /\ request' = [request EXCEPT ![p].stage = "done"]
    /\ retained' = IF request[p].retain
                   THEN Kept(retained, request[p].topic, request[p].value) ELSE retained
    /\ UNCHANGED <<connection, inbox, wire, broker, failed, own, deliveries, outages>>

-----------------------------------------------------------------------------
(* The broker and the other clients. *)

\* Takes a subscription, `#' first, as the client sent it.
BrokerSubscribes(f) ==
    /\ connected /\ f \in subscribing /\ (Topics \in subscribing => f = Topics)
    /\ Len(inbox) < MaxInbox
    /\ subscribing' = subscribing \ {f}
    /\ \E packets \in RetainedPackets(f) :
           inbox' = inbox \o <<SubscribedPacket(f)>> \o packets
    /\ UNCHANGED <<connected, subscriptions, wire, broker, retained, request, failed, own,
                   deliveries, outages>>

\* Takes a publication, or refuses it; the acknowledgement and the message come in any order.
BrokerTakes(w, ok) ==
    LET ack == AckPacket(w.request, ok)
        message == IF Listening THEN <<MessagePacket(w.topic, w.value, w.retain)>> ELSE <<>>
        acks == IF request[w.request].qos = 0 THEN {<<>>} ELSE {<<ack>>}
    IN  /\ connected /\ w \in wire /\ wire' = wire \ {w}
        /\ Len(inbox) < MaxInbox
        /\ \E a \in acks, first \in BOOLEAN :
               inbox' = IF ~ok THEN inbox \o a
                        ELSE IF first THEN inbox \o a \o message ELSE inbox \o message \o a
        /\ broker' = IF ok /\ w.retain THEN [broker EXCEPT ![w.topic] = w.value] ELSE broker
        /\ UNCHANGED <<connection, retained, request, failed, own, deliveries, outages>>

\* A device publishes a retained message or clears one.
DevicePublishes(t, v) ==
    /\ deliveries < MaxDeliveries /\ deliveries' = deliveries + 1
    /\ Len(inbox) < MaxInbox
    /\ broker' = [broker EXCEPT ![t] = v]
    /\ inbox' = IF Listening THEN Append(inbox, MessagePacket(t, v, TRUE)) ELSE inbox
    /\ UNCHANGED <<connection, wire, retained, request, failed, own, outages>>

MqttNext ==
    \/ Connect \/ Disconnect \/ RestartClient \/ HandleMessage \/ HandleAck \/ HandleSuback
    \/ \E f \in Filters : Subscribe(f)
    \/ \E f \in subscribing : BrokerSubscribes(f)
    \/ \E p \in Publications : Requested(p) \/ TimesOut(p) \/ Continue(p)
    \/ \E w \in wire, ok \in BOOLEAN : BrokerTakes(w, ok)
    \/ \E t \in Topics, v \in Values \cup {Empty} : DevicePublishes(t, v)

MqttSpec == MqttInit /\ [][MqttNext]_mqttVars

-----------------------------------------------------------------------------
\* When the client is connected and nothing is under way, what Admin shows as retained is what
\* the broker retains, whatever was published or cleared while the connection was down.  Topics
\* Admin itself published to on this connection are left out: the handler writes its own value
\* after the answer, when a newer message may have been handled already (mqtt-service.js:39, 146).
RetainedAgrees ==
    Listening /\ inbox = <<>> =>
        \A t \in Topics \ own :
            /\ Shown(t) # Empty => Shown(t) = broker[t]
            /\ Cardinality(Topics) <= RetainedLimit => Shown(t) = broker[t]
=============================================================================
