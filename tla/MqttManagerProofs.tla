-------------------------- MODULE MqttManagerProofs --------------------------
(***************************************************************************)
(* Proofs about MqttManager for every number of topics, publications,      *)
(* filters and remembered messages: what Admin shows as retained is what   *)
(* the broker retains.                                                     *)
(***************************************************************************)
EXTENDS MqttManager, FiniteSetTheorems, SequenceTheorems, TLAPS

Entries == [topic : Topics, value : Values \cup {Empty}]
Packets ==
    [kind : {"message"}, topic : Topics, value : Values \cup {Empty}, retain : BOOLEAN]
      \cup [kind : {"ack"}, request : Publications, ok : BOOLEAN]
      \cup [kind : {"suback"}, filter : Filters \cup {Topics}]
ClientRequests ==
    [stage : {"new", "sent", "acked", "failed", "done"}, topic : Topics \cup {Empty},
     value : Values \cup {Empty}, qos : 0..1, retain : BOOLEAN]

MqttTypes ==
    /\ connected \in BOOLEAN /\ inbox \in Seq(Packets)
    /\ Topics \in subscriptions /\ subscriptions \subseteq Filters \cup {Topics}
    /\ subscribing \subseteq Filters \cup {Topics}
    /\ wire \subseteq [request : Publications, topic : Topics, value : Values \cup {Empty},
                       retain : BOOLEAN]
    /\ broker \in [Topics -> Values \cup {Empty}]
    /\ retained \in Seq(Entries)
    /\ request \in [Publications -> ClientRequests]
    /\ own \subseteq Topics

\* A topic is remembered once.
Distinct(map) == \A i, j \in DOMAIN map : map[i].topic = map[j].topic => i = j

\* A handler that waits for the broker published to a topic, Admin's own on this connection.
Handlers ==
    /\ \A p \in Publications : request[p].stage \in {"sent", "acked"} => request[p].topic \in Topics
    /\ connected => Unfinished \subseteq own

\* A connection begins with nothing on its way and nothing remembered.
Beginning ==
    /\ ~connected => inbox = <<>>
    /\ connected /\ Topics \in subscribing =>
           /\ \A i \in DOMAIN inbox : inbox[i].kind # "message"
           /\ \A i \in DOMAIN retained : retained[i].topic \in own

About(m, t) == m.kind = "message" /\ m.retain /\ m.topic = t
NoneAbout(packets, t) == \A i \in DOMAIN packets : ~About(packets[i], t)

\* The last packet about a topic says what the broker has of it.
LastSays(packets, t, v) ==
    \A i \in DOMAIN packets :
        About(packets[i], t) /\ (\A j \in DOMAIN packets : j > i => ~About(packets[j], t)) =>
            packets[i].value = v
Remembers(map, t, v) ==
    /\ \A i \in DOMAIN map : map[i].topic = t => map[i].value = v
    /\ Cardinality(Topics) <= RetainedLimit /\ v # Empty => Has(map, t)

Agreed ==
    Listening => \A t \in Topics \ own :
        /\ LastSays(inbox, t, broker[t])
        /\ NoneAbout(inbox, t) => Remembers(retained, t, broker[t])

MqttInv == MqttTypes /\ Distinct(retained) /\ Handlers /\ Beginning /\ Agreed

-----------------------------------------------------------------------------
(* The map of retained messages. *)

LEMMA PlaceIs ==
  ASSUME NEW map, NEW t, Has(map, t)
  PROVE  PlaceOf(map, t) \in DOMAIN map /\ map[PlaceOf(map, t)].topic = t
  BY DEF Has, PlaceOf

\* Each entry of a map without the one at i is one of the others, in the same order.
LEMMA RemovedIs ==
  ASSUME NEW S, NEW map \in Seq(S), NEW i \in 1..Len(map)
  PROVE  /\ RemoveAt(map, i) \in Seq(S)
         /\ Len(RemoveAt(map, i)) = Len(map) - 1
         /\ \A j \in 1..(Len(map) - 1) :
               RemoveAt(map, i)[j] = map[IF j < i THEN j ELSE j + 1]
<1> DEFINE a == SubSeq(map, 1, i - 1)
           b == SubSeq(map, i + 1, Len(map))
<1>1. Len(map) \in Nat /\ i \in Nat /\ 1 <= i /\ i <= Len(map)
  OBVIOUS
<1>2. /\ a \in Seq(S) /\ Len(a) = i - 1
      /\ \A j \in 1..(i - 1) : a[j] = map[j]
  BY <1>1, SubSeqProperties
<1>3. /\ b \in Seq(S) /\ Len(b) = Len(map) - i
      /\ \A j \in 1..(Len(map) - i) : b[j] = map[i + j]
  BY <1>1, SubSeqProperties
<1> HIDE DEF a, b
<1>4. /\ a \o b \in Seq(S) /\ Len(a \o b) = Len(a) + Len(b)
      /\ \A j \in 1..(Len(a) + Len(b)) : (a \o b)[j] = IF j <= Len(a) THEN a[j] ELSE b[j - Len(a)]
  BY <1>2, <1>3, ConcatProperties
<1>5. RemoveAt(map, i) = a \o b
  BY DEF RemoveAt, a, b
<1>6. ASSUME NEW j \in 1..(Len(map) - 1), j < i
      PROVE  (a \o b)[j] = map[j]
  <2>1. j \in 1..(Len(a) + Len(b)) /\ j <= Len(a) /\ j \in 1..(i - 1)
    BY <1>1, <1>2, <1>3, <1>6
  <2> QED
    BY <1>2, <1>4, <2>1
<1>7. ASSUME NEW j \in 1..(Len(map) - 1), ~(j < i)
      PROVE  (a \o b)[j] = map[j + 1]
  <2> DEFINE k == j - Len(a)
  <2>1. k \in 1..(Len(map) - i) /\ i + k = j + 1
    BY <1>1, <1>2, <1>7
  <2>2. j \in 1..(Len(a) + Len(b)) /\ ~(j <= Len(a))
    BY <1>1, <1>2, <1>3, <1>7
  <2>3. (a \o b)[j] = b[k]
    BY <1>4, <2>2
  <2> HIDE DEF k
  <2> QED
    BY <1>3, <2>1, <2>3
<1>8. Len(a) + Len(b) = Len(map) - 1
  BY <1>1, <1>2, <1>3
<1>9. \A j \in 1..(Len(map) - 1) : (a \o b)[j] = map[IF j < i THEN j ELSE j + 1]
  BY <1>6, <1>7
<1> QED
  BY <1>4, <1>5, <1>8, <1>9

\* What one change of the map does: to the topic, and to the others.
Same(map, new, u) ==
    /\ \A i \in DOMAIN new : new[i].topic = u => \E j \in DOMAIN map : map[j] = new[i]
    /\ Has(map, u) => Has(new, u)

LEMMA ForgottenIs ==
  ASSUME NEW map \in Seq(Entries), Distinct(map), NEW t \in Topics
  PROVE  /\ Forgotten(map, t) \in Seq(Entries) /\ Distinct(Forgotten(map, t))
         /\ ~Has(Forgotten(map, t), t)
         /\ \A u \in Topics \ {t} : Same(map, Forgotten(map, t), u)
<1>1. CASE ~Has(map, t)
  BY <1>1 DEF Forgotten, Same
<1>2. CASE Has(map, t)
  <2> DEFINE i == PlaceOf(map, t)
             new == RemoveAt(map, i)
             at(j) == IF j < i THEN j ELSE j + 1
  <2>1. i \in 1..Len(map) /\ map[i].topic = t
    BY <1>2, PlaceIs
  <2> HIDE DEF i
  <2>2. /\ new \in Seq(Entries) /\ DOMAIN new = 1..(Len(map) - 1)
        /\ \A j \in 1..(Len(map) - 1) : new[j] = map[at(j)]
    BY <2>1, RemovedIs
  <2> HIDE DEF new
  <2>3. \A j \in 1..(Len(map) - 1) : at(j) \in DOMAIN map /\ at(j) # i
    BY <2>1
  <2>4. \A j, k \in 1..(Len(map) - 1) : at(j) = at(k) => j = k
    BY <2>1
  <2>5. ASSUME NEW k \in DOMAIN map, k # i
        PROVE  \E j \in 1..(Len(map) - 1) : at(j) = k
    <3>1. CASE k < i
      BY <2>1, <3>1
    <3>2. CASE k > i
      <4>1. k - 1 \in 1..(Len(map) - 1) /\ at(k - 1) = k
        BY <2>1, <3>2
      <4> QED
        BY <4>1
    <3> QED
      BY <2>1, <2>5, <3>1, <3>2
  <2> HIDE DEF at
  <2>6. Distinct(new)
    BY <2>2, <2>3, <2>4 DEF Distinct
  <2>7. ~Has(new, t)
    BY <2>1, <2>2, <2>3 DEF Has, Distinct
  <2>8. ASSUME NEW u \in Topics \ {t}
        PROVE  Same(map, new, u)
    <3>1. \A j \in DOMAIN new : \E k \in DOMAIN map : map[k] = new[j]
      BY <2>2, <2>3
    <3>2. ASSUME NEW k \in DOMAIN map, map[k].topic = u
          PROVE  Has(new, u)
      <4>1. PICK j \in 1..(Len(map) - 1) : at(j) = k
        BY <2>1, <2>5, <3>2
      <4> QED
        BY <2>2, <3>2, <4>1 DEF Has
    <3> QED
      BY <3>1, <3>2 DEF Same, Has
  <2>9. Forgotten(map, t) = new
    BY <1>2 DEF Forgotten, new, i
  <2> QED
    BY <2>2, <2>6, <2>7, <2>8, <2>9
<1> QED
  BY <1>1, <1>2

LEMMA WithIs ==
  ASSUME NEW map \in Seq(Entries), Distinct(map), NEW t \in Topics,
         NEW v \in Values \cup {Empty}
  PROVE  /\ With(map, t, v) \in Seq(Entries) /\ Distinct(With(map, t, v))
         /\ Has(With(map, t, v), t)
         /\ \A i \in DOMAIN With(map, t, v) :
               With(map, t, v)[i].topic = t => With(map, t, v)[i].value = v
         /\ \A u \in Topics \ {t} : Same(map, With(map, t, v), u)
<1> DEFINE new == With(map, t, v)
<1>1. CASE Has(map, t)
  <2>1. new = [i \in DOMAIN map |->
                 IF map[i].topic = t THEN [map[i] EXCEPT !.value = v] ELSE map[i]]
    BY <1>1 DEF With
  <2> HIDE DEF new
  <2>2. \A i \in DOMAIN map : map[i] \in Entries
    OBVIOUS
  <2>3. /\ DOMAIN new = DOMAIN map /\ DOMAIN map = 1..Len(map) /\ Len(map) \in Nat
        /\ \A i \in DOMAIN map :
              /\ new[i] \in Entries /\ new[i].topic = map[i].topic
              /\ new[i].value = IF map[i].topic = t THEN v ELSE map[i].value
              /\ map[i].topic # t => new[i] = map[i]
    BY <2>1, <2>2 DEF Entries
  <2>4. new \in Seq(Entries)
    BY <2>1, <2>3
  <2>5. Distinct(new)
    BY <2>3 DEF Distinct
  <2>6. Has(new, t) /\ \A i \in DOMAIN new : new[i].topic = t => new[i].value = v
    BY <1>1, <2>3 DEF Has
  <2>7. \A u \in Topics \ {t} : Same(map, new, u)
    BY <2>3 DEF Same, Has
  <2> QED
    BY <2>4, <2>5, <2>6, <2>7 DEF new
<1>2. CASE ~Has(map, t)
  <2> DEFINE e == [topic |-> t, value |-> v]
  <2>1. new = Append(map, e) /\ e \in Entries /\ e.topic = t /\ e.value = v
    BY <1>2 DEF With, Entries
  <2> HIDE DEF new, e
  <2>2. /\ new \in Seq(Entries) /\ DOMAIN new = 1..(Len(map) + 1) /\ Len(map) \in Nat
        /\ \A i \in 1..Len(map) : new[i] = map[i]
        /\ new[Len(map) + 1] = e
    BY <2>1
  <2>3. \A i \in 1..Len(map) : map[i].topic # t
    BY <1>2 DEF Has
  <2>4. Distinct(new)
    <3> SUFFICES ASSUME NEW i \in DOMAIN new, NEW j \in DOMAIN new, new[i].topic = new[j].topic
                 PROVE  i = j
      BY DEF Distinct
    <3>1. CASE i \in 1..Len(map) /\ j \in 1..Len(map)
      BY <2>2, <3>1 DEF Distinct
    <3>2. CASE i \notin 1..Len(map) \/ j \notin 1..Len(map)
      BY <2>1, <2>2, <2>3, <3>2
    <3> QED
      BY <3>1, <3>2
  <2>5. Has(new, t) /\ \A i \in DOMAIN new : new[i].topic = t => new[i].value = v
    BY <2>1, <2>2, <2>3 DEF Has
  <2>6. \A u \in Topics \ {t} : Same(map, new, u)
    BY <2>1, <2>2 DEF Same, Has
  <2> QED
    BY <2>2, <2>4, <2>5, <2>6 DEF new
<1> QED
  BY <1>1, <1>2

LEMMA KeptIs ==
  ASSUME NEW map \in Seq(Entries), Distinct(map), NEW t \in Topics,
         NEW v \in Values \cup {Empty}
  PROVE  /\ Kept(map, t, v) \in Seq(Entries) /\ Distinct(Kept(map, t, v))
         /\ v # Empty => Has(Kept(map, t, v), t)
         /\ \A i \in DOMAIN Kept(map, t, v) :
               Kept(map, t, v)[i].topic = t => Kept(map, t, v)[i].value = v
         /\ \A u \in Topics \ {t} : Same(map, Kept(map, t, v), u)
<1>1. CASE v = Empty
  BY <1>1, ForgottenIs DEF Kept, Has
<1>2. CASE v # Empty
  BY <1>2, WithIs DEF Kept
<1> QED
  BY <1>1, <1>2

\* A topic that is not touched is remembered as before.
LEMMA SameRemembers ==
  ASSUME NEW map, NEW new, NEW u, NEW v, Same(map, new, u), Remembers(map, u, v)
  PROVE  Remembers(new, u, v)
  BY DEF Same, Remembers

\* There are no more entries than topics.
LEMMA MapFits ==
  ASSUME NEW map \in Seq(Entries), Distinct(map)
  PROVE  Len(map) <= Cardinality(Topics)
<1> DEFINE f == [i \in 1..Len(map) |-> map[i].topic]
<1>1. Len(map) \in Nat /\ \A i \in 1..Len(map) : map[i].topic \in Topics
  <2>1. \A i \in 1..Len(map) : map[i] \in Entries
    OBVIOUS
  <2> QED
    BY <2>1 DEF Entries
<1>2. f \in Injection(1..Len(map), Topics)
  BY <1>1 DEF Injection, IsInjective, Distinct
<1>3. Cardinality(1..Len(map)) = Len(map)
  BY <1>1, FS_Interval
<1> HIDE DEF f
<1> QED
  BY <1>2, <1>3, MqttAssumption, FS_Injection

\* The oldest topic is forgotten only if there are too many.
LEMMA TrimmedIs ==
  ASSUME NEW map \in Seq(Entries), Distinct(map)
  PROVE  LET new == IF Len(map) > RetainedLimit THEN Tail(map) ELSE map
         IN  /\ new \in Seq(Entries) /\ Distinct(new)
             /\ \A u \in Topics : \A v : Remembers(map, u, v) => Remembers(new, u, v)
<1>1. Len(map) \in Nat /\ RetainedLimit \in Nat /\ Cardinality(Topics) \in Nat
  BY MqttAssumption, FS_CardinalityType
<1>2. CASE Len(map) > RetainedLimit
  <2>1. map # <<>>
    BY <1>1, <1>2
  <2> DEFINE new == Tail(map)
  <2>2. new \in Seq(Entries) /\ Len(new) = Len(map) - 1 /\ DOMAIN new = 1..(Len(map) - 1)
        /\ \A i \in 1..(Len(map) - 1) : new[i] = map[i + 1]
    BY <2>1
  <2> HIDE DEF new
  <2>3. Distinct(new)
    <3> SUFFICES ASSUME NEW i \in 1..(Len(map) - 1), NEW j \in 1..(Len(map) - 1),
                        new[i].topic = new[j].topic
                 PROVE  i = j
      BY <2>2 DEF Distinct
    <3>1. i + 1 \in DOMAIN map /\ j + 1 \in DOMAIN map /\ map[i + 1].topic = map[j + 1].topic
      BY <1>1, <2>2
    <3>2. i + 1 = j + 1
      BY <3>1 DEF Distinct
    <3> QED
      BY <3>2
  <2>4. ~(Cardinality(Topics) <= RetainedLimit)
    BY <1>1, <1>2, MapFits
  <2>5. ASSUME NEW u \in Topics, NEW v, Remembers(map, u, v)
        PROVE  Remembers(new, u, v)
    <3>1. \A i \in DOMAIN new : i + 1 \in DOMAIN map /\ new[i] = map[i + 1]
      BY <1>1, <2>2
    <3> QED
      BY <2>4, <2>5, <3>1 DEF Remembers
  <2> QED
    BY <1>2, <2>2, <2>3, <2>5 DEF new
<1>3. CASE ~(Len(map) > RetainedLimit)
  BY <1>3
<1> QED
  BY <1>2, <1>3

-----------------------------------------------------------------------------
(* Packets under way. *)

LEMMA AppendedSays ==
  ASSUME NEW s \in Seq(Packets), NEW e \in Seq(Packets), NEW t, NEW old, NEW v,
         LastSays(s, t, old),
         \A i \in DOMAIN e : About(e[i], t) => e[i].value = v,
         NoneAbout(e, t) => old = v
  PROVE  /\ LastSays(s \o e, t, v)
         /\ NoneAbout(s \o e, t) => NoneAbout(s, t) /\ NoneAbout(e, t)
<1> DEFINE all == s \o e
<1>1. /\ all \in Seq(Packets) /\ Len(all) = Len(s) + Len(e)
      /\ Len(s) \in Nat /\ Len(e) \in Nat
      /\ DOMAIN s = 1..Len(s) /\ DOMAIN e = 1..Len(e) /\ DOMAIN all = 1..(Len(s) + Len(e))
      /\ \A i \in 1..(Len(s) + Len(e)) : all[i] = IF i <= Len(s) THEN s[i] ELSE e[i - Len(s)]
  BY ConcatProperties
<1> HIDE DEF all
<1>2. /\ \A i \in 1..Len(s) : i \in DOMAIN all /\ all[i] = s[i]
      /\ \A i \in 1..Len(e) : Len(s) + i \in DOMAIN all /\ all[Len(s) + i] = e[i]
  <2>1. ASSUME NEW i \in 1..Len(e)
        PROVE  Len(s) + i \in DOMAIN all /\ all[Len(s) + i] = e[i]
    <3>1. /\ Len(s) + i \in 1..(Len(s) + Len(e)) /\ ~(Len(s) + i <= Len(s))
          /\ (Len(s) + i) - Len(s) = i
      BY <1>1
    <3> QED
      BY <1>1, <3>1
  <2> QED
    BY <1>1, <2>1
<1>3. NoneAbout(all, t) => NoneAbout(s, t) /\ NoneAbout(e, t)
  BY <1>1, <1>2 DEF NoneAbout
<1>4. ASSUME NEW i \in DOMAIN all, About(all[i], t),
             \A j \in DOMAIN all : j > i => ~About(all[j], t)
      PROVE  all[i].value = v
  <2>1. CASE i <= Len(s)
    <3>1. i \in DOMAIN s /\ all[i] = s[i]
      BY <1>1, <2>1
    <3>2. NoneAbout(e, t)
      <4> SUFFICES ASSUME NEW k \in 1..Len(e) PROVE ~About(e[k], t)
        BY <1>1 DEF NoneAbout
      <4>1. Len(s) + k \in DOMAIN all /\ all[Len(s) + k] = e[k] /\ Len(s) + k > i
        BY <1>1, <1>2, <2>1
      <4> QED
        BY <1>4, <4>1
    <3>3. \A j \in DOMAIN s : j > i => ~About(s[j], t)
      BY <1>1, <1>2, <1>4
    <3> QED
      BY <1>4, <3>1, <3>2, <3>3 DEF LastSays
  <2>2. CASE ~(i <= Len(s))
    <3>1. i - Len(s) \in DOMAIN e /\ all[i] = e[i - Len(s)]
      BY <1>1, <2>2
    <3> QED
      BY <1>4, <3>1
  <2> QED
    BY <2>1, <2>2
<1>5. LastSays(all, t, v)
  BY <1>4 DEF LastSays
<1> QED
  BY <1>3, <1>5 DEF all

LEMMA AppendedKinds ==
  ASSUME NEW s \in Seq(Packets), NEW e \in Seq(Packets),
         \A i \in DOMAIN s : s[i].kind # "message", \A i \in DOMAIN e : e[i].kind # "message"
  PROVE  \A i \in DOMAIN (s \o e) : (s \o e)[i].kind # "message"
<1> SUFFICES ASSUME NEW i \in DOMAIN (s \o e)
             PROVE  (s \o e)[i].kind # "message"
  OBVIOUS
<1>1. /\ i \in 1..(Len(s) + Len(e)) /\ Len(s) \in Nat /\ Len(e) \in Nat
      /\ (s \o e)[i] = IF i <= Len(s) THEN s[i] ELSE e[i - Len(s)]
  BY ConcatProperties
<1>2. CASE i <= Len(s)
  BY <1>1, <1>2
<1>3. CASE ~(i <= Len(s))
  <2>1. i - Len(s) \in DOMAIN e
    BY <1>1, <1>3
  <2> QED
    BY <1>1, <1>3, <2>1
<1> QED
  BY <1>2, <1>3

LEMMA TailSays ==
  ASSUME NEW q \in Seq(Packets), q # <<>>, NEW t, NEW v, LastSays(q, t, v)
  PROVE  /\ LastSays(Tail(q), t, v)
         /\ NoneAbout(Tail(q), t) /\ ~About(Head(q), t) => NoneAbout(q, t)
         /\ NoneAbout(Tail(q), t) /\ About(Head(q), t) => Head(q).value = v
<1>1. /\ Tail(q) \in Seq(Packets) /\ Len(q) \in Nat /\ Len(q) >= 1 /\ DOMAIN q = 1..Len(q)
      /\ DOMAIN Tail(q) = 1..(Len(q) - 1)
      /\ \A i \in 1..(Len(q) - 1) : Tail(q)[i] = q[i + 1]
      /\ Head(q) = q[1]
  OBVIOUS
<1> DEFINE rest == Tail(q)
<1> HIDE DEF rest
<1>2. ASSUME NEW i \in 2..Len(q)
      PROVE  i - 1 \in DOMAIN rest /\ rest[i - 1] = q[i]
  <2>1. i - 1 \in 1..(Len(q) - 1) /\ (i - 1) + 1 = i
    BY <1>1
  <2> QED
    BY <1>1, <2>1 DEF rest
<1>3. LastSays(rest, t, v)
  <2> SUFFICES ASSUME NEW i \in DOMAIN rest, About(rest[i], t),
                      \A j \in DOMAIN rest : j > i => ~About(rest[j], t)
               PROVE  rest[i].value = v
    BY DEF LastSays
  <2>1. i + 1 \in DOMAIN q /\ rest[i] = q[i + 1]
    BY <1>1 DEF rest
  <2>2. ASSUME NEW j \in DOMAIN q, j > i + 1
        PROVE  ~About(q[j], t)
    <3>1. j \in 2..Len(q) /\ j - 1 > i
      BY <1>1, <2>2 DEF rest
    <3> QED
      BY <1>2, <3>1
  <2> QED
    BY <2>1, <2>2 DEF LastSays
<1>4. NoneAbout(rest, t) => \A i \in 2..Len(q) : ~About(q[i], t)
  BY <1>2 DEF NoneAbout
<1>5. NoneAbout(rest, t) /\ ~About(q[1], t) => NoneAbout(q, t)
  BY <1>1, <1>4 DEF NoneAbout
<1>6. NoneAbout(rest, t) /\ About(q[1], t) => q[1].value = v
  BY <1>1, <1>4 DEF LastSays
<1> QED
  BY <1>1, <1>3, <1>5, <1>6 DEF rest

-----------------------------------------------------------------------------
(* Each step keeps the invariant. *)

LEMMA InitMqttInv == MqttInit => MqttInv
<1> SUFFICES ASSUME MqttInit PROVE MqttInv
  OBVIOUS
<1>1. NoRequest \in ClientRequests /\ NoRequest.stage = "new"
  BY DEF NoRequest, ClientRequests
<1>2. MqttTypes
  <2>1. <<>> \in Seq(Packets) /\ <<>> \in Seq(Entries)
    OBVIOUS
  <2>2. request \in [Publications -> ClientRequests]
    BY <1>1 DEF MqttInit
  <2>3. /\ connected = FALSE /\ inbox = <<>> /\ retained = <<>> /\ subscriptions = {Topics}
        /\ subscribing = {} /\ wire = {} /\ own = {} /\ broker \in [Topics -> Values \cup {Empty}]
    BY DEF MqttInit
  <2> QED
    BY <2>1, <2>2, <2>3 DEF MqttTypes
<1>3. Distinct(retained) /\ Handlers /\ Beginning /\ Agreed
  BY <1>1 DEF MqttInit, Distinct, Handlers, Beginning, Agreed, Listening
<1> QED
  BY <1>2, <1>3 DEF MqttInv

LEMMA ConnectKeeps ==
  ASSUME MqttInv, Connect
  PROVE  MqttInv'
<1>1. /\ connected' = TRUE /\ retained' = <<>> /\ subscribing' = subscriptions
      /\ own' = Unfinished /\ inbox = <<>>
      /\ UNCHANGED <<subscriptions, inbox, wire, broker, request>>
  BY DEF Connect, MqttInv, Beginning
<1>2. Unfinished \subseteq Topics /\ Unfinished' = Unfinished
  BY <1>1 DEF Unfinished, MqttInv, Handlers
<1>3. MqttTypes'
  <2>1. <<>> \in Seq(Packets) /\ <<>> \in Seq(Entries)
    OBVIOUS
  <2>2. subscribing' \subseteq Filters \cup {Topics} /\ own' \subseteq Topics
    BY <1>1, <1>2 DEF MqttInv, MqttTypes
  <2>3. retained' \in Seq(Entries) /\ inbox' \in Seq(Packets)
    BY <1>1, <2>1
  <2> QED
    BY <1>1, <2>2, <2>3 DEF MqttInv, MqttTypes
<1>4. Distinct(retained') /\ Handlers'
  BY <1>1, <1>2 DEF MqttInv, Distinct, Handlers
<1>5. Topics \in subscribing'
  BY <1>1 DEF MqttInv, MqttTypes
<1>6. Beginning' /\ Agreed'
  BY <1>1, <1>5 DEF Beginning, Agreed, Listening
<1> QED
  BY <1>3, <1>4, <1>6 DEF MqttInv

LEMMA BreakKeeps ==
  ASSUME MqttInv, Disconnect \/ RestartClient
  PROVE  MqttInv'
<1>1. /\ connected' = FALSE /\ inbox' = <<>> /\ subscribing' = {} /\ wire' \subseteq wire
      /\ UNCHANGED <<subscriptions, retained, request, own>>
  BY DEF Disconnect, RestartClient
<1>2. broker' \in [Topics -> Values \cup {Empty}]
  BY DEF Disconnect, RestartClient, MqttInv, MqttTypes
<1>3. inbox' \in Seq(Packets) /\ subscribing' \subseteq Filters \cup {Topics}
  BY <1>1
<1>4. MqttTypes'
  BY <1>1, <1>2, <1>3 DEF MqttInv, MqttTypes
<1>5. Unfinished' = Unfinished
  BY <1>1 DEF Unfinished
<1>6. Distinct(retained') /\ Handlers' /\ Beginning' /\ Agreed'
  BY <1>1, <1>5 DEF MqttInv, Handlers, Beginning, Agreed, Listening
<1> QED
  BY <1>4, <1>6 DEF MqttInv

LEMMA SubscribeKeeps ==
  ASSUME MqttInv, NEW f \in Filters, Subscribe(f)
  PROVE  MqttInv'
<1>1. /\ subscribing' = subscribing \cup {f} /\ f # Topics
      /\ UNCHANGED <<connected, subscriptions, inbox, wire, broker, retained, request, own>>
  BY MqttAssumption DEF Subscribe
<1>2. Topics \in subscribing' <=> Topics \in subscribing
  BY <1>1
<1>3. MqttTypes'
  BY <1>1 DEF MqttInv, MqttTypes
<1>4. Distinct(retained') /\ Handlers' /\ Beginning' /\ Agreed'
  BY <1>1, <1>2 DEF MqttInv, Distinct, Handlers, Unfinished, Beginning, Agreed, Listening
<1> QED
  BY <1>3, <1>4 DEF MqttInv

\* A packet is taken from the inbox that is not a message.
LEMMA TakenKeeps ==
  ASSUME MqttInv, HandleSuback \/ HandleAck
  PROVE  /\ inbox' = Tail(inbox) /\ inbox' \in Seq(Packets) /\ inbox # <<>>
         /\ Head(inbox) \in Packets /\ Beginning' /\ Agreed'
<1>1. /\ inbox # <<>> /\ Head(inbox).kind # "message" /\ inbox' = Tail(inbox)
      /\ UNCHANGED <<connected, subscribing, broker, retained, own>>
  BY DEF HandleSuback, HandleAck, connection
<1>2. inbox \in Seq(Packets) /\ Tail(inbox) \in Seq(Packets) /\ Head(inbox) \in Packets
      /\ \A i \in DOMAIN Tail(inbox) : i + 1 \in DOMAIN inbox /\ Tail(inbox)[i] = inbox[i + 1]
  BY <1>1 DEF MqttInv, MqttTypes
<1>3. Beginning'
  BY <1>1, <1>2 DEF MqttInv, Beginning
<1>4. ASSUME Listening, NEW t \in Topics \ own
      PROVE  /\ LastSays(Tail(inbox), t, broker[t])
             /\ NoneAbout(Tail(inbox), t) => Remembers(retained, t, broker[t])
  <2>1. ~About(Head(inbox), t) /\ LastSays(inbox, t, broker[t])
    BY <1>1, <1>4 DEF About, MqttInv, Agreed
  <2> QED
    BY <1>1, <1>2, <1>4, <2>1, TailSays DEF MqttInv, Agreed
<1>5. Agreed'
  BY <1>1, <1>4 DEF Agreed, Listening
<1> QED
  BY <1>1, <1>2, <1>3, <1>5

LEMMA SubackKeeps ==
  ASSUME MqttInv, HandleSuback
  PROVE  MqttInv'
<1>1. /\ Head(inbox).kind = "suback"
      /\ subscriptions' = subscriptions \cup {Head(inbox).filter}
      /\ UNCHANGED <<connected, subscribing, wire, broker, retained, request, own>>
  BY DEF HandleSuback
<1>2. Head(inbox) \in Packets /\ inbox' \in Seq(Packets)
  BY TakenKeeps
<1>3. Head(inbox).filter \in Filters \cup {Topics}
  BY <1>1, <1>2 DEF Packets
<1>4. MqttTypes'
  BY <1>1, <1>2, <1>3 DEF MqttInv, MqttTypes
<1>5. Distinct(retained') /\ Handlers'
  BY <1>1 DEF MqttInv, Handlers, Unfinished
<1> QED
  BY <1>4, <1>5, TakenKeeps DEF MqttInv

\* A handler is answered, or waits no longer.
LEMMA StageKeeps ==
  ASSUME MqttInv, NEW p \in Publications, request[p].stage \in {"sent", "acked"},
         NEW stage \in {"acked", "failed", "done"},
         request' = [request EXCEPT ![p].stage = stage], UNCHANGED <<own, connected>>
  PROVE  request' \in [Publications -> ClientRequests] /\ Handlers'
<1>1. request \in [Publications -> ClientRequests]
  BY DEF MqttInv, MqttTypes
<1>2. /\ request' \in [Publications -> ClientRequests]
      /\ \A q \in Publications :
            /\ request'[q].topic = request[q].topic /\ request'[q].retain = request[q].retain
            /\ request'[q].stage \in {"sent", "acked"} => request[q].stage \in {"sent", "acked"}
  BY <1>1 DEF ClientRequests
<1>3. Unfinished' \subseteq Unfinished
  BY <1>2 DEF Unfinished
<1>4. Handlers'
  BY <1>2, <1>3 DEF MqttInv, Handlers
<1> QED
  BY <1>2, <1>4

LEMMA AckKeeps ==
  ASSUME MqttInv, HandleAck
  PROVE  MqttInv'
<1> DEFINE p == Head(inbox).request
<1>1. /\ Head(inbox).kind = "ack"
      /\ UNCHANGED <<connected, subscriptions, subscribing, wire, broker, retained, own>>
      /\ \/ UNCHANGED request
         \/ /\ request[p].stage = "sent"
            /\ \E stage \in {"acked", "failed"} : request' = [request EXCEPT ![p].stage = stage]
  BY DEF HandleAck, connection
<1>2. Head(inbox) \in Packets /\ inbox' \in Seq(Packets)
  BY TakenKeeps
<1>3. p \in Publications
  BY <1>1, <1>2 DEF Packets
<1>4. request' \in [Publications -> ClientRequests] /\ Handlers'
  <2>1. CASE UNCHANGED request
    BY <1>1, <2>1 DEF MqttInv, MqttTypes, Handlers, Unfinished
  <2>2. CASE request[p].stage = "sent" /\
             \E stage \in {"acked", "failed"} : request' = [request EXCEPT ![p].stage = stage]
    <3> HIDE DEF p
    <3> QED
      BY <1>1, <1>3, <2>2, StageKeeps
  <2> QED
    BY <1>1, <2>1, <2>2
<1>5. MqttTypes' /\ Distinct(retained')
  BY <1>1, <1>2, <1>4 DEF MqttInv, MqttTypes
<1> QED
  BY <1>4, <1>5, TakenKeeps DEF MqttInv

LEMMA TimesOutKeeps ==
  ASSUME MqttInv, NEW p \in Publications, TimesOut(p)
  PROVE  MqttInv'
<1>1. /\ request[p].stage = "sent" /\ request' = [request EXCEPT ![p].stage = "failed"]
      /\ UNCHANGED <<connected, subscriptions, subscribing, inbox, wire, broker, retained, own>>
  BY DEF TimesOut, connection
<1>2. request' \in [Publications -> ClientRequests] /\ Handlers'
  BY <1>1, StageKeeps
<1>3. MqttTypes' /\ Distinct(retained') /\ Beginning' /\ Agreed'
  BY <1>1, <1>2 DEF MqttInv, MqttTypes, Beginning, Agreed, Listening
<1> QED
  BY <1>2, <1>3 DEF MqttInv

\* on 'message': what the last packet about a topic says is remembered.
LEMMA MessageKeeps ==
  ASSUME MqttInv, HandleMessage
  PROVE  MqttInv'
<1> DEFINE m == Head(inbox)
           kept == IF m.retain THEN Kept(retained, m.topic, m.value) ELSE retained
<1>1. /\ inbox # <<>> /\ m.kind = "message" /\ inbox' = Tail(inbox)
      /\ retained' = IF Len(kept) > RetainedLimit THEN Tail(kept) ELSE kept
      /\ UNCHANGED <<connected, subscriptions, subscribing, wire, broker, request, own>>
  BY DEF HandleMessage, connection
<1>2. /\ inbox \in Seq(Packets) /\ Tail(inbox) \in Seq(Packets) /\ m \in Packets
      /\ retained \in Seq(Entries) /\ Distinct(retained)
  BY <1>1 DEF MqttInv, MqttTypes
<1>3. m.topic \in Topics /\ m.value \in Values \cup {Empty} /\ m.retain \in BOOLEAN
  BY <1>1, <1>2 DEF Packets
<1>4. /\ kept \in Seq(Entries) /\ Distinct(kept)
      /\ m.retain /\ m.value # Empty => Has(kept, m.topic)
      /\ m.retain => \A i \in DOMAIN kept : kept[i].topic = m.topic => kept[i].value = m.value
      /\ \A u \in Topics : (m.retain /\ u = m.topic) \/ Same(retained, kept, u)
  <2>1. CASE m.retain
    <3> HIDE DEF m
    <3> QED
      BY <1>2, <1>3, <2>1, KeptIs
  <2>2. CASE ~m.retain
    BY <1>2, <2>2 DEF Same
  <2> QED
    BY <2>1, <2>2
<1>5. inbox[1] = m /\ 1 \in DOMAIN inbox
  BY <1>1, <1>2
<1> HIDE DEF m, kept
<1>6. /\ retained' \in Seq(Entries) /\ Distinct(retained')
      /\ \A u \in Topics : \A v : Remembers(kept, u, v) => Remembers(retained', u, v)
  BY <1>1, <1>4, TrimmedIs
<1>7. MqttTypes' /\ Handlers'
  BY <1>1, <1>2, <1>6 DEF MqttInv, MqttTypes, Handlers, Unfinished
<1>8. Beginning'
  BY <1>1, <1>5 DEF MqttInv, Beginning
<1>9. ASSUME Listening, NEW t \in Topics \ own
      PROVE  /\ LastSays(Tail(inbox), t, broker[t])
             /\ NoneAbout(Tail(inbox), t) => Remembers(retained', t, broker[t])
  <2>1. /\ LastSays(inbox, t, broker[t])
        /\ NoneAbout(inbox, t) => Remembers(retained, t, broker[t])
    BY <1>9 DEF MqttInv, Agreed
  <2>2. /\ LastSays(Tail(inbox), t, broker[t])
        /\ NoneAbout(Tail(inbox), t) /\ ~About(m, t) => NoneAbout(inbox, t)
        /\ NoneAbout(Tail(inbox), t) /\ About(m, t) => m.value = broker[t]
    BY <1>1, <1>2, <2>1, TailSays DEF m
  <2>3. ASSUME NoneAbout(Tail(inbox), t)
        PROVE  Remembers(kept, t, broker[t])
    <3>1. CASE About(m, t)
      BY <1>4, <2>2, <2>3, <3>1 DEF About, Remembers
    <3>2. CASE ~About(m, t)
      <4>1. Same(retained, kept, t)
        BY <1>1, <1>4, <3>2 DEF About
      <4> QED
        BY <2>1, <2>2, <2>3, <3>2, <4>1, SameRemembers
    <3> QED
      BY <3>1, <3>2
  <2> QED
    BY <1>6, <2>2, <2>3
<1>10. Agreed'
  BY <1>1, <1>9 DEF Agreed, Listening
<1> QED
  BY <1>6, <1>7, <1>8, <1>10 DEF MqttInv

\* The handler's own change touches topics of Admin only.
LEMMA ContinueKeeps ==
  ASSUME MqttInv, NEW p \in Publications, Continue(p)
  PROVE  MqttInv'
<1> DEFINE t == request[p].topic
           v == request[p].value
<1>1. /\ request[p].stage = "acked" /\ request' = [request EXCEPT ![p].stage = "done"]
      /\ retained' = IF request[p].retain THEN Kept(retained, t, v) ELSE retained
      /\ UNCHANGED <<connected, subscriptions, subscribing, inbox, wire, broker, own>>
  BY DEF Continue, connection
<1>2. /\ retained \in Seq(Entries) /\ Distinct(retained)
      /\ t \in Topics /\ v \in Values \cup {Empty} /\ request[p].retain \in BOOLEAN
  BY <1>1 DEF MqttInv, MqttTypes, Handlers, ClientRequests
<1>3. connected /\ request[p].retain => t \in own
  BY <1>1 DEF MqttInv, Handlers, Unfinished
<1> HIDE DEF t, v
<1>4. /\ retained' \in Seq(Entries) /\ Distinct(retained')
      /\ \A u \in Topics : (request[p].retain /\ u = t) \/ Same(retained, retained', u)
  <2>1. CASE request[p].retain
    BY <1>1, <1>2, <2>1, KeptIs
  <2>2. CASE ~request[p].retain
    BY <1>1, <1>2, <2>2 DEF Same
  <2> QED
    BY <2>1, <2>2
<1>5. request' \in [Publications -> ClientRequests] /\ Handlers'
  BY <1>1, StageKeeps
<1>6. MqttTypes'
  BY <1>1, <1>4, <1>5 DEF MqttInv, MqttTypes
<1>7. Beginning'
  <2> SUFFICES ASSUME connected, Topics \in subscribing, NEW i \in DOMAIN retained'
               PROVE  retained'[i].topic \in own
    BY <1>1 DEF MqttInv, Beginning
  <2>1. retained'[i].topic \in Topics
    <3>1. retained'[i] \in Entries
      BY <1>4
    <3> QED
      BY <3>1 DEF Entries
  <2>2. CASE retained'[i].topic = t /\ request[p].retain
    BY <1>3, <2>2
  <2>3. CASE ~(retained'[i].topic = t /\ request[p].retain)
    <3>1. PICK j \in DOMAIN retained : retained[j] = retained'[i]
      BY <1>4, <2>1, <2>3 DEF Same
    <3> QED
      BY <3>1 DEF MqttInv, Beginning
  <2> QED
    BY <2>2, <2>3
<1>8. ASSUME Listening, NEW u \in Topics \ own, NoneAbout(inbox, u)
      PROVE  Remembers(retained', u, broker[u])
  <2>1. Same(retained, retained', u)
    BY <1>3, <1>4, <1>8 DEF Listening
  <2> QED
    BY <1>8, <2>1, SameRemembers DEF MqttInv, Agreed
<1>9. Agreed'
  BY <1>1, <1>8 DEF MqttInv, Agreed, Listening
<1> QED
  BY <1>4, <1>5, <1>6, <1>7, <1>9 DEF MqttInv

\* An owner's request is taken, or fails at once.
LEMMA PublishKeeps ==
  ASSUME MqttInv, NEW p \in Publications, NEW t \in Topics, NEW v \in Values \cup {Empty},
         NEW qos \in 0..1, NEW retain \in BOOLEAN, Publish(p, t, v, qos, retain)
  PROVE  MqttInv'
<1> DEFINE r == [stage |-> IF qos = 0 THEN "acked" ELSE "sent", topic |-> t, value |-> v,
                 qos |-> qos, retain |-> retain]
           w == [request |-> p, topic |-> t, value |-> v, retain |-> retain]
<1>1. request \in [Publications -> ClientRequests]
  BY DEF MqttInv, MqttTypes
<1>2. CASE connected
  <2>1. /\ request' = [request EXCEPT ![p] = r] /\ wire' = wire \cup {w}
        /\ own' = IF retain THEN own \cup {t} ELSE own
        /\ UNCHANGED <<connected, subscriptions, subscribing, inbox, broker, retained>>
    BY <1>2 DEF Publish, Accept, connection
  <2>2. /\ r \in ClientRequests /\ r.topic = t /\ r.retain = retain
        /\ w \in [request : Publications, topic : Topics, value : Values \cup {Empty},
                  retain : BOOLEAN]
    BY DEF ClientRequests
  <2> HIDE DEF r, w
  <2>3. /\ request' \in [Publications -> ClientRequests]
        /\ \A q \in Publications : request'[q] = IF q = p THEN r ELSE request[q]
    BY <1>1, <2>1, <2>2
  <2>4. own \subseteq own' /\ own' \subseteq Topics
    BY <2>1 DEF MqttInv, MqttTypes
  <2>5. MqttTypes'
    BY <2>1, <2>2, <2>3, <2>4 DEF MqttInv, MqttTypes
  <2>6. Unfinished' \subseteq own'
    BY <1>2, <2>1, <2>2, <2>3 DEF MqttInv, Handlers, Unfinished
  <2>7. Handlers'
    BY <2>2, <2>3, <2>6 DEF MqttInv, Handlers
  <2>8. Distinct(retained') /\ Beginning' /\ Agreed'
    BY <2>1, <2>4 DEF MqttInv, Beginning, Agreed, Listening
  <2> QED
    BY <2>5, <2>7, <2>8 DEF MqttInv
<1>3. CASE ~connected
  <2>1. /\ request' = [request EXCEPT ![p].stage = "failed"]
        /\ UNCHANGED <<connected, subscriptions, subscribing, inbox, wire, broker, retained, own>>
    BY <1>3 DEF Publish, connection
  <2>2. /\ request' \in [Publications -> ClientRequests]
        /\ \A q \in Publications :
              request'[q].stage \in {"sent", "acked"} => request'[q] = request[q]
    BY <1>1, <2>1 DEF ClientRequests
  <2>3. MqttTypes'
    BY <2>1, <2>2 DEF MqttInv, MqttTypes
  <2>4. Handlers'
    BY <1>3, <2>1, <2>2 DEF MqttInv, Handlers
  <2>5. Distinct(retained') /\ Beginning' /\ Agreed'
    BY <2>1 DEF MqttInv, Beginning, Agreed, Listening
  <2> QED
    BY <2>3, <2>4, <2>5 DEF MqttInv
<1> QED
  BY <1>2, <1>3

LEMMA RequestedKeeps ==
  ASSUME MqttInv, NEW p \in Publications, Requested(p)
  PROVE  MqttInv'
<1>1. PICK t \in Topics :
        \/ \E v \in Values \cup {Empty}, qos \in 0..1, retain \in BOOLEAN :
               Publish(p, t, v, qos, retain)
        \/ Publish(p, t, Empty, 1, TRUE)
  BY DEF Requested
<1>2. Empty \in Values \cup {Empty} /\ 1 \in 0..1 /\ TRUE \in BOOLEAN
  OBVIOUS
<1> QED
  BY <1>1, <1>2, PublishKeeps

-----------------------------------------------------------------------------
(* The broker. *)

\* The broker sends more, of topics that changed or that the client asked for.
LEMMA SentKeeps ==
  ASSUME MqttInv, connected, NEW e \in Seq(Packets), inbox' = inbox \o e,
         broker' \in [Topics -> Values \cup {Empty}],
         UNCHANGED <<connected, retained, own, request>>,
         Topics \in subscribing' => /\ Topics \in subscribing
                                    /\ \A i \in DOMAIN e : e[i].kind # "message",
         \A t \in Topics : \A i \in DOMAIN e : About(e[i], t) => e[i].value = broker'[t],
         Topics \notin subscribing' =>
             \A t \in Topics : NoneAbout(e, t) =>
                 broker'[t] = IF Topics \in subscribing THEN Empty ELSE broker[t]
  PROVE  /\ inbox' \in Seq(Packets) /\ Distinct(retained')
         /\ Handlers' /\ Beginning' /\ Agreed'
<1>1. inbox \in Seq(Packets) /\ inbox' \in Seq(Packets)
  BY DEF MqttInv, MqttTypes
<1>2. Distinct(retained') /\ Handlers'
  BY DEF MqttInv, Handlers, Unfinished
<1>3. Beginning'
  BY <1>1, AppendedKinds DEF MqttInv, Beginning
<1>4. ASSUME Listening', NEW t \in Topics \ own
      PROVE  /\ LastSays(inbox', t, broker'[t])
             /\ NoneAbout(inbox', t) => Remembers(retained, t, broker'[t])
  <2>1. CASE Topics \notin subscribing
    <3>1. /\ LastSays(inbox, t, broker[t])
          /\ NoneAbout(inbox, t) => Remembers(retained, t, broker[t])
      BY <1>4, <2>1 DEF MqttInv, Agreed, Listening
    <3>2. NoneAbout(e, t) => broker'[t] = broker[t]
      BY <1>4, <2>1 DEF Listening
    <3> QED
      BY <1>1, <3>1, <3>2, AppendedSays
  <2>2. CASE Topics \in subscribing
    <3>1. /\ \A i \in DOMAIN inbox : inbox[i].kind # "message"
          /\ \A i \in DOMAIN retained : retained[i].topic # t
      BY <1>4, <2>2 DEF MqttInv, Beginning
    <3>2. LastSays(inbox, t, Empty)
      BY <3>1 DEF LastSays, About
    <3>3. NoneAbout(e, t) => Empty = broker'[t]
      BY <1>4, <2>2 DEF Listening
    <3>4. /\ LastSays(inbox', t, broker'[t])
          /\ NoneAbout(inbox', t) => NoneAbout(e, t)
      BY <1>1, <3>2, <3>3, AppendedSays
    <3>5. NoneAbout(inbox', t) => Remembers(retained, t, broker'[t])
      BY <3>1, <3>3, <3>4 DEF Remembers
    <3> QED
      BY <3>4, <3>5
  <2> QED
    BY <2>1, <2>2
<1>5. Agreed'
  BY <1>4 DEF Agreed
<1> QED
  BY <1>1, <1>2, <1>3, <1>5

\* The answer to a subscription has each topic of it that the broker retains.
LEMMA RetainedPacketsAre ==
  ASSUME MqttInv, NEW f \in SUBSET Topics, NEW packets \in RetainedPackets(f)
  PROVE  /\ packets \in Seq(Packets)
         /\ \A i \in DOMAIN packets : \A t \in Topics :
               About(packets[i], t) => packets[i].value = broker[t]
         /\ \A t \in f : broker[t] # Empty => ~NoneAbout(packets, t)
<1> DEFINE S == {t \in f : broker[t] # Empty}
           n == Cardinality(S)
<1>1. S \subseteq Topics /\ IsFiniteSet(S) /\ n \in Nat
  <2>1. S \in SUBSET Topics
    OBVIOUS
  <2> HIDE DEF S
  <2> QED
    BY <2>1, MqttAssumption, FS_Subset, FS_CardinalityType
<1>2. PICK ts \in SetToSeqs(S) :
          packets = [i \in DOMAIN ts |-> MessagePacket(ts[i], broker[ts[i]], TRUE)]
  BY DEF RetainedPackets
<1> HIDE DEF S
<1>3. ts \in [1..n -> S] /\ \A i, j \in 1..n : i # j => ts[i] # ts[j]
  BY DEF SetToSeqs
<1>4. ts \in Injection(1..n, S)
  BY <1>3 DEF Injection, IsInjective
<1>5. Cardinality(1..n) = n
  BY <1>1, FS_Interval
<1>6. ts \in Surjection(1..n, S)
  BY <1>1, <1>4, <1>5, FS_Injection
<1>7. \A t \in S : \E i \in 1..n : ts[i] = t
  BY <1>6 DEF Surjection
<1>8. broker \in [Topics -> Values \cup {Empty}]
  BY DEF MqttInv, MqttTypes
<1> HIDE DEF n
<1>9. \A i \in 1..n : /\ packets[i] = MessagePacket(ts[i], broker[ts[i]], TRUE)
                      /\ packets[i] \in Packets
  <2> SUFFICES ASSUME NEW i \in 1..n
               PROVE  /\ packets[i] = MessagePacket(ts[i], broker[ts[i]], TRUE)
                      /\ packets[i] \in Packets
    OBVIOUS
  <2>1. packets[i] = MessagePacket(ts[i], broker[ts[i]], TRUE) /\ ts[i] \in Topics
    BY <1>1, <1>2, <1>3
  <2>2. MessagePacket(ts[i], broker[ts[i]], TRUE) \in
            [kind : {"message"}, topic : Topics, value : Values \cup {Empty}, retain : BOOLEAN]
    BY <1>8, <2>1 DEF MessagePacket
  <2> QED
    BY <2>1, <2>2 DEF Packets
<1>10. DOMAIN packets = 1..n
  BY <1>2, <1>3
<1>11. packets \in Seq(Packets)
  <2>1. packets = [i \in 1..n |-> packets[i]]
    BY <1>2, <1>3
  <2>2. \A i \in 1..n : packets[i] \in Packets
    BY <1>9
  <2> QED
    BY <1>1, <2>1, <2>2, SeqDef
<1>12. \A i \in DOMAIN packets : \A t \in Topics :
          About(packets[i], t) => packets[i].value = broker[t]
  BY <1>9, <1>10 DEF About, MessagePacket
<1>13. \A t \in f : broker[t] # Empty => ~NoneAbout(packets, t)
  <2> SUFFICES ASSUME NEW t \in f, broker[t] # Empty
               PROVE  \E i \in DOMAIN packets : About(packets[i], t)
    BY DEF NoneAbout
  <2>1. PICK i \in 1..n : ts[i] = t
    BY <1>7 DEF S
  <2> QED
    BY <1>9, <1>10, <2>1 DEF About, MessagePacket
<1> QED
  BY <1>11, <1>12, <1>13

LEMMA BrokerSubscribesKeeps ==
  ASSUME MqttInv, NEW f \in subscribing, BrokerSubscribes(f)
  PROVE  MqttInv'
<1>1. /\ connected /\ (Topics \in subscribing => f = Topics)
      /\ subscribing' = subscribing \ {f}
      /\ UNCHANGED <<connected, subscriptions, wire, broker, retained, request, own>>
  BY DEF BrokerSubscribes
<1>2. PICK packets \in RetainedPackets(f) : inbox' = inbox \o <<SubscribedPacket(f)>> \o packets
  BY DEF BrokerSubscribes
<1>3. f \in SUBSET Topics /\ f \in Filters \cup {Topics}
  BY MqttAssumption DEF MqttInv, MqttTypes
<1>4. /\ packets \in Seq(Packets)
      /\ \A i \in DOMAIN packets : \A t \in Topics :
            About(packets[i], t) => packets[i].value = broker[t]
      /\ \A t \in f : broker[t] # Empty => ~NoneAbout(packets, t)
  BY <1>3, RetainedPacketsAre
<1> DEFINE first == SubscribedPacket(f)
           e == <<first>> \o packets
<1>5. first \in Packets /\ first.kind = "suback"
  BY <1>3 DEF SubscribedPacket, Packets
<1> HIDE DEF first
<1>6. /\ e \in Seq(Packets) /\ DOMAIN e = 1..(Len(packets) + 1) /\ Len(packets) \in Nat
      /\ DOMAIN packets = 1..Len(packets)
      /\ \A i \in 1..(Len(packets) + 1) : e[i] = IF i <= 1 THEN first ELSE packets[i - 1]
  <2>1. <<first>> \in Seq(Packets) /\ Len(<<first>>) = 1 /\ <<first>>[1] = first
    BY <1>5
  <2>2. /\ e \in Seq(Packets) /\ Len(e) = 1 + Len(packets)
        /\ \A i \in 1..(1 + Len(packets)) :
              e[i] = IF i <= 1 THEN <<first>>[i] ELSE packets[i - 1]
    BY <1>4, <2>1, ConcatProperties
  <2> HIDE DEF e
  <2>3. Len(packets) \in Nat /\ 1 + Len(packets) = Len(packets) + 1
    BY <1>4
  <2> QED
    BY <1>4, <2>1, <2>2, <2>3
<1>7. inbox \in Seq(Packets)
  BY DEF MqttInv, MqttTypes
<1>8. inbox' = inbox \o e
  BY <1>2, <1>4, <1>5, <1>7, ConcatAssociative DEF first
<1> HIDE DEF e
<1>9. \A t \in Topics : \A i \in DOMAIN e : About(e[i], t) => e[i].value = broker[t]
  <2> SUFFICES ASSUME NEW t \in Topics, NEW i \in 1..(Len(packets) + 1), About(e[i], t)
               PROVE  e[i].value = broker[t]
    BY <1>6
  <2>1. e[i] # first
    BY <1>5 DEF About
  <2>2. i - 1 \in DOMAIN packets /\ e[i] = packets[i - 1]
    BY <1>6, <2>1
  <2> QED
    BY <1>4, <2>2
<1>10. \A t \in f : NoneAbout(e, t) => broker[t] = Empty
  <2> SUFFICES ASSUME NEW t \in f, broker[t] # Empty
               PROVE  ~NoneAbout(e, t)
    OBVIOUS
  <2>1. PICK i \in DOMAIN packets : About(packets[i], t)
    BY <1>4 DEF NoneAbout
  <2>2. i + 1 \in DOMAIN e /\ e[i + 1] = packets[i]
    <3>1. i + 1 \in 1..(Len(packets) + 1) /\ ~(i + 1 <= 1) /\ (i + 1) - 1 = i
      BY <1>6
    <3> QED
      BY <1>6, <3>1
  <2> QED
    BY <2>1, <2>2 DEF NoneAbout
<1>11. Topics \notin subscribing'
  BY <1>1
<1>12. \A t \in Topics : NoneAbout(e, t) =>
          broker[t] = IF Topics \in subscribing THEN Empty ELSE broker[t]
  BY <1>1, <1>10
<1>13. /\ inbox' \in Seq(Packets) /\ Distinct(retained')
       /\ Handlers' /\ Beginning' /\ Agreed'
  <2>1. broker' \in [Topics -> Values \cup {Empty}] /\ broker' = broker /\ connected
        /\ UNCHANGED <<connected, retained, own, request>>
    BY <1>1 DEF MqttInv, MqttTypes
  <2>2. Topics \in subscribing' => /\ Topics \in subscribing
                                    /\ \A i \in DOMAIN e : e[i].kind # "message"
    BY <1>11
  <2>3. \A t \in Topics : \A i \in DOMAIN e : About(e[i], t) => e[i].value = broker'[t]
    BY <1>9, <2>1
  <2>4. Topics \notin subscribing' =>
            \A t \in Topics : NoneAbout(e, t) =>
                broker'[t] = IF Topics \in subscribing THEN Empty ELSE broker[t]
    BY <1>12, <2>1
  <2>5. e \in Seq(Packets)
    BY <1>6
  <2> QED
    BY <1>8, <2>1, <2>2, <2>3, <2>4, <2>5, SentKeeps
<1>14. MqttTypes'
  BY <1>1, <1>13 DEF MqttInv, MqttTypes
<1> QED
  BY <1>13, <1>14 DEF MqttInv

LEMMA BrokerTakesKeeps ==
  ASSUME MqttInv, NEW w \in wire, NEW ok \in BOOLEAN, BrokerTakes(w, ok)
  PROVE  MqttInv'
<1> DEFINE ack == AckPacket(w.request, ok)
           m == MessagePacket(w.topic, w.value, w.retain)
           message == IF Listening THEN <<m>> ELSE <<>>
<1>1. /\ connected /\ wire' = wire \ {w}
      /\ broker' = IF ok /\ w.retain THEN [broker EXCEPT ![w.topic] = w.value] ELSE broker
      /\ UNCHANGED <<connected, subscriptions, subscribing, retained, request, own>>
  BY DEF BrokerTakes, connection
<1>2. PICK a \in {<<>>, <<ack>>}, first \in BOOLEAN :
          inbox' = IF ~ok THEN inbox \o a
                   ELSE IF first THEN inbox \o a \o message ELSE inbox \o message \o a
  BY DEF BrokerTakes
<1>3. /\ w.request \in Publications /\ w.topic \in Topics /\ w.value \in Values \cup {Empty}
      /\ w.retain \in BOOLEAN
  BY DEF MqttInv, MqttTypes
<1>4. /\ ack \in Packets /\ ack.kind = "ack" /\ m \in Packets /\ m.kind = "message"
      /\ m.topic = w.topic /\ m.value = w.value /\ m.retain = w.retain
  BY <1>3 DEF AckPacket, MessagePacket, Packets
<1> HIDE DEF ack, m
<1>5. /\ a \in Seq(Packets) /\ message \in Seq(Packets) /\ inbox \in Seq(Packets)
      /\ Len(a) \in 0..1 /\ (Len(a) = 1 => a[1] = ack)
      /\ Len(message) = (IF Listening THEN 1 ELSE 0) /\ (Listening => message[1] = m)
  <2>1. inbox \in Seq(Packets)
    BY DEF MqttInv, MqttTypes
  <2>2. a \in Seq(Packets) /\ Len(a) \in 0..1 /\ (Len(a) = 1 => a[1] = ack)
    <3>1. CASE a = <<>>
      BY <3>1
    <3>2. CASE a = <<ack>>
      BY <1>4, <3>2
    <3> QED
      BY <1>2, <3>1, <3>2
  <2>3. /\ message \in Seq(Packets)
        /\ Len(message) = (IF Listening THEN 1 ELSE 0) /\ (Listening => message[1] = m)
    <3>1. CASE Listening
      <4>1. message = <<m>>
        BY <3>1
      <4> QED
        BY <1>4, <3>1, <4>1
    <3>2. CASE ~Listening
      <4>1. message = <<>>
        BY <3>2
      <4> QED
        BY <3>2, <4>1
    <3> QED
      BY <3>1, <3>2
  <2> QED
    BY <2>1, <2>2, <2>3
<1> HIDE DEF message
<1> DEFINE e == IF ~ok THEN a ELSE IF first THEN a \o message ELSE message \o a
<1>6. inbox' = inbox \o e
  <2>1. (inbox \o a) \o message = inbox \o (a \o message)
    BY <1>5, ConcatAssociative
  <2>2. (inbox \o message) \o a = inbox \o (message \o a)
    BY <1>5, ConcatAssociative
  <2>3. CASE ~ok
    BY <1>2, <2>3
  <2>4. CASE ok /\ first
    BY <1>2, <2>1, <2>4
  <2>5. CASE ok /\ ~first
    BY <1>2, <2>2, <2>5
  <2> QED
    BY <2>3, <2>4, <2>5
<1>7. /\ e \in Seq(Packets)
      /\ \A i \in DOMAIN e : e[i] = ack \/ (e[i] = m /\ ok /\ Listening)
      /\ ok /\ Listening => \E i \in DOMAIN e : e[i] = m
  <2>1. CASE ~ok
    <3>1. e = a
      BY <2>1
    <3> QED
      BY <1>5, <2>1, <3>1
  <2>2. CASE ok /\ first
    <3>1. /\ e = a \o message /\ e \in Seq(Packets) /\ Len(e) = Len(a) + Len(message)
          /\ DOMAIN e = 1..Len(e)
          /\ \A i \in 1..Len(e) : e[i] = IF i <= Len(a) THEN a[i] ELSE message[i - Len(a)]
      <4>1. e = a \o message
        BY <2>2
      <4> HIDE DEF e
      <4>2. /\ e \in Seq(Packets) /\ Len(e) = Len(a) + Len(message)
            /\ \A i \in 1..(Len(a) + Len(message)) :
                  e[i] = IF i <= Len(a) THEN a[i] ELSE message[i - Len(a)]
        BY <1>5, <4>1, ConcatProperties
      <4> QED
        BY <4>1, <4>2
    <3> HIDE DEF e
    <3>2. \A i \in DOMAIN e : e[i] = ack \/ (e[i] = m /\ ok /\ Listening)
      BY <1>5, <2>2, <3>1
    <3>3. Listening => Len(e) \in DOMAIN e /\ e[Len(e)] = m
      BY <1>5, <3>1
    <3> QED
      BY <3>1, <3>2, <3>3
  <2>3. CASE ok /\ ~first
    <3>1. /\ e = message \o a /\ e \in Seq(Packets) /\ Len(e) = Len(message) + Len(a)
          /\ DOMAIN e = 1..Len(e)
          /\ \A i \in 1..Len(e) :
                e[i] = IF i <= Len(message) THEN message[i] ELSE a[i - Len(message)]
      BY <1>5, <2>3, ConcatProperties
    <3> HIDE DEF e
    <3>2. \A i \in DOMAIN e : e[i] = ack \/ (e[i] = m /\ ok /\ Listening)
      BY <1>5, <2>3, <3>1
    <3>3. Listening => 1 \in DOMAIN e /\ e[1] = m
      BY <1>5, <3>1
    <3> QED
      BY <3>1, <3>2, <3>3
  <2> QED
    BY <2>1, <2>2, <2>3
<1> HIDE DEF e
<1>8. broker' \in [Topics -> Values \cup {Empty}]
       /\ \A t \in Topics : broker'[t] = IF ok /\ w.retain /\ t = w.topic THEN w.value
                                         ELSE broker[t]
  BY <1>1, <1>3 DEF MqttInv, MqttTypes
<1>9. \A t \in Topics : \A i \in DOMAIN e : About(e[i], t) => e[i].value = broker'[t]
  BY <1>4, <1>7, <1>8 DEF About
<1>10. Topics \in subscribing' => /\ Topics \in subscribing
                                  /\ \A i \in DOMAIN e : e[i].kind # "message"
  BY <1>1, <1>4, <1>7 DEF Listening
<1>11. Topics \notin subscribing' =>
           \A t \in Topics : NoneAbout(e, t) =>
               broker'[t] = IF Topics \in subscribing THEN Empty ELSE broker[t]
  <2> SUFFICES ASSUME Listening, NEW t \in Topics, NoneAbout(e, t)
               PROVE  broker'[t] = broker[t]
    BY <1>1 DEF Listening
  <2>1. ~(ok /\ w.retain /\ t = w.topic)
    BY <1>4, <1>7 DEF NoneAbout, About
  <2> QED
    BY <1>8, <2>1
<1>12. /\ inbox' \in Seq(Packets) /\ Distinct(retained')
       /\ Handlers' /\ Beginning' /\ Agreed'
  BY <1>1, <1>6, <1>7, <1>8, <1>9, <1>10, <1>11, SentKeeps
<1>13. MqttTypes'
  BY <1>1, <1>8, <1>12 DEF MqttInv, MqttTypes
<1> QED
  BY <1>12, <1>13 DEF MqttInv

\* While the client is away or has not subscribed, a device's message does not reach it.
LEMMA DevicePublishesKeeps ==
  ASSUME MqttInv, NEW t \in Topics, NEW v \in Values \cup {Empty}, DevicePublishes(t, v)
  PROVE  MqttInv'
<1> DEFINE m == MessagePacket(t, v, TRUE)
<1>1. /\ broker' = [broker EXCEPT ![t] = v]
      /\ inbox' = IF Listening THEN Append(inbox, m) ELSE inbox
      /\ UNCHANGED <<connected, subscriptions, subscribing, wire, retained, request, own>>
  BY DEF DevicePublishes, connection
<1>2. /\ m \in Packets /\ m.kind = "message" /\ m.topic = t /\ m.value = v /\ m.retain
  BY DEF MessagePacket, Packets
<1> HIDE DEF m
<1>3. broker' \in [Topics -> Values \cup {Empty}]
      /\ \A u \in Topics : broker'[u] = IF u = t THEN v ELSE broker[u]
  BY <1>1 DEF MqttInv, MqttTypes
<1>4. inbox \in Seq(Packets)
  BY DEF MqttInv, MqttTypes
<1>5. CASE Listening
  <2> DEFINE e == <<m>>
  <2>1. e \in Seq(Packets) /\ DOMAIN e = {1} /\ e[1] = m
    BY <1>2
  <2>2. inbox' = inbox \o e
    BY <1>1, <1>4, <1>5, <2>1
  <2> HIDE DEF e
  <2>3. \A u \in Topics : \A i \in DOMAIN e : About(e[i], u) => e[i].value = broker'[u]
    BY <1>2, <1>3, <2>1 DEF About
  <2>4. \A u \in Topics : NoneAbout(e, u) => broker'[u] = broker[u]
    BY <1>2, <1>3, <2>1 DEF About, NoneAbout
  <2>5. connected /\ Topics \notin subscribing
    BY <1>5 DEF Listening
  <2>6. /\ inbox' \in Seq(Packets) /\ Distinct(retained')
        /\ Handlers' /\ Beginning' /\ Agreed'
    BY <1>1, <1>3, <2>1, <2>2, <2>3, <2>4, <2>5, SentKeeps
  <2>7. MqttTypes'
    BY <1>1, <1>3, <2>6 DEF MqttInv, MqttTypes
  <2> QED
    BY <2>6, <2>7 DEF MqttInv
<1>6. CASE ~Listening
  <2>1. MqttTypes'
    BY <1>1, <1>3, <1>6 DEF MqttInv, MqttTypes
  <2>2. Distinct(retained') /\ Handlers' /\ Beginning' /\ Agreed'
    BY <1>1, <1>6 DEF MqttInv, Handlers, Unfinished, Beginning, Agreed, Listening
  <2> QED
    BY <2>1, <2>2 DEF MqttInv
<1> QED
  BY <1>5, <1>6

LEMMA StepMqttInv == MqttInv /\ [MqttNext]_mqttVars => MqttInv'
<1> SUFFICES ASSUME MqttInv, [MqttNext]_mqttVars PROVE MqttInv'
  OBVIOUS
<1>1. CASE UNCHANGED mqttVars
  BY <1>1 DEF mqttVars, connection, MqttInv, MqttTypes, Handlers, Unfinished, Beginning, Agreed,
              Listening
<1>2. CASE MqttNext
  BY <1>2, ConnectKeeps, BreakKeeps, MessageKeeps, AckKeeps, SubackKeeps, SubscribeKeeps,
     BrokerSubscribesKeeps, RequestedKeeps, TimesOutKeeps, ContinueKeeps, BrokerTakesKeeps,
     DevicePublishesKeeps
     DEF MqttNext
<1> QED
  BY <1>1, <1>2

LEMMA MqttInvAlways == MqttSpec => []MqttInv
  BY InitMqttInv, StepMqttInv, PTL DEF MqttSpec

\* When the client is connected and nothing is under way, what Admin shows as retained of a topic
\* it did not publish to itself is what the broker retains, whatever was published or cleared
\* while the connection was down (mqtt-service.js:39, 146).
THEOREM RetainedMessagesAgree == MqttSpec => []RetainedAgrees
<1>1. MqttInv => RetainedAgrees
  <2> SUFFICES ASSUME MqttInv, Listening, inbox = <<>>, NEW t \in Topics \ own
               PROVE  /\ Shown(t) # Empty => Shown(t) = broker[t]
                      /\ Cardinality(Topics) <= RetainedLimit => Shown(t) = broker[t]
    BY DEF RetainedAgrees
  <2>1. Remembers(retained, t, broker[t])
    BY DEF MqttInv, Agreed, NoneAbout
  <2>2. CASE Has(retained, t)
    BY <2>1, <2>2, PlaceIs DEF Shown, Remembers
  <2>3. CASE ~Has(retained, t)
    BY <2>1, <2>3 DEF Shown, Remembers
  <2> QED
    BY <2>2, <2>3
<1> QED
  BY <1>1, MqttInvAlways, PTL
=============================================================================
