------------------------- MODULE ProvisioningProofs -------------------------
(***************************************************************************)
(* Proofs about Provisioning and LocalCa for every value of their          *)
(* constants: the private keys, the answer the updater waits for, the      *)
(* trust in imported certificates, the identities, and the numbers of the  *)
(* local CA.                                                               *)
(***************************************************************************)
EXTENDS Provisioning, LocalCa, TLAPS

Statuses == {"none", "pending", "received", "completed", "cancelled", "revoked", "deleted"}
Records == [status : Statuses, device : Devices \cup {0}]
DeviceStates == [Devices -> {"absent", "active", "archived", "deleted"}]
Imported == [status : {"none", "active", "revoked", "deleted"}, trusted : BOOLEAN]
Documents == [device : DeviceStates, record : [Requests -> Records], cert : [Certs -> Imported],
              trustedCas : SUBSET Cas]

RegistryTypes ==
    /\ device \in DeviceStates /\ record \in [Requests -> Records]
    /\ cert \in [Certs -> Imported] /\ trustedCas \subseteq Cas
HandlerTypes ==
    /\ making \subseteq [request : Requests, device : Devices, loaded : Documents]
    /\ client \in [Requests -> {"none", "there", "left"}]
Types ==
    /\ RegistryTypes /\ HandlerTypes
    /\ memory \in [Requests -> {"none", "held", "expired", "delivered"}]
    /\ gate \in [closed : BOOLEAN, ready : BOOLEAN]
    /\ sent \in [Requests -> Nat] /\ restarts \in Nat

\* Who keeps the queue waiting.
TurnOK ==
    \/ turn = NoTurn
    \/ \E r \in Requests : turn = <<"csr", r>>
    \/ \E a \in Cas : turn = <<"trust", a>> /\ (a \in trustedCas \/ ~NobodyLeft)
    \/ \E a \in Cas : turn = <<"distrust", a>>

\* What a handler that makes a key relies on when it saves: no registry has its request, none
\* that anybody loaded either, and its own is the current one unless a client left.
MakingOK(m) ==
    /\ client[m.request] # "none" /\ sent[m.request] = 0 /\ memory[m.request] = "none"
    /\ record[m.request] = NoRecord
    /\ client[m.request] = "there" => turn = <<"csr", m.request>>
    /\ \A n \in making :
          n.loaded.record[m.request] = NoRecord /\ (n.request = m.request => n = m)
    /\ NobodyLeft => m.loaded = Loaded
HandlersOK == \A m \in making : MakingOK(m)

\* Where a key is says how often it was sent.
KeyOK(r) ==
    /\ memory[r] \in {"held", "expired"} => sent[r] = 0
    /\ memory[r] = "delivered" => sent[r] = 1
    /\ sent[r] <= 1
    /\ client[r] = "none" => sent[r] = 0 /\ memory[r] = "none"
    /\ memory[r] # "none" =>
          record[r].status \in {"pending", "revoked", "deleted"} \/ ~NobodyLeft

\* What a record of r says of its key, in the registry and in those that handlers loaded.
RecordOK(r, rec) ==
    /\ rec.status \in {"received", "completed"} => sent[r] = 1
    /\ rec.status \in {"received", "completed", "cancelled"} => memory[r] = "none"
    /\ client[r] = "none" => rec = NoRecord

KeysOK == \A r \in Requests : KeyOK(r) /\ RecordOK(r, record[r])
LoadedOK == \A m \in making, r \in Requests : RecordOK(r, m.loaded.record[r])

GateOK == ReadyHolds /\ (gate.ready => gate.closed)

TrustsOK ==
    /\ \A f \in Certs :
          cert[f].trusted => Issuer[f] \in trustedCas /\ cert[f].status \in {"active", "revoked"}
    /\ turn[1] \in {"trust", "distrust"} \/ restarts # 0 \/ bundle = trustedCas
TrustOK == NobodyLeft => TrustsOK

IInv == Types /\ TurnOK /\ HandlersOK /\ KeysOK /\ LoadedOK /\ GateOK /\ TrustOK

LEMMA InitIInv == ProvisioningInit => IInv
<1> SUFFICES ASSUME ProvisioningInit PROVE IInv
  OBVIOUS
<1>1. Types
  BY DEF ProvisioningInit, Types, RegistryTypes, HandlerTypes, DeviceStates, Records, Statuses,
         Imported, NoRecord, NoCert
<1>2. TurnOK /\ GateOK /\ TrustOK
  BY DEF ProvisioningInit, TurnOK, GateOK, ReadyHolds, TrustOK, TrustsOK, NoCert, NoTurn
<1>3. KeysOK /\ HandlersOK /\ LoadedOK
  BY DEF ProvisioningInit, KeysOK, KeyOK, RecordOK, HandlersOK, LoadedOK, NoRecord
<1> QED
  BY <1>1, <1>2, <1>3 DEF IInv

LEMMA Turns ==
  ASSUME TurnOK
  PROVE  /\ turn[1] = "trust" => turn[2] \in trustedCas \/ ~NobodyLeft
         /\ turn = NoTurn => turn[1] = "none"
<1>1. CASE turn = NoTurn
  BY <1>1 DEF NoTurn
<1>2. ASSUME NEW r \in Requests, turn = <<"csr", r>>
      PROVE  turn[1] = "csr" /\ turn # NoTurn
  BY <1>2 DEF NoTurn
<1>3. ASSUME NEW a \in Cas, turn = <<"trust", a>> /\ (a \in trustedCas \/ ~NobodyLeft)
      PROVE  turn[1] = "trust" /\ (turn[2] \in trustedCas \/ ~NobodyLeft) /\ turn # NoTurn
  BY <1>3 DEF NoTurn
<1>4. ASSUME NEW a \in Cas, turn = <<"distrust", a>>
      PROVE  turn[1] = "distrust" /\ turn # NoTurn
  BY <1>4 DEF NoTurn
<1> QED
  BY <1>1, <1>2, <1>3, <1>4 DEF TurnOK

-----------------------------------------------------------------------------
(* What a step leaves alone. *)

\* Handlers whose client left, for which no rule about the turn holds.
Unheard == \A m \in making : client[m.request] = "left"

LEMMA OthersTurn ==
  ASSUME IInv, turn[1] # "csr"
  PROVE  Unheard
<1> SUFFICES ASSUME NEW m \in making PROVE client[m.request] = "left"
  BY DEF Unheard
<1>1. MakingOK(m) /\ m.request \in Requests
  BY DEF IInv, HandlersOK, Types, HandlerTypes
<1>2. client[m.request] # "there"
  BY <1>1 DEF MakingOK
<1> QED
  BY <1>1, <1>2 DEF IInv, Types, HandlerTypes, MakingOK

LEMMA FreeTurnUnheard ==
  ASSUME IInv, turn = NoTurn
  PROVE  Unheard
<1>1. turn[1] # "csr"
  BY Turns DEF IInv
<1> QED
  BY <1>1, OthersTurn

LEMMA UnheardLeft ==
  ASSUME IInv, Unheard, NEW m \in making
  PROVE  ~NobodyLeft /\ client[m.request] = "left"
  BY DEF Unheard, NobodyLeft, IInv, Types, HandlerTypes

\* A key is only forgotten, and a key that is not in memory is not sent.
Forgets(r) == memory[r] = "none" => memory'[r] = "none" /\ sent'[r] = sent[r]
RecordsStay == \A r \in Requests : record[r] = NoRecord => record'[r] = NoRecord

LEMMA LoadedStays ==
  ASSUME IInv, UNCHANGED <<making, client>>, \A r \in Requests : Forgets(r)
  PROVE  LoadedOK'
<1> SUFFICES ASSUME NEW m \in making, NEW r \in Requests
             PROVE  RecordOK(r, m.loaded.record[r])'
  BY DEF LoadedOK
<1>1. RecordOK(r, m.loaded.record[r]) /\ Forgets(r)
  BY DEF IInv, LoadedOK
<1> QED
  BY <1>1 DEF RecordOK, Forgets, NoRecord, IInv, LoadedOK

LEMMA MakingStays ==
  ASSUME IInv, UNCHANGED <<making, client>>, \A r \in Requests : Forgets(r), RecordsStay,
         (Unheard \/ UNCHANGED <<turn, registry>>)
  PROVE  HandlersOK'
<1> SUFFICES ASSUME NEW m \in making PROVE MakingOK(m)'
  BY DEF HandlersOK
<1>1. MakingOK(m) /\ m.request \in Requests
  BY DEF IInv, HandlersOK, Types, HandlerTypes
<1>2. /\ client'[m.request] # "none" /\ sent'[m.request] = 0 /\ memory'[m.request] = "none"
      /\ record'[m.request] = NoRecord
  BY <1>1 DEF MakingOK, Forgets, RecordsStay
<1>3. \A n \in making' :
         n.loaded.record[m.request] = NoRecord /\ (n.request = m.request => n = m)
  BY <1>1 DEF MakingOK
<1>4. CASE UNCHANGED <<turn, registry>>
  BY <1>1, <1>2, <1>3, <1>4 DEF MakingOK, NobodyLeft, Loaded, registry
<1>5. CASE Unheard
  <2>1. client[m.request] = "left"
    BY <1>5, UnheardLeft
  <2>2. ~NobodyLeft'
    BY <1>1, <2>1 DEF NobodyLeft
  <2> QED
    BY <1>2, <1>3, <2>1, <2>2 DEF MakingOK
<1> QED
  BY <1>4, <1>5

LEMMA NobodyStays ==
  ASSUME UNCHANGED client
  PROVE  NobodyLeft' <=> NobodyLeft
  BY DEF NobodyLeft

LEMMA SameKeys ==
  ASSUME KeysOK, UNCHANGED <<record, memory, client, sent>>
  PROVE  KeysOK'
  BY NobodyStays DEF KeysOK, KeyOK, RecordOK

LEMMA SameGate ==
  ASSUME GateOK, UNCHANGED <<memory, making, client, gate>>
  PROVE  GateOK'
  BY DEF GateOK, ReadyHolds

\* Changes are refused while the gate is closed, so none finds the answer given.
LEMMA OpenGateOK ==
  ASSUME GateOK, Types, ~gate.closed, UNCHANGED gate
  PROVE  GateOK'
  BY DEF GateOK, ReadyHolds

LEMMA TrustStays ==
  ASSUME TrustOK, UNCHANGED client, TrustsOK => TrustsOK'
  PROVE  TrustOK'
  BY NobodyStays DEF TrustOK

LEMMA SameTrust ==
  ASSUME TrustOK, UNCHANGED <<cert, trustedCas, bundle, turn, client, restarts>>
  PROVE  TrustOK'
<1>1. TrustsOK => TrustsOK'
  BY DEF TrustsOK
<1> QED
  BY <1>1, TrustStays

LEMMA FreeTurn ==
  ASSUME UNCHANGED turn, turn = NoTurn
  PROVE  TurnOK'
  BY DEF TurnOK

\* A record of r that differs from the old one only in its status.
LEMMA BecomeIs ==
  ASSUME Types, NEW r \in Requests, NEW status \in Statuses, Become(r, status)
  PROVE  /\ record' \in [Requests -> Records] /\ record'[r].status = status
         /\ \A q \in Requests : q # r => record'[q] = record[q]
  BY DEF Types, RegistryTypes, Become, Records

\* A request that has a record keeps one.
LEMMA BecomeStays ==
  ASSUME Types, NEW r \in Requests, NEW status \in Statuses, Become(r, status),
         record[r].status # "none"
  PROVE  RecordsStay
  BY BecomeIs DEF RecordsStay, NoRecord

\* What is left to show when a request that was not refused left the handlers alone.
LEMMA ChangeKeeps ==
  ASSUME IInv, Mutation, UNCHANGED <<handlers, gate>>, Types', KeysOK', TrustOK',
         \A r \in Requests : Forgets(r), RecordsStay
  PROVE  IInv'
<1>1. turn = NoTurn /\ ~gate.closed /\ UNCHANGED <<making, turn, client, gate>>
  BY DEF Mutation, handlers
<1>2. TurnOK'
  BY <1>1, FreeTurn
<1>3. GateOK'
  BY <1>1, OpenGateOK DEF IInv
<1>4. HandlersOK' /\ LoadedOK'
  BY <1>1, FreeTurnUnheard, MakingStays, LoadedStays
<1> QED
  BY <1>2, <1>3, <1>4 DEF IInv

LEMMA SameMemory ==
  ASSUME UNCHANGED <<memory, sent>>
  PROVE  \A r \in Requests : Forgets(r)
  BY DEF Forgets

LEMMA SameRecords ==
  ASSUME UNCHANGED record
  PROVE  RecordsStay
  BY DEF RecordsStay

-----------------------------------------------------------------------------
(* Steps that change the keys. *)

LEMMA CsrKeeps ==
  ASSUME IInv, NEW r \in Requests, NEW x \in Devices, ExternalCsr(r, x)
  PROVE  IInv'
<1>0. PICK new : new = [request |-> r, device |-> x, loaded |-> Loaded]
  OBVIOUS
<1>1. /\ Mutation /\ client[r] = "none" /\ Provisionable(x) /\ turn' = <<"csr", r>>
      /\ client' = [client EXCEPT ![r] = "there"] /\ making' = making \cup {new}
      /\ UNCHANGED <<device, record, cert, trustedCas, bundle, memory, gate, sent, restarts>>
  BY <1>0 DEF ExternalCsr, registry
<1>2. Loaded \in Documents /\ Loaded.record = record
  BY DEF IInv, Types, RegistryTypes, Loaded, Documents
<1>3. Types'
  <2>1. HandlerTypes'
    BY <1>0, <1>1, <1>2 DEF IInv, Types, HandlerTypes
  <2> QED
    BY <1>1, <2>1 DEF IInv, Types, RegistryTypes
<1>4. /\ client'[r] = "there" /\ \A q \in Requests : q # r => client'[q] = client[q]
      /\ NobodyLeft' => NobodyLeft
  BY <1>1 DEF IInv, Types, HandlerTypes, NobodyLeft
<1>5. record[r] = NoRecord /\ sent[r] = 0 /\ memory[r] = "none"
  BY <1>1 DEF IInv, KeysOK, KeyOK, RecordOK
<1>6. \A m \in making : MakingOK(m) /\ m.request \in Requests /\ client[m.request] = "left"
  <2>1. turn = NoTurn
    BY <1>1 DEF Mutation
  <2>2. Unheard
    BY <2>1, FreeTurnUnheard
  <2> QED
    BY <2>2 DEF Unheard, IInv, HandlersOK, Types, HandlerTypes
<1>7. \A m \in making : m.request # r /\ m.loaded.record[r] = NoRecord
  BY <1>1, <1>6 DEF MakingOK, IInv, LoadedOK, RecordOK
<1>9. HandlersOK'
  <2>1. ASSUME NEW m \in making
        PROVE  MakingOK(m)'
    <3>1. MakingOK(m) /\ m.request \in Requests /\ client'[m.request] = "left" /\ m.request # r
      BY <1>4, <1>6, <1>7
    <3>2. ~NobodyLeft'
      BY <3>1 DEF NobodyLeft
    <3>3. \A n \in making' :
             n.loaded.record[m.request] = NoRecord /\ (n.request = m.request => n = m)
      BY <1>1, <1>2, <1>0, <3>1 DEF MakingOK
    <3> QED
      BY <1>1, <3>1, <3>2, <3>3 DEF MakingOK
  <2>2. MakingOK(new)'
    <3>1. \A n \in making' : n.loaded.record[r] = NoRecord /\ (n.request = r => n = new)
      BY <1>1, <1>2, <1>5, <1>7, <1>0
    <3>2. Loaded' = Loaded
      BY <1>1 DEF Loaded
    <3> QED
      BY <1>1, <1>4, <1>5, <1>0, <3>1, <3>2 DEF MakingOK
  <2>3. \A m \in making' : MakingOK(m)'
    BY <1>1, <2>1, <2>2
  <2> QED
    BY <2>3 DEF HandlersOK
<1>10. KeysOK'
  <2>1. ASSUME NEW q \in Requests
        PROVE  KeyOK(q)' /\ RecordOK(q, record[q])'
    BY <1>1, <1>4, <1>5 DEF IInv, KeysOK, KeyOK, RecordOK, NoRecord
  <2> QED
    BY <2>1 DEF KeysOK
<1>11. LoadedOK'
  <2>1. ASSUME NEW m \in making', NEW q \in Requests
        PROVE  RecordOK(q, m.loaded.record[q])'
    <3>1. RecordOK(q, m.loaded.record[q])
      BY <1>1, <1>2, <1>0 DEF IInv, LoadedOK, KeysOK
    <3>2. client'[q] = "none" => client[q] = "none"
      BY <1>4
    <3> QED
      BY <1>1, <3>1, <3>2 DEF RecordOK
  <2> QED
    BY <2>1 DEF LoadedOK
<1>12. TurnOK'
  BY <1>1 DEF TurnOK
<1>13. GateOK'
  BY <1>1, OpenGateOK DEF IInv, Mutation
<1>14. TrustOK'
  <2>1. turn[1] = "none"
    BY <1>1, Turns DEF IInv, Mutation
  <2>2. TrustsOK => TrustsOK'
    BY <1>1, <2>1 DEF TrustsOK
  <2> QED
    BY <1>4, <2>2 DEF IInv, TrustOK
<1> QED
  BY <1>3, <1>9, <1>10, <1>11, <1>12, <1>13, <1>14 DEF IInv

\* From now on the handler goes on without the turn.
LEMMA LeaveKeeps ==
  ASSUME IInv, NEW r \in Requests, ClientLeaves(r)
  PROVE  IInv'
<1>1. /\ turn = <<"csr", r>> /\ turn' = NoTurn /\ client' = [client EXCEPT ![r] = "left"]
      /\ UNCHANGED <<device, record, cert, trustedCas, bundle, memory, making, gate, sent,
                     restarts>>
  BY DEF ClientLeaves, registry
<1>2. /\ client'[r] = "left" /\ \A q \in Requests : q # r => client'[q] = client[q]
      /\ ~NobodyLeft'
  BY <1>1 DEF IInv, Types, HandlerTypes, NobodyLeft
<1>3. Types'
  BY <1>1 DEF IInv, Types, RegistryTypes, HandlerTypes
<1>4. HandlersOK'
  <2> SUFFICES ASSUME NEW m \in making PROVE MakingOK(m)'
    BY <1>1 DEF HandlersOK
  <2>1. MakingOK(m) /\ m.request \in Requests
    BY DEF IInv, HandlersOK, Types, HandlerTypes
  <2>2. m.request # r => client[m.request] # "there"
    BY <1>1, <2>1 DEF MakingOK
  <2>3. client'[m.request] # "there" /\ client'[m.request] # "none"
    BY <1>2, <2>1, <2>2 DEF MakingOK
  <2> QED
    BY <1>1, <1>2, <2>1, <2>3 DEF MakingOK
<1>5. KeysOK'
  <2>1. ASSUME NEW q \in Requests
        PROVE  KeyOK(q)' /\ RecordOK(q, record[q])'
    BY <1>1, <1>2 DEF IInv, KeysOK, KeyOK, RecordOK
  <2> QED
    BY <2>1 DEF KeysOK
<1>6. LoadedOK'
  <2>1. ASSUME NEW m \in making, NEW q \in Requests
        PROVE  RecordOK(q, m.loaded.record[q])'
    BY <1>1, <1>2 DEF IInv, LoadedOK, RecordOK
  <2> QED
    BY <1>1, <2>1 DEF LoadedOK
<1>7. GateOK'
  <2>1. \A m \in making : m.request \in Requests
    BY DEF IInv, Types, HandlerTypes
  <2> QED
    BY <1>1, <1>2, <2>1 DEF IInv, GateOK, ReadyHolds
<1>8. TurnOK' /\ TrustOK'
  BY <1>1, <1>2 DEF TurnOK, TrustOK
<1> QED
  BY <1>3, <1>4, <1>5, <1>6, <1>7, <1>8 DEF IInv

\* What the handler of m saves.
Saved(m) ==
    /\ memory' = [memory EXCEPT ![m.request] = "held"]
    /\ Save(m.loaded, m.request, m.device)

LEMMA SavedIs ==
  ASSUME IInv, NEW m \in making, Saved(m)
  PROVE  /\ RegistryTypes'
         /\ m.request \in Requests /\ memory'[m.request] = "held"
         /\ \A q \in Requests : q # m.request => memory'[q] = memory[q]
         /\ record'[m.request] = [status |-> "pending", device |-> m.device]
         /\ \A q \in Requests : q # m.request => record'[q] = m.loaded.record[q]
         /\ cert' = m.loaded.cert /\ trustedCas' = m.loaded.trustedCas
<1>1. m.request \in Requests /\ m.device \in Devices /\ m.loaded \in Documents
  BY DEF IInv, Types, HandlerTypes
<1>2. /\ m.loaded.device \in DeviceStates /\ m.loaded.record \in [Requests -> Records]
      /\ m.loaded.cert \in [Certs -> Imported] /\ m.loaded.trustedCas \in SUBSET Cas
  BY <1>1 DEF Documents
<1>3. [status |-> "pending", device |-> m.device] \in Records
  BY <1>1 DEF Records, Statuses
<1>4. RegistryTypes'
  BY <1>1, <1>2, <1>3 DEF Saved, Save, RegistryTypes, DeviceStates
<1>5. memory \in [Requests -> {"none", "held", "expired", "delivered"}]
  BY DEF IInv, Types
<1> QED
  BY <1>1, <1>2, <1>4, <1>5 DEF Saved, Save

\* A save leaves the other handlers what they rely on.
LEMMA OthersMaking ==
  ASSUME IInv, NEW m \in making, Saved(m), making' = making \ {m}, UNCHANGED <<client, sent>>,
         NEW n \in making \ {m},
         turn' = (IF turn = <<"csr", m.request>> THEN NoTurn ELSE turn)
  PROVE  MakingOK(n)'
<1>1. MakingOK(m) /\ MakingOK(n) /\ n.request \in Requests /\ m.request \in Requests
  BY DEF IInv, HandlersOK, Types, HandlerTypes
<1>2. n.request # m.request /\ m.loaded.record[n.request] = NoRecord
  BY <1>1 DEF MakingOK
<1>3. memory'[n.request] = "none" /\ record'[n.request] = NoRecord
  BY <1>1, <1>2, SavedIs DEF MakingOK
<1>4. client'[n.request] = "there" => turn' = <<"csr", n.request>>
  BY <1>1, <1>2 DEF MakingOK
<1>5. ~NobodyLeft'
  <2>1. CASE client[n.request] = "there"
    <3>1. turn # <<"csr", m.request>>
      BY <1>1, <1>2, <2>1 DEF MakingOK
    <3>2. client[m.request] = "left"
      BY <1>1, <3>1 DEF MakingOK, IInv, Types, HandlerTypes
    <3> QED
      BY <1>1, <3>2 DEF NobodyLeft
  <2>2. CASE client[n.request] # "there"
    <3>1. client[n.request] = "left"
      BY <1>1, <2>2 DEF MakingOK, IInv, Types, HandlerTypes
    <3> QED
      BY <1>1, <3>1 DEF NobodyLeft
  <2> QED
    BY <2>1, <2>2
<1> QED
  BY <1>1, <1>3, <1>4, <1>5 DEF MakingOK

LEMMA GenerateKeeps ==
  ASSUME IInv, NEW m \in making, GenerateExternalCsr(m)
  PROVE  IInv'
<1>1. /\ making' = making \ {m} /\ UNCHANGED <<bundle, client, gate, sent, restarts>>
      /\ turn' = (IF turn = <<"csr", m.request>> THEN NoTurn ELSE turn)
      /\ Saved(m) \/ UNCHANGED <<memory, device, record, cert, trustedCas>>
  BY DEF GenerateExternalCsr, Saved, registry
<1>2. MakingOK(m) /\ m.request \in Requests
  BY DEF IInv, HandlersOK, Types, HandlerTypes
<1>3. /\ turn' \in {NoTurn, turn} /\ (NobodyLeft' <=> NobodyLeft)
      /\ turn' # turn => turn[1] = "csr"
  BY <1>1, NobodyStays DEF NoTurn
<1>4. HandlerTypes'
  BY <1>1 DEF IInv, Types, HandlerTypes
<1>6. CASE UNCHANGED <<memory, device, record, cert, trustedCas>>
  <2>1. Types' /\ KeysOK'
    BY <1>1, <1>4, <1>6, SameKeys DEF IInv, Types, RegistryTypes
  <2>2. HandlersOK'
    <3> SUFFICES ASSUME NEW n \in making \ {m} PROVE MakingOK(n)'
      BY <1>1 DEF HandlersOK
    <3>1. MakingOK(n) /\ n.request # m.request
      BY <1>2 DEF IInv, HandlersOK, MakingOK
    <3>2. client'[n.request] = "there" => turn' = <<"csr", n.request>>
      BY <1>1, <3>1 DEF MakingOK
    <3>3. Loaded' = Loaded
      BY <1>6 DEF Loaded
    <3> QED
      BY <1>1, <1>3, <1>6, <3>1, <3>2, <3>3 DEF MakingOK
  <2>3. LoadedOK'
    BY <1>1, <1>6 DEF IInv, LoadedOK, RecordOK
  <2>4. GateOK'
    BY <1>1, <1>6 DEF IInv, GateOK, ReadyHolds
  <2>5. TurnOK'
    BY <1>1, <1>3, <1>6 DEF IInv, TurnOK
  <2>6. TrustOK'
    <3>1. turn[1] \in {"trust", "distrust"} => turn' = turn
      BY <1>3
    <3>2. TrustsOK => TrustsOK'
      BY <1>1, <1>6, <3>1 DEF TrustsOK
    <3> QED
      BY <1>1, <3>2, TrustStays DEF IInv
  <2> QED
    BY <2>1, <2>2, <2>3, <2>4, <2>5, <2>6 DEF IInv
<1>7. CASE Saved(m)
  <2>1. /\ RegistryTypes' /\ memory'[m.request] = "held"
        /\ \A q \in Requests : q # m.request => memory'[q] = memory[q]
        /\ record'[m.request] = [status |-> "pending", device |-> m.device]
        /\ \A q \in Requests : q # m.request => record'[q] = m.loaded.record[q]
        /\ cert' = m.loaded.cert /\ trustedCas' = m.loaded.trustedCas
    BY <1>7, SavedIs
  <2>2. memory' \in [Requests -> {"none", "held", "expired", "delivered"}]
    BY <1>7 DEF Saved, IInv, Types
  <2>3. Types'
    BY <1>1, <1>4, <2>1, <2>2 DEF IInv, Types
  <2>4. HandlersOK'
    <3>1. \A n \in making \ {m} : MakingOK(n)'
      BY <1>1, <1>7, OthersMaking
    <3> QED
      BY <1>1, <3>1 DEF HandlersOK
  <2>5. record'[m.request].status = "pending" /\ record'[m.request] # NoRecord
    BY <2>1 DEF NoRecord
  <2>6. NobodyLeft => m.loaded.record = record /\ m.loaded.cert = cert
                      /\ m.loaded.trustedCas = trustedCas
    BY <1>2 DEF MakingOK, Loaded
  <2>7. KeysOK'
    <3>1. KeyOK(m.request)' /\ RecordOK(m.request, record[m.request])'
      BY <1>1, <1>2, <2>1, <2>5 DEF KeyOK, RecordOK, MakingOK
    <3>2. ASSUME NEW q \in Requests, q # m.request
          PROVE  KeyOK(q)' /\ RecordOK(q, record[q])'
      <4>1. /\ KeyOK(q) /\ RecordOK(q, m.loaded.record[q])
            /\ memory'[q] = memory[q] /\ record'[q] = m.loaded.record[q]
        BY <2>1, <3>2 DEF IInv, KeysOK, LoadedOK
      <4>2. RecordOK(q, record[q])'
        BY <1>1, <4>1 DEF RecordOK
      <4>3. KeyOK(q)'
        BY <1>1, <1>3, <2>6, <4>1 DEF KeyOK
      <4> QED
        BY <4>2, <4>3
    <3> QED
      BY <3>1, <3>2 DEF KeysOK
  <2>8. LoadedOK'
    <3> SUFFICES ASSUME NEW n \in making \ {m}, NEW q \in Requests
                 PROVE  RecordOK(q, n.loaded.record[q])'
      BY <1>1 DEF LoadedOK
    <3>1. RecordOK(q, n.loaded.record[q])
      BY DEF IInv, LoadedOK
    <3>2. CASE q = m.request
      <4>1. n.loaded.record[q] = NoRecord
        BY <1>2, <3>2 DEF MakingOK
      <4> QED
        BY <1>1, <1>2, <3>2, <4>1 DEF RecordOK, NoRecord, MakingOK
    <3>3. CASE q # m.request
      BY <1>1, <2>1, <3>1, <3>3 DEF RecordOK
    <3> QED
      BY <3>2, <3>3
  <2>9. GateOK'
    <3>1. gate.ready => client[m.request] = "left"
      BY DEF IInv, GateOK, ReadyHolds
    <3> QED
      BY <1>1, <2>1, <3>1 DEF IInv, GateOK, ReadyHolds
  <2>10. TurnOK'
    <3>1. CASE turn' = NoTurn
      BY <3>1 DEF TurnOK
    <3>2. CASE turn' = turn
      <4>1. \A a \in Cas : a \in trustedCas \/ ~NobodyLeft => a \in trustedCas' \/ ~NobodyLeft'
        BY <1>3, <2>1, <2>6
      <4> QED
        BY <3>2, <4>1 DEF IInv, TurnOK
    <3> QED
      BY <1>3, <3>1, <3>2
  <2>11. TrustOK'
    <3> SUFFICES ASSUME NobodyLeft PROVE TrustsOK'
      BY NobodyStays, <1>1 DEF TrustOK
    <3>1. cert' = cert /\ trustedCas' = trustedCas
      BY <2>1, <2>6
    <3>2. turn[1] \in {"trust", "distrust"} => turn' = turn
      BY <1>3
    <3> QED
      BY <1>1, <3>1, <3>2 DEF IInv, TrustOK, TrustsOK
  <2> QED
    BY <2>3, <2>4, <2>7, <2>8, <2>9, <2>10, <2>11 DEF IInv
<1> QED
  BY <1>1, <1>6, <1>7

LEMMA TakeKeeps ==
  ASSUME IInv, NEW r \in Requests, TakePendingPrivateKey(r)
  PROVE  IInv'
<1>1. /\ turn = NoTurn /\ memory[r] = "held" /\ Pending(r)
      /\ UNCHANGED <<making, turn, client>>
      /\ memory' = [memory EXCEPT ![r] = "delivered"] /\ sent' = [sent EXCEPT ![r] = @ + 1]
      /\ UNCHANGED <<registry, bundle, handlers, gate, restarts>>
  BY DEF TakePendingPrivateKey, Read, handlers
<1>2. Types'
  BY <1>1 DEF IInv, Types, RegistryTypes, HandlerTypes, registry
<1>3. TurnOK'
  BY <1>1, FreeTurn
<1>4. GateOK'
  BY <1>1 DEF IInv, GateOK, ReadyHolds
<1>5. TrustOK'
  BY <1>1, SameTrust DEF IInv, registry
<1>6. KeysOK'
  <2>1. /\ memory'[r] = "delivered" /\ sent'[r] = sent[r] + 1
        /\ \A q \in Requests : q # r => memory'[q] = memory[q] /\ sent'[q] = sent[q]
    BY <1>1 DEF IInv, Types
  <2>2. sent[r] = 0 /\ record[r].status = "pending" /\ client[r] # "none"
    BY <1>1 DEF IInv, KeysOK, KeyOK, RecordOK, Pending
  <2>3. KeyOK(r)' /\ RecordOK(r, record[r])'
    BY <1>1, <2>1, <2>2 DEF KeyOK, RecordOK, registry
  <2>4. ASSUME NEW q \in Requests, q # r
        PROVE  KeyOK(q)' /\ RecordOK(q, record[q])'
    BY <1>1, <2>1, <2>4, NobodyStays DEF IInv, KeysOK, KeyOK, RecordOK, registry
  <2> QED
    BY <2>3, <2>4 DEF KeysOK
<1>7. (\A q \in Requests : Forgets(q)) /\ RecordsStay
  BY <1>1 DEF IInv, Types, Forgets, RecordsStay, registry
<1>8. HandlersOK' /\ LoadedOK'
  BY <1>1, <1>7, MakingStays, LoadedStays
<1> QED
  BY <1>2, <1>3, <1>4, <1>5, <1>6, <1>8 DEF IInv

\* Confirming, cancelling, and the import that completes a request: its key is no longer kept.
LEMMA ClosedKeys ==
  ASSUME IInv, NEW r \in Requests, NEW status \in {"received", "cancelled", "completed"},
         Become(r, status), UNCHANGED <<client, sent>>,
         record[r] # NoRecord,
         status # "cancelled" => sent[r] = 1,
         memory' \in {memory, [memory EXCEPT ![r] = "none"]}, memory'[r] = "none"
  PROVE  KeysOK'
<1>1. status \in Statuses
  BY DEF Statuses
<1>2. /\ record'[r].status = status
      /\ \A q \in Requests : q # r => record'[q] = record[q] /\ memory'[q] = memory[q]
  BY <1>1, BecomeIs DEF IInv, Types
<1>3. client[r] # "none"
  BY DEF IInv, KeysOK, RecordOK
<1>4. KeyOK(r)' /\ RecordOK(r, record[r])'
  BY <1>2, <1>3 DEF IInv, KeysOK, KeyOK, RecordOK
<1>5. ASSUME NEW q \in Requests, q # r
      PROVE  KeyOK(q)' /\ RecordOK(q, record[q])'
  BY <1>2, <1>5, NobodyStays DEF IInv, KeysOK, KeyOK, RecordOK
<1> QED
  BY <1>4, <1>5 DEF KeysOK

LEMMA CloseKeeps ==
  ASSUME IInv, NEW r \in Requests, ConfirmPendingPrivateKey(r) \/ CancelPending(r)
  PROVE  IInv'
<1>1. /\ Mutation /\ record[r].status # "none" /\ UNCHANGED client
      /\ memory' = [memory EXCEPT ![r] = "none"]
      /\ UNCHANGED <<device, cert, trustedCas, bundle, handlers, gate, sent, restarts>>
      /\ \/ Become(r, "received") /\ memory[r] = "delivered"
         \/ Become(r, "cancelled")
  BY DEF ConfirmPendingPrivateKey, CancelPending, Pending, handlers
<1>2. record' \in [Requests -> Records] /\ RecordsStay
  BY <1>1, BecomeIs, BecomeStays DEF IInv, Statuses
<1>3. Types'
  BY <1>1, <1>2 DEF IInv, Types, RegistryTypes, HandlerTypes, handlers
<1>4. KeysOK'
  <2>1. memory'[r] = "none"
    BY <1>1 DEF IInv, Types
  <2>2. memory[r] = "delivered" => sent[r] = 1
    BY DEF IInv, KeysOK, KeyOK
  <2> QED
    <3>1. record[r] # NoRecord
      BY <1>1 DEF NoRecord
    <3>2. memory' \in {memory, [memory EXCEPT ![r] = "none"]} /\ UNCHANGED <<client, sent>>
      BY <1>1
    <3>3. CASE Become(r, "received") /\ memory[r] = "delivered"
      BY <2>1, <2>2, <3>1, <3>2, <3>3, ClosedKeys
    <3>4. CASE Become(r, "cancelled")
      BY <2>1, <3>1, <3>2, <3>4, ClosedKeys
    <3> QED
      BY <1>1, <3>3, <3>4
<1>5. TrustOK'
  BY <1>1, SameTrust DEF IInv, handlers
<1>6. \A q \in Requests : Forgets(q)
  BY <1>1 DEF IInv, Types, Forgets
<1> QED
  BY <1>1, <1>2, <1>3, <1>4, <1>5, <1>6, ChangeKeeps

\* The only way for a key to change place without being forgotten.
Expired(r) == memory[r] = "held" /\ memory'[r] = "expired"

LEMMA ForgetKeeps ==
  ASSUME IInv, PendingKeyCleanup \/ Healthz \/ \E r \in Requests : Expire(r)
  PROVE  IInv'
<1>1. UNCHANGED <<registry, bundle, making, turn, client, sent, restarts>>
  BY DEF PendingKeyCleanup, Healthz, Expire, handlers
<1>2. /\ memory' \in [Requests -> {"none", "held", "expired", "delivered"}]
      /\ \A q \in Requests : memory'[q] \in {memory[q], "none"} \/ Expired(q)
  <2>1. \A q \in Requests : memory[q] \in {"none", "held", "expired", "delivered"}
    BY DEF IInv, Types
  <2>2. CASE memory' = Pruned
    <3>1. \A q \in Requests : Pruned[q] \in {memory[q], "none"}
      BY DEF Pruned
    <3>2. Pruned \in [Requests -> {"none", "held", "expired", "delivered"}]
      BY <2>1 DEF Pruned
    <3> QED
      BY <2>2, <3>1, <3>2
  <2>3. ASSUME NEW r \in Requests, Expire(r)
        PROVE  /\ memory' \in [Requests -> {"none", "held", "expired", "delivered"}]
               /\ \A q \in Requests : memory'[q] \in {memory[q], "none"} \/ Expired(q)
    <3>1. memory' = [memory EXCEPT ![r] = "expired"] /\ memory[r] = "held"
      BY <2>3 DEF Expire
    <3>2. memory' \in [Requests -> {"none", "held", "expired", "delivered"}]
      BY <3>1 DEF IInv, Types
    <3>3. \A q \in Requests : q # r => memory'[q] = memory[q]
      BY <3>1 DEF IInv, Types
    <3>4. Expired(r)
      BY <3>1 DEF IInv, Types, Expired
    <3> QED
      BY <3>2, <3>3, <3>4
  <2> QED
    BY <2>2, <2>3 DEF PendingKeyCleanup, Healthz
<1>3. gate' \in [closed : BOOLEAN, ready : BOOLEAN] /\ gate'.closed = gate.closed
  BY DEF PendingKeyCleanup, Healthz, Expire, IInv, Types
<1>4. Types'
  BY <1>1, <1>2, <1>3 DEF IInv, Types, RegistryTypes, HandlerTypes, registry
<1>5. TurnOK'
  BY <1>1, NobodyStays DEF IInv, TurnOK, registry
<1>6. KeysOK' /\ HandlersOK' /\ LoadedOK'
  <2>1. ASSUME NEW q \in Requests
        PROVE  KeyOK(q)' /\ RecordOK(q, record[q])'
    BY <1>1, <1>2, NobodyStays DEF IInv, KeysOK, KeyOK, RecordOK, registry, Expired
  <2>2. (\A q \in Requests : Forgets(q)) /\ RecordsStay
    BY <1>1, <1>2 DEF Forgets, RecordsStay, registry, Expired
  <2>3. HandlersOK' /\ LoadedOK'
    BY <1>1, <2>2, MakingStays, LoadedStays
  <2> QED
    BY <2>1, <2>3 DEF KeysOK
<1>7. GateOK'
  <2>1. CASE UNCHANGED gate
    BY <1>1, <1>2, <2>1 DEF IInv, GateOK, ReadyHolds, Expired
  <2>2. CASE Healthz
    <3>1. /\ turn = NoTurn /\ gate.closed /\ memory' = Pruned
          /\ gate'.ready = \A r \in Requests : Pruned[r] = "none"
      BY <2>2 DEF Healthz, Read, IInv, Types
    <3>2. \A m \in making' : client'[m.request] = "left"
      BY <1>1, <3>1, FreeTurnUnheard DEF Unheard
    <3>3. gate'.ready => \A r \in Requests : memory'[r] = "none"
      BY <3>1
    <3> QED
      BY <1>3, <3>1, <3>2, <3>3 DEF GateOK, ReadyHolds
  <2> QED
    BY <2>1, <2>2 DEF PendingKeyCleanup, Expire
<1>8. TrustOK'
  BY <1>1, SameTrust DEF IInv, registry
<1> QED
  BY <1>4, <1>5, <1>6, <1>7, <1>8 DEF IInv

-----------------------------------------------------------------------------
(* Changes to the registry alone. *)

LEMMA RemoveLicenseKeeps ==
  ASSUME IInv, NEW r \in Requests, RemoveLicense(r)
  PROVE  IInv'
<1>1. /\ Mutation /\ record[r].status \in {"pending", "received", "completed"}
      /\ Become(r, "revoked")
      /\ UNCHANGED <<device, cert, trustedCas, bundle, memory, handlers, gate, sent, restarts>>
  BY DEF RemoveLicense
<1>2. /\ RecordsStay /\ UNCHANGED <<making, turn, client>>
      /\ record' \in [Requests -> Records] /\ record'[r].status = "revoked"
      /\ \A q \in Requests : q # r => record'[q] = record[q]
  BY <1>1, BecomeIs, BecomeStays DEF IInv, Statuses, handlers
<1>3. Types'
  BY <1>1, <1>2 DEF IInv, Types, RegistryTypes, HandlerTypes
<1>4. KeysOK'
  <2>1. client[r] # "none"
    BY <1>1 DEF IInv, KeysOK, RecordOK, NoRecord
  <2>2. KeyOK(r)' /\ RecordOK(r, record[r])'
    BY <1>1, <1>2, <2>1 DEF IInv, KeysOK, KeyOK, RecordOK
  <2>3. ASSUME NEW q \in Requests, q # r
        PROVE  KeyOK(q)' /\ RecordOK(q, record[q])'
    BY <1>1, <1>2, <2>3, NobodyStays DEF IInv, KeysOK, KeyOK, RecordOK
  <2> QED
    BY <2>2, <2>3 DEF KeysOK
<1>5. TrustOK'
  BY <1>1, <1>2, SameTrust DEF IInv
<1> QED
  BY <1>1, <1>2, <1>3, <1>4, <1>5, SameMemory, ChangeKeeps

LEMMA ImportKeeps ==
  ASSUME IInv, NEW f \in Certs, NEW r \in {0} \cup Requests, Import(f, r),
         Subject[f] \in Devices
  PROVE  IInv'
<1>1. /\ Mutation /\ cert' = [cert EXCEPT ![f] = ImportedCert(f)]
      /\ device' = Ensured(Subject[f])
      /\ UNCHANGED <<trustedCas, bundle, memory, handlers, gate, sent, restarts>>
  BY DEF Import
<1>2. ImportedCert(f) \in Imported /\ UNCHANGED <<making, turn, client>>
  BY <1>1 DEF ImportedCert, Imported, handlers
<1>3. record' \in [Requests -> Records] /\ KeysOK' /\ RecordsStay
  <2>1. CASE UNCHANGED record
    BY <1>1, <1>2, <2>1, SameKeys DEF IInv, Types, RegistryTypes, RecordsStay
  <2>2. CASE r # 0
    <3>1. /\ r \in Requests /\ record[r].status = "received" /\ Become(r, "completed")
      BY <2>2 DEF Import
    <3>2. record' \in [Requests -> Records] /\ RecordsStay
      BY <3>1, BecomeIs, BecomeStays DEF IInv, Statuses
    <3>3. memory[r] = "none" /\ sent[r] = 1 /\ record[r] # NoRecord
      BY <3>1 DEF IInv, KeysOK, RecordOK, Types, NoRecord
    <3> QED
      BY <1>1, <1>2, <3>1, <3>2, <3>3, ClosedKeys
  <2> QED
    BY <2>1, <2>2 DEF Import
<1>4. Types'
  BY <1>1, <1>2, <1>3 DEF IInv, Types, RegistryTypes, HandlerTypes, DeviceStates, Ensured
<1>5. ASSUME TrustsOK PROVE TrustsOK'
  <2>1. /\ cert'[f] = ImportedCert(f)
        /\ \A g \in Certs : g # f => cert'[g] = cert[g]
    BY <1>1 DEF IInv, Types, RegistryTypes
  <2>2. ASSUME NEW g \in Certs, cert'[g].trusted
        PROVE  Issuer[g] \in trustedCas /\ cert'[g].status \in {"active", "revoked"}
    <3>1. CASE g = f
      <4>1. /\ ImportedCert(f).trusted = (Issuer[f] \in trustedCas)
            /\ ImportedCert(f).status = "active"
        BY DEF ImportedCert
      <4> QED
        BY <2>1, <2>2, <3>1, <4>1, Zenon
    <3>2. CASE g # f
      BY <1>5, <2>1, <2>2, <3>2 DEF TrustsOK
    <3> QED
      BY <3>1, <3>2
  <2> QED
    BY <1>1, <1>2, <1>5, <2>2 DEF TrustsOK
<1>6. TrustOK'
  BY <1>2, <1>5, TrustStays DEF IInv
<1> QED
  BY <1>1, <1>3, <1>4, <1>6, SameMemory, ChangeKeeps

\* What revoking, archiving and changing the trust do to the imported certificates.
Narrowed ==
    /\ cert' \in [Certs -> Imported]
    /\ \A f \in Certs :
          cert'[f].trusted =>
              cert[f].trusted /\ (cert'[f].status = cert[f].status \/ cert'[f].status = "revoked")

LEMMA NarrowedKeeps ==
  ASSUME IInv, Mutation, Narrowed,
         device' \in DeviceStates,
         UNCHANGED <<record, trustedCas, bundle, memory, handlers, gate, sent, restarts>>
  PROVE  IInv'
<1>1. Types'
  BY DEF IInv, Types, RegistryTypes, HandlerTypes, Narrowed, handlers
<1>2. KeysOK'
  BY SameKeys DEF IInv, handlers
<1>3. TrustOK'
  <2>1. TrustsOK => TrustsOK'
    BY DEF TrustsOK, Narrowed, handlers
  <2> QED
    BY <2>1, TrustStays DEF IInv, handlers
<1> QED
  BY <1>1, <1>2, <1>3, SameMemory, SameRecords, ChangeKeeps

LEMMA IdentityKeeps ==
  ASSUME IInv,
         \/ \E f \in Certs : RevokeImported(f)
         \/ \E x \in Devices : Register(x) \/ Archive(x) \/ Restore(x)
  PROVE  IInv'
<1>1. ASSUME NEW f \in Certs, RevokeImported(f)
      PROVE  IInv'
  <2>1. /\ Mutation /\ cert' = [cert EXCEPT ![f].status = "revoked"]
        /\ UNCHANGED <<device, record, trustedCas, bundle, memory, handlers, gate, sent, restarts>>
    BY <1>1 DEF RevokeImported
  <2>2. Narrowed
    BY <2>1 DEF Narrowed, IInv, Types, RegistryTypes, Imported
  <2> QED
    BY <2>1, <2>2, NarrowedKeeps DEF IInv, Types, RegistryTypes
<1>2. ASSUME NEW x \in Devices, Register(x) \/ Restore(x)
      PROVE  IInv'
  <2>1. /\ Mutation /\ device' = Ensured(x) /\ UNCHANGED cert
        /\ UNCHANGED <<record, trustedCas, bundle, memory, handlers, gate, sent, restarts>>
    BY <1>2 DEF Register, Restore
  <2>2. Narrowed
    BY <2>1 DEF Narrowed, IInv, Types, RegistryTypes, Imported
  <2>3. device' \in DeviceStates
    BY <2>1 DEF Ensured, IInv, Types, RegistryTypes, DeviceStates
  <2> QED
    BY <2>1, <2>2, <2>3, NarrowedKeeps
<1>3. ASSUME NEW x \in Devices, Archive(x)
      PROVE  IInv'
  <2>1. /\ Mutation /\ device' = [device EXCEPT ![x] = "archived"]
        /\ cert' = [f \in Certs |-> IF Subject[f] = x /\ cert[f].status = "active"
                                    THEN [cert[f] EXCEPT !.status = "revoked"] ELSE cert[f]]
        /\ UNCHANGED <<record, trustedCas, bundle, memory, handlers, gate, sent, restarts>>
    BY <1>3 DEF Archive
  <2>2. Narrowed
    BY <2>1 DEF Narrowed, IInv, Types, RegistryTypes, Imported
  <2>3. device' \in DeviceStates
    BY <2>1 DEF IInv, Types, RegistryTypes, DeviceStates
  <2> QED
    BY <2>1, <2>2, <2>3, NarrowedKeeps
<1> QED
  BY <1>1, <1>2, <1>3

LEMMA DeleteKeeps ==
  ASSUME IInv, NEW x \in Devices, PermanentlyDelete(x)
  PROVE  IInv'
<1>1. /\ Mutation /\ device' = [device EXCEPT ![x] = "deleted"]
      /\ record' = [r \in Requests |-> IF record[r].device = x
                                       THEN [record[r] EXCEPT !.status = "deleted"] ELSE record[r]]
      /\ cert' = [f \in Certs |-> IF Subject[f] = x /\ cert[f].status # "none"
                                  THEN [status |-> "deleted", trusted |-> FALSE] ELSE cert[f]]
      /\ UNCHANGED <<trustedCas, bundle, memory, handlers, gate, sent, restarts>>
  BY DEF PermanentlyDelete
<1>2. \A r \in Requests :
         \/ record'[r] = record[r]
         \/ record'[r] = [record[r] EXCEPT !.status = "deleted"]
  BY <1>1
<1>3. \A r \in Requests :
         \/ record'[r] = record[r]
         \/ record'[r] \in Records /\ record'[r].status = "deleted"
  <2> SUFFICES ASSUME NEW r \in Requests, record'[r] # record[r]
               PROVE  record'[r] \in Records /\ record'[r].status = "deleted"
    OBVIOUS
  <2>1. record[r] \in Records /\ record'[r] = [record[r] EXCEPT !.status = "deleted"]
    BY <1>2 DEF IInv, Types, RegistryTypes
  <2> QED
    BY <2>1 DEF Records, Statuses
<1>4. Types' /\ RecordsStay /\ UNCHANGED <<making, turn, client>>
  <2>1. record' \in [Requests -> Records]
    BY <1>1, <1>3 DEF IInv, Types, RegistryTypes
  <2>2. \A r \in Requests : record[r] = NoRecord => record'[r] = record[r]
    BY <1>1, ZeroIsNone DEF NoRecord
  <2>3. device' \in DeviceStates /\ cert' \in [Certs -> Imported]
    BY <1>1 DEF IInv, Types, RegistryTypes, DeviceStates, Imported
  <2>4. RegistryTypes'
    BY <1>1, <2>1, <2>3 DEF IInv, Types, RegistryTypes
  <2> QED
    BY <1>1, <2>2, <2>4 DEF IInv, Types, HandlerTypes, RecordsStay, handlers
<1>5. KeysOK'
  <2>1. ASSUME NEW r \in Requests
        PROVE  KeyOK(r)' /\ RecordOK(r, record[r])'
    <3>1. CASE record'[r] = record[r]
      BY <1>1, <1>4, <3>1, NobodyStays DEF IInv, KeysOK, KeyOK, RecordOK
    <3>2. CASE record'[r].status = "deleted"
      <4>1. record'[r] # NoRecord
        BY <3>2 DEF NoRecord
      <4>2. client[r] # "none"
        BY <1>4, <4>1 DEF IInv, KeysOK, RecordOK, RecordsStay
      <4> QED
        BY <1>1, <1>4, <3>2, <4>2 DEF IInv, KeysOK, KeyOK, RecordOK
    <3> QED
      BY <1>3, <3>1, <3>2
  <2> QED
    BY <2>1 DEF KeysOK
<1>6. TrustsOK => TrustsOK'
  BY <1>1, <1>4 DEF TrustsOK
<1>7. TrustOK'
  BY <1>4, <1>6, TrustStays DEF IInv
<1> QED
  BY <1>1, <1>4, <1>5, <1>7, SameMemory, ChangeKeeps

-----------------------------------------------------------------------------
(* Trusted CAs, the CA bundle, the gate and restarts. *)

Counts(f, a) == Issuer[f] = a /\ cert[f].status \in {"active", "revoked"}

LEMMA Distrusted ==
  ASSUME Types, NEW a
  PROVE  /\ Trusting(FALSE, a) \in [Certs -> Imported]
         /\ \A f \in Certs :
               IF Counts(f, a) THEN ~Trusting(FALSE, a)[f].trusted
                               ELSE Trusting(FALSE, a)[f] = cert[f]
<1>1. \A f \in Certs : cert[f] \in Imported
  BY DEF Types, RegistryTypes
<1>2. ASSUME NEW f \in Certs
      PROVE  /\ [cert[f] EXCEPT !.trusted = FALSE] \in Imported
             /\ ~[cert[f] EXCEPT !.trusted = FALSE].trusted
  BY <1>1, <1>2 DEF Imported
<1> QED
  BY <1>1, <1>2 DEF Trusting, Counts

LEMMA Trusted ==
  ASSUME Types, NEW a
  PROVE  /\ Trusting(TRUE, a) \in [Certs -> Imported]
         /\ \A f \in Certs :
               IF Counts(f, a) THEN Trusting(TRUE, a)[f].status = cert[f].status
                               ELSE Trusting(TRUE, a)[f] = cert[f]
<1>1. \A f \in Certs : cert[f] \in Imported
  BY DEF Types, RegistryTypes
<1>2. ASSUME NEW f \in Certs
      PROVE  /\ [cert[f] EXCEPT !.trusted = TRUE] \in Imported
             /\ [cert[f] EXCEPT !.trusted = TRUE].status = cert[f].status
  BY <1>1, <1>2 DEF Imported
<1> QED
  BY <1>1, <1>2 DEF Trusting, Counts

LEMMA TrustedCaKeeps ==
  ASSUME IInv, NEW a \in Cas, AddTrustedCa(a) \/ RemoveTrustedCa(a)
  PROVE  IInv'
<1>1. Mutation /\ UNCHANGED <<device, record, bundle, memory, making, client, gate, sent, restarts>>
  BY DEF AddTrustedCa, RemoveTrustedCa
<1>2. \/ trustedCas' = trustedCas \cup {a} /\ turn' = <<"trust", a>> /\ UNCHANGED cert
      \/ /\ trustedCas' = trustedCas \ {a} /\ turn' = <<"distrust", a>>
         /\ cert' = Trusting(FALSE, a)
  BY DEF AddTrustedCa, RemoveTrustedCa
<1>3. KeysOK' /\ GateOK'
  BY <1>1, SameKeys, OpenGateOK DEF IInv, Mutation
<1>4. HandlersOK' /\ LoadedOK'
  BY <1>1, FreeTurnUnheard, MakingStays, LoadedStays, SameMemory, SameRecords DEF Mutation
<1>5. CASE trustedCas' = trustedCas \cup {a} /\ turn' = <<"trust", a>> /\ UNCHANGED cert
  <2>1. Types' /\ TurnOK'
    BY <1>1, <1>5 DEF IInv, Types, RegistryTypes, HandlerTypes, TurnOK
  <2>2. TrustsOK => TrustsOK'
    BY <1>5 DEF TrustsOK
  <2>3. TrustOK'
    BY <1>1, <2>2, TrustStays DEF IInv
  <2> QED
    BY <1>3, <1>4, <2>1, <2>3 DEF IInv
<1>6. CASE trustedCas' = trustedCas \ {a} /\ turn' = <<"distrust", a>> /\ cert' = Trusting(FALSE, a)
  <2>1. cert' \in [Certs -> Imported]
    BY <1>6, Distrusted DEF IInv
  <2>2. Types' /\ TurnOK'
    BY <1>1, <1>6, <2>1 DEF IInv, Types, RegistryTypes, HandlerTypes, TurnOK
  <2>3. \A f \in Certs : IF Counts(f, a) THEN ~cert'[f].trusted ELSE cert'[f] = cert[f]
    BY <1>6, Distrusted DEF IInv
  <2>4. TrustsOK => TrustsOK'
    BY <1>6, <2>3 DEF TrustsOK, Counts
  <2>5. TrustOK'
    BY <1>1, <2>4, TrustStays DEF IInv
  <2> QED
    BY <1>3, <1>4, <2>2, <2>5 DEF IInv
<1> QED
  BY <1>2, <1>5, <1>6

LEMMA InitializeCaKeeps ==
  ASSUME IInv, InitializeCa
  PROVE  IInv'
<1>1. /\ turn[1] \in {"trust", "distrust"} /\ bundle' = trustedCas /\ turn' = NoTurn
      /\ UNCHANGED <<device, record, trustedCas, memory, making, client, gate, sent, restarts>>
  BY DEF InitializeCa
<1>2. \/ (turn[2] \in trustedCas \/ ~NobodyLeft) /\ cert' = Trusting(TRUE, turn[2])
      \/ UNCHANGED cert
  BY Turns DEF IInv, InitializeCa
<1>3. cert' \in [Certs -> Imported]
  <2>1. CASE UNCHANGED cert
    BY <2>1 DEF IInv, Types, RegistryTypes
  <2>2. CASE cert' = Trusting(TRUE, turn[2])
    BY <2>2, Trusted DEF IInv
  <2> QED
    BY <1>2, <2>1, <2>2
<1>4. Types' /\ TurnOK'
  BY <1>1, <1>3 DEF IInv, Types, RegistryTypes, HandlerTypes, TurnOK
<1>5. KeysOK' /\ GateOK'
  BY <1>1, SameKeys, SameGate DEF IInv
<1>6. HandlersOK' /\ LoadedOK'
  BY <1>1, OthersTurn, MakingStays, LoadedStays, SameMemory, SameRecords
<1>7. TrustOK'
  <2> SUFFICES ASSUME NobodyLeft PROVE TrustsOK'
    BY <1>1, NobodyStays DEF TrustOK
  <2>1. CASE UNCHANGED cert
    BY <1>1, <2>1 DEF IInv, TrustOK, TrustsOK
  <2>2. CASE turn[2] \in trustedCas /\ cert' = Trusting(TRUE, turn[2])
    <3>1. \A f \in Certs : IF Counts(f, turn[2]) THEN cert'[f].status = cert[f].status
                                                 ELSE cert'[f] = cert[f]
      BY <2>2, Trusted DEF IInv
    <3> QED
      BY <1>1, <2>2, <3>1 DEF IInv, TrustOK, TrustsOK, Counts
  <2> QED
    BY <1>2, <2>1, <2>2
<1> QED
  BY <1>4, <1>5, <1>6, <1>7 DEF IInv

LEMMA RefreshKeeps ==
  ASSUME IInv, RefreshPki
  PROVE  IInv'
<1>1. /\ Mutation /\ bundle' = trustedCas /\ UNCHANGED <<handlers, gate>>
      /\ UNCHANGED <<device, record, cert, trustedCas, memory, making, turn, client, sent, restarts>>
  BY DEF RefreshPki, registry, handlers
<1>2. Types' /\ KeysOK'
  BY <1>1, SameKeys DEF IInv, Types, RegistryTypes, HandlerTypes
<1>3. TrustsOK => TrustsOK'
  BY <1>1 DEF TrustsOK
<1>4. TrustOK'
  BY <1>1, <1>3, TrustStays DEF IInv
<1> QED
  BY <1>1, <1>2, <1>4, SameMemory, SameRecords, ChangeKeeps

LEMMA MarkerKeeps ==
  ASSUME IInv, CloseGate \/ OpenGate
  PROVE  IInv'
<1>1. /\ gate' \in [closed : BOOLEAN, ready : BOOLEAN] /\ ~gate'.ready
      /\ UNCHANGED <<device, record, cert, trustedCas, bundle, memory, making, turn, client, sent,
                     restarts>>
  <2>1. CASE CloseGate
    BY <2>1 DEF CloseGate, registry, handlers
  <2>2. CASE OpenGate
    BY <2>2 DEF OpenGate, registry, handlers
  <2> QED
    BY <2>1, <2>2
<1>2. Types' /\ KeysOK'
  BY <1>1, SameKeys DEF IInv, Types, RegistryTypes, HandlerTypes
<1>3. HandlersOK' /\ LoadedOK'
  BY <1>1, MakingStays, LoadedStays, SameMemory, SameRecords DEF registry
<1>4. TurnOK'
  BY <1>1, NobodyStays DEF IInv, TurnOK
<1>5. GateOK'
  BY <1>1 DEF GateOK, ReadyHolds
<1>6. TrustOK'
  BY <1>1, SameTrust DEF IInv
<1> QED
  BY <1>2, <1>3, <1>4, <1>5, <1>6 DEF IInv

LEMMA RestartKeeps ==
  ASSUME IInv, Restart
  PROVE  IInv'
<1>1. /\ restarts' = restarts + 1 /\ restarts \in Nat /\ making' = {}
      /\ memory' = [r \in Requests |-> "none"] /\ turn' = NoTurn
      /\ UNCHANGED <<device, record, cert, trustedCas, bundle, client, gate, sent>>
  BY DEF Restart, registry, IInv, Types
<1>2. Types'
  BY <1>1 DEF IInv, Types, RegistryTypes, HandlerTypes
<1>3. TurnOK' /\ HandlersOK' /\ LoadedOK'
  BY <1>1 DEF TurnOK, HandlersOK, LoadedOK
<1>4. KeysOK'
  BY <1>1 DEF IInv, KeysOK, KeyOK, RecordOK
<1>5. GateOK'
  BY <1>1 DEF IInv, GateOK, ReadyHolds
<1>6. TrustOK'
  <2>1. TrustsOK => TrustsOK'
    BY <1>1 DEF TrustsOK
  <2> QED
    BY <1>1, <2>1, TrustStays DEF IInv
<1> QED
  BY <1>2, <1>3, <1>4, <1>5, <1>6 DEF IInv

LEMMA StutterKeeps ==
  ASSUME IInv, UNCHANGED provisioningVars
  PROVE  IInv'
<1>1. UNCHANGED <<device, record, cert, trustedCas, bundle, memory, making, turn, client, gate,
                  sent, restarts>>
  BY DEF provisioningVars, registry, handlers
<1>2. Types' /\ KeysOK' /\ GateOK' /\ TrustOK'
  BY <1>1, SameKeys, SameGate, SameTrust DEF IInv, Types, RegistryTypes, HandlerTypes
<1>3. HandlersOK' /\ LoadedOK'
  BY <1>1, MakingStays, LoadedStays, SameMemory, SameRecords DEF registry
<1>4. TurnOK'
  BY <1>1, NobodyStays DEF IInv, TurnOK
<1> QED
  BY <1>2, <1>3, <1>4 DEF IInv

\* An imported certificate names an identity.
SubjectsAreDevices == \A f \in Certs : Subject[f] \in Devices

LEMMA StepIInv ==
  ASSUME SubjectsAreDevices, IInv, [ProvisioningNext]_provisioningVars
  PROVE  IInv'
<1>1. ASSUME NEW r \in Requests,
             \/ TakePendingPrivateKey(r) \/ ConfirmPendingPrivateKey(r) \/ CancelPending(r)
             \/ Expire(r) \/ RemoveLicense(r) \/ \E x \in Devices : ExternalCsr(r, x)
             \/ ClientLeaves(r)
      PROVE  IInv'
  BY <1>1, TakeKeeps, CloseKeeps, ForgetKeeps, RemoveLicenseKeeps, CsrKeeps, LeaveKeeps
<1>2. ASSUME NEW f \in Certs,
             RevokeImported(f) \/ \E r \in {0} \cup Requests : Import(f, r)
      PROVE  IInv'
  BY <1>2, IdentityKeeps, ImportKeeps DEF SubjectsAreDevices
<1>3. ASSUME NEW a \in Cas, AddTrustedCa(a) \/ RemoveTrustedCa(a)
      PROVE  IInv'
  BY <1>3, TrustedCaKeeps
<1>4. ASSUME NEW x \in Devices, Register(x) \/ Archive(x) \/ Restore(x) \/ PermanentlyDelete(x)
      PROVE  IInv'
  BY <1>4, IdentityKeeps, DeleteKeeps
<1>5. ASSUME \/ \E m \in making : GenerateExternalCsr(m)
             \/ PendingKeyCleanup \/ InitializeCa \/ RefreshPki
             \/ CloseGate \/ Healthz \/ OpenGate \/ Restart
      PROVE  IInv'
  BY <1>5, GenerateKeeps, ForgetKeeps, InitializeCaKeeps, RefreshKeeps, MarkerKeeps, RestartKeeps
<1> QED
  BY <1>1, <1>2, <1>3, <1>4, <1>5, StutterKeeps DEF ProvisioningNext

LEMMA IInvAlways == SubjectsAreDevices /\ ProvisioningSpec => []IInv
<1>1. CASE SubjectsAreDevices
  <2>1. ProvisioningInit => IInv
    BY InitIInv
  <2>2. IInv /\ [ProvisioningNext]_provisioningVars => IInv'
    BY <1>1, StepIInv
  <2> QED
    BY <2>1, <2>2, PTL DEF ProvisioningSpec
<1> QED
  BY <1>1

-----------------------------------------------------------------------------
\* Whatever is confirmed, cancelled, retried, expired or restarted, every private key leaves
\* Admin once at most, and a request goes on only with a key that did.
THEOREM KeysAreSentOnce == SubjectsAreDevices /\ ProvisioningSpec => []KeySentOnce
<1>1. IInv => KeySentOnce
  BY DEF IInv, KeysOK, KeyOK, RecordOK, KeySentOnce
<1> QED
  BY <1>1, IInvAlways, PTL

\* Nothing of a request that was cancelled, confirmed or completed stays in memory, and a key
\* is without a record only when a client left.
THEOREM KeysFollow == SubjectsAreDevices /\ ProvisioningSpec => []KeysFollowRecords
<1>1. IInv => KeysFollowRecords
  <2> SUFFICES ASSUME IInv, NEW r \in Requests, memory[r] # "none"
               PROVE  \/ record[r].status \in {"pending", "revoked", "deleted"}
                      \/ record[r].status = "none" /\ ~NobodyLeft
    BY DEF KeysFollowRecords
  <2>1. record[r].status \in Statuses
    BY DEF IInv, Types, RegistryTypes, Records
  <2> QED
    BY <2>1 DEF IInv, KeysOK, KeyOK, RecordOK, Statuses
<1> QED
  BY <1>1, IInvAlways, PTL

\* When /healthz told the updater to go on, stopping Admin loses no key but those whose client
\* left before the answer.
THEOREM AnswerHolds == SubjectsAreDevices /\ ProvisioningSpec => []ReadyHolds
<1>1. IInv => ReadyHolds
  BY DEF IInv, GateOK
<1> QED
  BY <1>1, IInvAlways, PTL

\* As long as no client leaves a request behind, no certificate is called trusted whose issuer is
\* not, and unless Admin died the broker's bundle has the trusted CAs and no others.
THEOREM TrustHolds == SubjectsAreDevices /\ ProvisioningSpec => []TrustIsBacked
<1>1. IInv => TrustIsBacked
  BY DEF IInv, TrustOK, TrustsOK, TrustIsBacked, NoTurn
<1> QED
  BY <1>1, IInvAlways, PTL

-----------------------------------------------------------------------------
(* Identities: what archiving and deleting one takes along.                *)

CertsHeld == \A f \in Certs : cert[f].status = "active" => device[Subject[f]] = "active"
RequestsHeld ==
    \A r \in Requests :
        Pending(r) => /\ record[r].device \in Devices
                      /\ device[record[r].device] \in {"active", "archived"}
IdentitiesOK == CertsHeld /\ RequestsHeld

\* The same of a registry that a handler loaded, which it may save later.
HeldIn(d) ==
    /\ \A f \in Certs : d.cert[f].status = "active" => d.device[Subject[f]] = "active"
    /\ \A r \in Requests :
          d.record[r].status \in {"pending", "received"} =>
              /\ d.record[r].device \in Devices
              /\ d.device[d.record[r].device] \in {"active", "archived"}
LoadedHeld == \A m \in making : HeldIn(m.loaded)

\* No certificate and no request counts that did not before.
FewerCerts == \A f \in Certs : cert'[f].status = "active" => cert[f].status = "active"
FewerRequests ==
    \A r \in Requests : Pending(r)' => Pending(r) /\ record'[r].device = record[r].device
DevicesStay ==
    \A x \in Devices : device[x] \in {"active", "archived"} => device'[x] \in {device[x], "active"}

LEMMA FewerCount ==
  ASSUME SubjectsAreDevices, IdentitiesOK, FewerCerts, FewerRequests, DevicesStay
  PROVE  IdentitiesOK'
<1>1. CertsHeld'
  BY DEF SubjectsAreDevices, IdentitiesOK, CertsHeld, FewerCerts, DevicesStay
<1>2. ASSUME NEW r \in Requests, Pending(r)'
      PROVE  /\ record'[r].device \in Devices
             /\ device'[record'[r].device] \in {"active", "archived"}
  <2>1. record'[r].device = record[r].device /\ Pending(r)
    BY <1>2 DEF FewerRequests
  <2>2. /\ record[r].device \in Devices
        /\ device[record[r].device] \in {"active", "archived"}
    BY <2>1 DEF IdentitiesOK, RequestsHeld
  <2> QED
    BY <2>1, <2>2 DEF DevicesStay
<1>3. RequestsHeld'
  BY <1>2 DEF RequestsHeld
<1> QED
  BY <1>1, <1>3 DEF IdentitiesOK

LEMMA SameRequests ==
  ASSUME UNCHANGED record
  PROVE  FewerRequests
  BY DEF FewerRequests, Pending

\* ensureIdentity leaves every other device alone.
LEMMA EnsuredIs ==
  ASSUME Types, NEW x \in Devices, device' = Ensured(x)
  PROVE  /\ device'[x] = "active" /\ DevicesStay
         /\ \A y \in Devices : y # x => device'[y] = device[y]
  BY DEF Types, RegistryTypes, DeviceStates, Ensured, DevicesStay

\* What happens to a request makes no other one wait.
LEMMA EndedRequest ==
  ASSUME Types, NEW r \in Requests,
         NEW status \in {"received", "cancelled", "completed", "revoked"},
         Become(r, status), status = "received" => Pending(r)
  PROVE  FewerRequests
<1>1. /\ record'[r].status = status /\ record'[r].device = record[r].device
      /\ \A q \in Requests : q # r => record'[q] = record[q]
  BY DEF Types, RegistryTypes, Become, Records
<1> QED
  BY <1>1 DEF FewerRequests, Pending

LEMMA RequestHeldSteps ==
  ASSUME SubjectsAreDevices, IInv, IdentitiesOK, NEW r \in Requests,
         ConfirmPendingPrivateKey(r) \/ CancelPending(r) \/ RemoveLicense(r)
  PROVE  IdentitiesOK'
<1>1. UNCHANGED <<device, cert>>
  BY DEF ConfirmPendingPrivateKey, CancelPending, RemoveLicense
<1>2. /\ FewerCerts /\ DevicesStay
  BY <1>1 DEF FewerCerts, DevicesStay
<1>3. FewerRequests
  BY EndedRequest DEF ConfirmPendingPrivateKey, CancelPending, RemoveLicense, IInv
<1> QED
  BY <1>2, <1>3, FewerCount

\* What is saved was loaded, except for the new request and its device.
LEMMA GenerateHeld ==
  ASSUME SubjectsAreDevices, IInv, IdentitiesOK, LoadedHeld,
         NEW m \in making, GenerateExternalCsr(m)
  PROVE  IdentitiesOK'
<1>1. Saved(m) \/ UNCHANGED <<device, record, cert>>
  BY DEF GenerateExternalCsr, Saved, registry
<1>2. CASE UNCHANGED <<device, record, cert>>
  <2>1. FewerCerts /\ DevicesStay
    BY <1>2 DEF FewerCerts, DevicesStay
  <2> QED
    BY <1>2, <2>1, SameRequests, FewerCount
<1>3. CASE Saved(m)
  <2>1. /\ record'[m.request] = [status |-> "pending", device |-> m.device]
        /\ \A q \in Requests : q # m.request => record'[q] = m.loaded.record[q]
        /\ cert' = m.loaded.cert
    BY <1>3, SavedIs
  <2>2. m.device \in Devices /\ m.loaded \in Documents /\ HeldIn(m.loaded)
    BY DEF IInv, Types, HandlerTypes, LoadedHeld
  <2>3. /\ device'[m.device] = "active"
        /\ \A y \in Devices : device'[y] \in {m.loaded.device[y], "active"}
    BY <1>3, <2>2 DEF Saved, Save, Documents, DeviceStates
  <2>4. CertsHeld'
    BY <2>1, <2>2, <2>3 DEF SubjectsAreDevices, CertsHeld, HeldIn
  <2>5. ASSUME NEW q \in Requests, Pending(q)'
        PROVE  /\ record'[q].device \in Devices
               /\ device'[record'[q].device] \in {"active", "archived"}
    <3>1. CASE q = m.request
      BY <2>1, <2>2, <2>3, <3>1
    <3>2. CASE q # m.request
      <4>1. /\ record'[q] = m.loaded.record[q]
            /\ m.loaded.record[q].status \in {"pending", "received"}
        BY <2>1, <2>5, <3>2 DEF Pending
      <4> QED
        BY <2>2, <2>3, <4>1 DEF HeldIn
    <3> QED
      BY <3>1, <3>2
  <2>6. RequestsHeld'
    BY <2>5 DEF RequestsHeld
  <2> QED
    BY <2>4, <2>6 DEF IdentitiesOK
<1> QED
  BY <1>1, <1>2, <1>3

\* A handler loads the registry as it is.
LEMMA LoadedHeldStep ==
  ASSUME IdentitiesOK, LoadedHeld, [ProvisioningNext]_provisioningVars
  PROVE  LoadedHeld'
<1>1. HeldIn(Loaded)
  BY DEF IdentitiesOK, CertsHeld, RequestsHeld, HeldIn, Loaded, Pending
<1>2. making' \subseteq making \/ \E r \in Requests, x \in Devices : ExternalCsr(r, x)
  BY DEF ProvisioningNext, provisioningVars, handlers, TakePendingPrivateKey,
         ConfirmPendingPrivateKey, CancelPending, Expire, RemoveLicense, ClientLeaves,
         GenerateExternalCsr, RevokeImported, Import, AddTrustedCa, RemoveTrustedCa, Register,
         Archive, Restore, PermanentlyDelete, PendingKeyCleanup, InitializeCa, RefreshPki,
         CloseGate, Healthz, OpenGate, Restart
<1>3. CASE making' \subseteq making
  BY <1>3 DEF LoadedHeld
<1>4. ASSUME NEW r \in Requests, NEW x \in Devices, ExternalCsr(r, x)
      PROVE  LoadedHeld'
  <2>1. making' = making \cup {[request |-> r, device |-> x, loaded |-> Loaded]}
    BY <1>4 DEF ExternalCsr
  <2>2. \A m \in making' : m \in making \/ m.loaded = Loaded
    BY <2>1
  <2>3. \A m \in making' : HeldIn(m.loaded)
    BY <1>1, <2>2 DEF LoadedHeld
  <2> QED
    BY <2>3 DEF LoadedHeld
<1> QED
  BY <1>2, <1>3, <1>4

LEMMA ImportHeld ==
  ASSUME SubjectsAreDevices, IInv, IdentitiesOK,
         NEW f \in Certs, NEW r \in {0} \cup Requests, Import(f, r)
  PROVE  IdentitiesOK'
<1>1. Subject[f] \in Devices
  BY DEF SubjectsAreDevices
<1>2. device'[Subject[f]] = "active" /\ DevicesStay
  BY <1>1, EnsuredIs DEF Import, IInv
<1>3. \A g \in Certs : g # f => cert'[g] = cert[g]
  BY DEF Import, IInv, Types, RegistryTypes
<1>4. CertsHeld'
  BY <1>2, <1>3 DEF SubjectsAreDevices, IdentitiesOK, CertsHeld, DevicesStay
<1>5. FewerRequests
  <2>1. CASE r = 0
    BY <2>1, SameRequests DEF Import
  <2>2. CASE r # 0
    BY <2>2, EndedRequest DEF Import, IInv
  <2> QED
    BY <2>1, <2>2
<1>6. RequestsHeld'
  <2>1. ASSUME NEW q \in Requests, Pending(q)'
        PROVE  /\ record'[q].device \in Devices
               /\ device'[record'[q].device] \in {"active", "archived"}
    <3>1. record'[q].device = record[q].device /\ Pending(q)
      BY <1>5, <2>1 DEF FewerRequests
    <3> QED
      BY <1>2, <3>1 DEF IdentitiesOK, RequestsHeld, DevicesStay
  <2> QED
    BY <2>1 DEF RequestsHeld
<1> QED
  BY <1>4, <1>6 DEF IdentitiesOK

LEMMA TrustHeldSteps ==
  ASSUME SubjectsAreDevices, IInv, IdentitiesOK,
         InitializeCa \/ \E a \in Cas : AddTrustedCa(a) \/ RemoveTrustedCa(a)
  PROVE  IdentitiesOK'
<1>1. UNCHANGED <<device, record>>
  BY DEF InitializeCa, AddTrustedCa, RemoveTrustedCa
<1>2. ASSUME NEW a, NEW trusted \in BOOLEAN, NEW f \in Certs
      PROVE  Trusting(trusted, a)[f].status = cert[f].status
  <2>1. cert[f] \in Imported
    BY DEF IInv, Types, RegistryTypes
  <2>2. [cert[f] EXCEPT !.trusted = trusted].status = cert[f].status
    BY <2>1 DEF Imported
  <2> QED
    BY <2>2 DEF Trusting
<1>3. \/ UNCHANGED cert
      \/ \E a, trusted : trusted \in BOOLEAN /\ cert' = Trusting(trusted, a)
  BY DEF InitializeCa, AddTrustedCa, RemoveTrustedCa
<1>4. FewerCerts /\ DevicesStay
  BY <1>1, <1>2, <1>3 DEF FewerCerts, DevicesStay
<1> QED
  BY <1>1, <1>4, SameRequests, FewerCount

LEMMA IdentityHeldSteps ==
  ASSUME SubjectsAreDevices, IInv, IdentitiesOK,
         \/ \E f \in Certs : RevokeImported(f)
         \/ \E x \in Devices : Register(x) \/ Restore(x)
  PROVE  IdentitiesOK'
<1>1. UNCHANGED record
  BY DEF RevokeImported, Register, Restore
<1>2. FewerCerts /\ DevicesStay
  <2>1. ASSUME NEW f \in Certs, RevokeImported(f)
        PROVE  FewerCerts /\ DevicesStay
    <3>1. cert' = [cert EXCEPT ![f].status = "revoked"] /\ UNCHANGED device
      BY <2>1 DEF RevokeImported
    <3> QED
      BY <3>1 DEF IInv, Types, RegistryTypes, Imported, FewerCerts, DevicesStay
  <2>2. ASSUME NEW x \in Devices, Register(x) \/ Restore(x)
        PROVE  FewerCerts /\ DevicesStay
    BY <2>2, EnsuredIs DEF Register, Restore, IInv, FewerCerts
  <2> QED
    BY <2>1, <2>2
<1> QED
  BY <1>1, <1>2, SameRequests, FewerCount

LEMMA ArchiveHeld ==
  ASSUME SubjectsAreDevices, IInv, IdentitiesOK, NEW x \in Devices, Archive(x)
  PROVE  IdentitiesOK'
<1>1. /\ device' = [device EXCEPT ![x] = "archived"] /\ UNCHANGED record
      /\ cert' = [f \in Certs |-> IF Subject[f] = x /\ cert[f].status = "active"
                                  THEN [cert[f] EXCEPT !.status = "revoked"] ELSE cert[f]]
  BY DEF Archive
<1>2. device'[x] = "archived" /\ \A y \in Devices : y # x => device'[y] = device[y]
  BY <1>1 DEF IInv, Types, RegistryTypes, DeviceStates
<1>3. CertsHeld'
  <2>1. ASSUME NEW f \in Certs, cert'[f].status = "active"
        PROVE  device'[Subject[f]] = "active"
    <3>1. cert[f] \in Imported
      BY DEF IInv, Types, RegistryTypes
    <3>2. [cert[f] EXCEPT !.status = "revoked"].status = "revoked"
      BY <3>1 DEF Imported
    <3>3. cert[f].status = "active" /\ Subject[f] # x
      BY <1>1, <2>1, <3>2
    <3> QED
      BY <1>2, <3>3 DEF SubjectsAreDevices, IdentitiesOK, CertsHeld
  <2> QED
    BY <2>1 DEF CertsHeld
<1>4. RequestsHeld'
  BY <1>1, <1>2 DEF IdentitiesOK, RequestsHeld, Pending
<1> QED
  BY <1>3, <1>4 DEF IdentitiesOK

LEMMA DeleteHeld ==
  ASSUME SubjectsAreDevices, IInv, IdentitiesOK, NEW x \in Devices, PermanentlyDelete(x)
  PROVE  IdentitiesOK'
<1>1. /\ device' = [device EXCEPT ![x] = "deleted"]
      /\ record' = [r \in Requests |-> IF record[r].device = x
                                       THEN [record[r] EXCEPT !.status = "deleted"] ELSE record[r]]
      /\ cert' = [f \in Certs |-> IF Subject[f] = x /\ cert[f].status # "none"
                                  THEN [status |-> "deleted", trusted |-> FALSE] ELSE cert[f]]
  BY DEF PermanentlyDelete
<1>2. \A y \in Devices : y # x => device'[y] = device[y]
  BY <1>1 DEF IInv, Types, RegistryTypes, DeviceStates
<1>3. ASSUME NEW f \in Certs, cert'[f].status = "active"
      PROVE  device'[Subject[f]] = "active"
  <2>1. Subject[f] # x /\ cert'[f] = cert[f]
    BY <1>1, <1>3
  <2> QED
    BY <1>2, <1>3, <2>1 DEF SubjectsAreDevices, IdentitiesOK, CertsHeld
<1>4. ASSUME NEW r \in Requests, Pending(r)'
      PROVE  /\ record'[r].device \in Devices
             /\ device'[record'[r].device] \in {"active", "archived"}
  <2>1. record[r] \in Records
    BY DEF IInv, Types, RegistryTypes
  <2>2. [record[r] EXCEPT !.status = "deleted"].status = "deleted"
    BY <2>1 DEF Records
  <2>3. record[r].device # x /\ record'[r] = record[r]
    BY <1>1, <1>4, <2>2 DEF Pending
  <2>4. Pending(r)
    BY <1>4, <2>3 DEF Pending
  <2> QED
    BY <1>2, <2>3, <2>4 DEF IdentitiesOK, RequestsHeld
<1> QED
  BY <1>3, <1>4 DEF IdentitiesOK, CertsHeld, RequestsHeld

LEMMA ElsewhereHeld ==
  ASSUME SubjectsAreDevices, IdentitiesOK, UNCHANGED <<device, record, cert>>
  PROVE  IdentitiesOK'
<1>1. FewerCerts /\ DevicesStay
  BY DEF FewerCerts, DevicesStay
<1> QED
  BY <1>1, SameRequests, FewerCount

LEMMA StepHeld ==
  ASSUME SubjectsAreDevices, IInv, IdentitiesOK, LoadedHeld, [ProvisioningNext]_provisioningVars
  PROVE  IdentitiesOK'
<1>1. ASSUME NEW r \in Requests,
             \/ TakePendingPrivateKey(r) \/ ConfirmPendingPrivateKey(r) \/ CancelPending(r)
             \/ Expire(r) \/ RemoveLicense(r) \/ \E x \in Devices : ExternalCsr(r, x)
             \/ ClientLeaves(r)
      PROVE  IdentitiesOK'
  BY <1>1, RequestHeldSteps, ElsewhereHeld
     DEF TakePendingPrivateKey, Expire, ExternalCsr, ClientLeaves, registry
<1>2. ASSUME NEW f \in Certs,
             RevokeImported(f) \/ \E r \in {0} \cup Requests : Import(f, r)
      PROVE  IdentitiesOK'
  BY <1>2, IdentityHeldSteps, ImportHeld
<1>3. ASSUME NEW x \in Devices, Register(x) \/ Archive(x) \/ Restore(x) \/ PermanentlyDelete(x)
      PROVE  IdentitiesOK'
  BY <1>3, IdentityHeldSteps, ArchiveHeld, DeleteHeld
<1>4. ASSUME PendingKeyCleanup \/ RefreshPki \/ CloseGate \/ Healthz \/ OpenGate \/ Restart
      PROVE  IdentitiesOK'
  BY <1>4, ElsewhereHeld
     DEF PendingKeyCleanup, RefreshPki, CloseGate, Healthz, OpenGate, Restart, registry
<1>5. CASE UNCHANGED provisioningVars
  BY <1>5, ElsewhereHeld DEF provisioningVars, registry
<1> QED
  BY <1>1, <1>2, <1>3, <1>4, <1>5, GenerateHeld, TrustHeldSteps DEF ProvisioningNext

\* An archived or deleted identity has no certificate that counts, and a deleted one no request
\* that could still complete, whatever order imports, revocations and deletions come in, and
\* also when a handler whose client left saves an old registry.
THEOREM IdentitiesHold == SubjectsAreDevices /\ ProvisioningSpec => []ActiveNeedsIdentity
<1>1. CASE SubjectsAreDevices
  <2>1. ProvisioningInit => IdentitiesOK /\ LoadedHeld
    BY DEF ProvisioningInit, NoCert, NoRecord, IdentitiesOK, CertsHeld, RequestsHeld, Pending,
           LoadedHeld
  <2>2. IInv /\ IdentitiesOK /\ LoadedHeld /\ [ProvisioningNext]_provisioningVars
           => IdentitiesOK' /\ LoadedHeld'
    BY <1>1, StepHeld, LoadedHeldStep
  <2>3. IdentitiesOK => ActiveNeedsIdentity
    BY DEF IdentitiesOK, CertsHeld, RequestsHeld, ActiveNeedsIdentity
  <2>4. SubjectsAreDevices /\ ProvisioningSpec => []IInv
    BY IInvAlways
  <2> QED
    BY <1>1, <2>1, <2>2, <2>3, <2>4, PTL DEF ProvisioningSpec
<1> QED
  BY <1>1

-----------------------------------------------------------------------------
(* The numbers of the local CA. *)

CaTypes ==
    /\ serial \in 0..MaxSerial /\ index \subseteq Serials
    /\ job \in [pc : {"none", "sign", "reserve", "x509", "register", "record"}, number : Serials]
    /\ recorded \in [Serials -> Nat] /\ failures \in Nat

\* What the CA lists lies below the next number, and what the registry has the CA lists.
BelowSerial == \A n \in index : n < serial
RecordsListed == \A n \in Serials : recorded[n] <= 1 /\ (recorded[n] > 0 => n \in index)

\* The number a handler holds is the next one until it reserves it, nobody's until it is
\* registered, and nobody's record's until it is recorded.
NumberHeld ==
    /\ job.pc = "reserve" => job.number = serial
    /\ job.pc \in {"x509", "register"} => job.number < serial /\ job.number \notin index
    /\ job.pc = "record" => job.number \in index /\ recorded[job.number] = 0

NumbersInv == CaTypes /\ BelowSerial /\ RecordsListed /\ NumberHeld

LEMMA SerialsAreNumbers ==
  /\ MaxSerial \in Nat /\ 0 \in Serials /\ \A n \in Serials : n \in Nat /\ n <= MaxSerial
  /\ \A n \in Nat : n <= MaxSerial => n \in Serials
  BY CaAssumption DEF Serials

LEMMA JobFields ==
  ASSUME CaTypes
  PROVE  /\ job.pc \in {"none", "sign", "reserve", "x509", "register", "record"}
         /\ job.number \in Serials /\ serial \in Nat /\ serial \in Serials
  BY SerialsAreNumbers DEF CaTypes, Serials

LEMMA GoToIs ==
  ASSUME CaTypes, NEW pc \in {"x509", "register", "record"}, GoTo(pc)
  PROVE  /\ job' \in [pc : {"none", "sign", "reserve", "x509", "register", "record"},
                      number : Serials]
         /\ job'.pc = pc /\ job'.number = job.number
  BY DEF CaTypes, GoTo

LEMMA NoJobIs ==
  /\ NoJob \in [pc : {"none", "sign", "reserve", "x509", "register", "record"}, number : Serials]
  /\ NoJob.pc = "none"
  BY SerialsAreNumbers DEF NoJob

LEMMA InitNumbers == CaInit => NumbersInv
<1> SUFFICES ASSUME CaInit PROVE NumbersInv
  OBVIOUS
<1>1. CaTypes
  BY SerialsAreNumbers, NoJobIs DEF CaInit, CaTypes
<1>2. NumberHeld
  BY NoJobIs DEF CaInit, NumberHeld
<1>3. BelowSerial /\ RecordsListed
  BY DEF CaInit, BelowSerial, RecordsListed
<1> QED
  BY <1>1, <1>2, <1>3 DEF NumbersInv

-----------------------------------------------------------------------------
(* One lemma per step of a handler. *)

\* A handler begins with no number, or with the next one.
LEMMA BeginKeeps ==
  ASSUME NumbersInv, NEW pc \in {"sign", "reserve"}, NEW n \in Serials, Begin(pc, n),
         pc = "reserve" => n = serial, UNCHANGED <<serial, index, recorded, failures>>
  PROVE  NumbersInv'
<1>1. /\ job' \in [pc : {"none", "sign", "reserve", "x509", "register", "record"},
                   number : Serials]
      /\ job'.pc = pc /\ job'.number = n
  BY DEF Begin
<1>2. CaTypes'
  BY <1>1 DEF NumbersInv, CaTypes
<1>3. NumberHeld'
  BY <1>1 DEF NumberHeld
<1> QED
  BY <1>2, <1>3 DEF NumbersInv, BelowSerial, RecordsListed

LEMMA OpensslCaKeeps ==
  ASSUME NumbersInv, OpensslCa
  PROVE  NumbersInv'
<1>1. /\ serial \notin index /\ serial < MaxSerial /\ index' = index \cup {serial}
      /\ serial' = serial + 1 /\ job' = [pc |-> "record", number |-> serial]
      /\ UNCHANGED <<recorded, failures>>
  BY DEF OpensslCa
<1>2. serial \in Nat /\ serial \in Serials
  BY JobFields DEF NumbersInv
<1>3. recorded[serial] = 0
  BY <1>1, <1>2 DEF NumbersInv, RecordsListed, CaTypes
<1>4. CaTypes'
  <2>1. serial' \in 0..MaxSerial
    BY <1>1, <1>2, SerialsAreNumbers
  <2>2. index' \subseteq Serials
    BY <1>1, <1>2 DEF NumbersInv, CaTypes
  <2>3. job' \in [pc : {"none", "sign", "reserve", "x509", "register", "record"},
                  number : Serials]
    BY <1>1, <1>2
  <2> QED
    BY <1>1, <2>1, <2>2, <2>3 DEF NumbersInv, CaTypes
<1>5. BelowSerial'
  <2>1. \A n \in index : n \in Nat /\ n < serial
    BY SerialsAreNumbers DEF NumbersInv, CaTypes, BelowSerial
  <2> QED
    BY <1>1, <1>2, <2>1 DEF BelowSerial
<1>6. RecordsListed'
  BY <1>1 DEF NumbersInv, RecordsListed
<1>7. NumberHeld'
  BY <1>1, <1>3 DEF NumberHeld
<1> QED
  BY <1>4, <1>5, <1>6, <1>7 DEF NumbersInv

\* A handler that fails or dies may leave its number listed, or used up.
LEMMA FailureKeeps ==
  ASSUME NumbersInv, Failure, UNCHANGED recorded,
         serial' \in {serial, serial + 1}, serial' \in 0..MaxSerial,
         index \subseteq index', \A n \in index' : n \in index \/ (n \in Serials /\ n < serial')
  PROVE  NumbersInv'
<1>1. job' = NoJob /\ failures' = failures + 1
  BY DEF Failure
<1>2. \A n \in index : n \in Nat /\ n < serial
  BY SerialsAreNumbers DEF NumbersInv, CaTypes, BelowSerial
<1>3. serial \in Nat /\ serial <= serial'
  BY JobFields DEF NumbersInv
<1>4. CaTypes'
  <2>1. index' \subseteq Serials
    BY DEF NumbersInv, CaTypes
  <2>2. failures' \in Nat
    BY <1>1 DEF NumbersInv, CaTypes
  <2> QED
    BY <1>1, <2>1, <2>2, NoJobIs DEF NumbersInv, CaTypes
<1>5. BelowSerial'
  <2> SUFFICES ASSUME NEW n \in index' PROVE n < serial'
    BY DEF BelowSerial
  <2>1. CASE n \in index
    BY <1>2, <1>3, <2>1
  <2> QED
    BY <2>1
<1>6. RecordsListed'
  BY DEF NumbersInv, RecordsListed
<1>7. NumberHeld'
  BY <1>1, NoJobIs DEF NumberHeld
<1> QED
  BY <1>4, <1>5, <1>6, <1>7 DEF NumbersInv

LEMMA ReserveKeeps ==
  ASSUME NumbersInv, Reserve
  PROVE  NumbersInv'
<1>1. /\ job.pc = "reserve" /\ serial < MaxSerial /\ serial' = job.number + 1 /\ GoTo("x509")
      /\ UNCHANGED <<index, recorded, failures>>
  BY DEF Reserve
<1>2. job.number = serial /\ serial \in Nat
  BY <1>1, JobFields DEF NumbersInv, NumberHeld
<1>3. /\ job' \in [pc : {"none", "sign", "reserve", "x509", "register", "record"},
                   number : Serials]
      /\ job'.pc = "x509" /\ job'.number = serial
  BY <1>1, <1>2, GoToIs DEF NumbersInv
<1>4. \A n \in index : n \in Nat /\ n < serial
  BY SerialsAreNumbers DEF NumbersInv, CaTypes, BelowSerial
<1>5. serial' = serial + 1 /\ serial' \in 0..MaxSerial
  BY <1>1, <1>2, SerialsAreNumbers
<1>6. serial \notin index
  BY <1>2, <1>4
<1>7. CaTypes'
  BY <1>1, <1>3, <1>5 DEF NumbersInv, CaTypes
<1>8. BelowSerial'
  BY <1>1, <1>2, <1>4, <1>5 DEF BelowSerial
<1>9. NumberHeld'
  BY <1>1, <1>2, <1>3, <1>5, <1>6 DEF NumberHeld
<1> QED
  BY <1>1, <1>7, <1>8, <1>9 DEF NumbersInv, RecordsListed

LEMMA X509Keeps ==
  ASSUME NumbersInv, X509
  PROVE  NumbersInv'
<1>1. job.pc = "x509" /\ GoTo("register") /\ UNCHANGED <<serial, index, recorded, failures>>
  BY DEF X509
<1>2. /\ job' \in [pc : {"none", "sign", "reserve", "x509", "register", "record"},
                   number : Serials]
      /\ job'.pc = "register" /\ job'.number = job.number
  BY <1>1, GoToIs DEF NumbersInv
<1>3. CaTypes'
  BY <1>1, <1>2 DEF NumbersInv, CaTypes
<1>4. NumberHeld'
  BY <1>1, <1>2 DEF NumbersInv, NumberHeld
<1> QED
  BY <1>1, <1>3, <1>4 DEF NumbersInv, BelowSerial, RecordsListed

LEMMA RegisterKeeps ==
  ASSUME NumbersInv, RegisterNumber
  PROVE  NumbersInv'
<1>1. /\ job.pc = "register" /\ job.number \notin index /\ index' = index \cup {job.number}
      /\ GoTo("record") /\ UNCHANGED <<serial, recorded, failures>>
  BY DEF RegisterNumber
<1>2. job.number \in Serials /\ job.number < serial
  BY <1>1, JobFields DEF NumbersInv, NumberHeld
<1>3. /\ job' \in [pc : {"none", "sign", "reserve", "x509", "register", "record"},
                   number : Serials]
      /\ job'.pc = "record" /\ job'.number = job.number
  BY <1>1, GoToIs DEF NumbersInv
<1>4. recorded[job.number] = 0
  BY <1>1, <1>2 DEF NumbersInv, RecordsListed, CaTypes
<1>5. CaTypes'
  BY <1>1, <1>2, <1>3 DEF NumbersInv, CaTypes
<1>6. BelowSerial'
  BY <1>1, <1>2 DEF NumbersInv, BelowSerial
<1>7. RecordsListed'
  BY <1>1 DEF NumbersInv, RecordsListed
<1>8. NumberHeld'
  BY <1>1, <1>3, <1>4 DEF NumberHeld
<1> QED
  BY <1>5, <1>6, <1>7, <1>8 DEF NumbersInv

LEMMA AddIssuedRecordKeeps ==
  ASSUME NumbersInv, AddIssuedRecord
  PROVE  NumbersInv'
<1>1. /\ job.pc = "record" /\ job' = NoJob
      /\ recorded' = [recorded EXCEPT ![job.number] = @ + 1] /\ UNCHANGED <<serial, index, failures>>
  BY DEF AddIssuedRecord
<1>2. job.number \in Serials /\ job.number \in index /\ recorded[job.number] = 0
  BY <1>1, JobFields DEF NumbersInv, NumberHeld
<1>3. recorded \in [Serials -> Nat]
  BY DEF NumbersInv, CaTypes
<1>4. /\ recorded'[job.number] = 1 /\ recorded' \in [Serials -> Nat]
      /\ \A n \in Serials : n # job.number => recorded'[n] = recorded[n]
  BY <1>1, <1>2, <1>3
<1>5. CaTypes'
  BY <1>1, <1>4, NoJobIs DEF NumbersInv, CaTypes
<1>6. RecordsListed'
  <2> SUFFICES ASSUME NEW n \in Serials
               PROVE  recorded'[n] <= 1 /\ (recorded'[n] > 0 => n \in index)
    BY <1>1 DEF RecordsListed
  <2>1. CASE n = job.number
    BY <1>2, <1>4, <2>1
  <2>2. CASE n # job.number
    BY <1>4, <2>2 DEF NumbersInv, RecordsListed
  <2> QED
    BY <2>1, <2>2
<1>7. NumberHeld'
  BY <1>1, NoJobIs DEF NumberHeld
<1> QED
  BY <1>1, <1>5, <1>6, <1>7 DEF NumbersInv, BelowSerial

LEMMA RevokeKeeps ==
  ASSUME NumbersInv, NEW n \in Serials, RevokeCertificate(n)
  PROVE  NumbersInv'
<1>1. index' = index /\ UNCHANGED <<serial, job, recorded, failures>>
  BY DEF RevokeCertificate, NumbersInv, RecordsListed
<1> QED
  BY <1>1 DEF NumbersInv, CaTypes, BelowSerial, RecordsListed, NumberHeld

LEMMA FailsKeeps ==
  ASSUME NumbersInv, OpensslCaFails \/ RenewFails \/ AdminDies
  PROVE  NumbersInv'
<1>1. Failure /\ UNCHANGED recorded
  BY DEF OpensslCaFails, RenewFails, AdminDies
<1>2. serial \in Nat /\ serial \in Serials /\ serial \in 0..MaxSerial /\ index \subseteq Serials
  BY JobFields DEF NumbersInv, CaTypes
<1>3. CASE UNCHANGED <<serial, index>>
  BY <1>1, <1>2, <1>3, FailureKeeps
<1>4. CASE OpensslCaFails /\ ~UNCHANGED <<serial, index>>
  <2>1. serial < MaxSerial /\ serial' = serial + 1 /\ index' \in {index, index \cup {serial}}
    BY <1>4 DEF OpensslCaFails
  <2>2. serial' \in 0..MaxSerial /\ serial < serial'
    BY <1>2, <2>1, SerialsAreNumbers
  <2>3. index \subseteq index' /\ \A n \in index' : n \in index \/ n = serial
    BY <2>1
  <2> QED
    BY <1>1, <1>2, <2>1, <2>2, <2>3, FailureKeeps
<1>5. CASE RenewFails /\ ~UNCHANGED <<serial, index>>
  <2>1. /\ job.pc = "register" /\ index' = index \cup {job.number} /\ UNCHANGED serial
    BY <1>5 DEF RenewFails
  <2>2. job.number \in Serials /\ job.number < serial
    BY <2>1, JobFields DEF NumbersInv, NumberHeld
  <2> QED
    BY <1>1, <1>2, <2>1, <2>2, FailureKeeps
<1>6. AdminDies => UNCHANGED <<serial, index>>
  BY DEF AdminDies
<1> QED
  BY <1>3, <1>4, <1>5, <1>6

LEMMA NumbersStep == NumbersInv /\ [CaNext]_caVars => NumbersInv'
<1> SUFFICES ASSUME NumbersInv, [CaNext]_caVars PROVE NumbersInv'
  OBVIOUS
<1>1. CASE SignDeviceCsr
  BY <1>1, BeginKeeps, SerialsAreNumbers DEF SignDeviceCsr
<1>2. ASSUME NEW n \in Serials, RenewDeviceCertificate(n)
      PROVE  NumbersInv'
  <2>1. serial \in Serials
    BY JobFields DEF NumbersInv
  <2> QED
    BY <1>2, <2>1, BeginKeeps DEF RenewDeviceCertificate
<1>3. CASE UNCHANGED caVars
  BY <1>3 DEF caVars, NumbersInv, CaTypes, BelowSerial, RecordsListed, NumberHeld
<1> QED
  BY <1>1, <1>2, <1>3, OpensslCaKeeps, ReserveKeeps, X509Keeps, RegisterKeeps,
     AddIssuedRecordKeeps, RevokeKeeps, FailsKeeps DEF CaNext

\* Whatever fails in between, every certificate on record is the only one of its number and is
\* known to the CA, and the next number is free (certificate-service.js:288).
THEOREM NumbersAccounted == CaSpec => []SerialsAccounted
<1>1. NumbersInv => SerialsAccounted
  <2> SUFFICES ASSUME NumbersInv PROVE SerialsAccounted
    OBVIOUS
  <2>1. \A n \in index : n < serial
    BY DEF NumbersInv, BelowSerial
  <2>2. serial \in Nat
    BY JobFields DEF NumbersInv
  <2>3. serial \notin index
    BY <2>1, <2>2
  <2> QED
    BY <2>3 DEF NumbersInv, RecordsListed, SerialsAccounted
<1> QED
  BY <1>1, InitNumbers, NumbersStep, PTL DEF CaSpec
=============================================================================
