---------------------------- MODULE Provisioning ----------------------------
(***************************************************************************)
(* Credentials that do not come from the local CA: private keys that Admin *)
(* makes for a CSR and hands out once (services/certificate-service.js),   *)
(* certificates and CAs an owner imports (routes/certificate-routes.js),   *)
(* and the answer the updater waits for before it stops Admin: that no key *)
(* is waiting to be handed out (server.js, update-health.js).              *)
(*                                                                         *)
(* The keys are in Admin's memory, everything else is in the registry or   *)
(* in the broker's CA bundle.  Handlers take turns in the queue of db.js.  *)
(* A turn ends with the answer, or when the client goes away (server.js):  *)
(* the handler that makes a key then goes on without the turn, and saves   *)
(* the registry that it loaded, over whatever others saved since.  A       *)
(* handler that only loads and saves the registry is one action, one that  *)
(* waits for openssl has an action for each part; an import is one action  *)
(* all the same, and the clients of imports and of the changes to CAs stay.*)
(***************************************************************************)
EXTENDS Naturals, FiniteSets

CONSTANTS
    Devices,
    Requests,     \* external CSRs
    Certs,        \* certificates that an owner may import, by fingerprint
    Subject,      \* the identity each of them names
    KeyOf,        \* the request whose key each of them certifies, or 0
    Issuer,       \* the CA that signed each of them
    Cas,          \* CAs an owner may trust
    MaxLeaving,   \* bound: clients that go away while their key is made
    MaxRestarts   \* bound: deaths and stops of Admin

\* 0 stands for no device and for no request.
ASSUME ZeroIsNone == 0 \notin Devices /\ 0 \notin Requests

VARIABLES
    device,      \* db.devices and db.deletedIdentities
    record,      \* db.certificates: the record of each request, and the device it is for
    cert,        \* db.certificates: imported ones, and whether the registry trusts their issuer
    trustedCas,  \* db.trustedCas
    bundle,      \* CAs in the broker's ca.crt besides the local one
    memory,      \* pendingPrivateKeys and deliveredPrivateKeys
    making,      \* the keys in the making: for which request and device, and the registry as loaded
    turn,        \* the handler that keeps the queue waiting for openssl
    gate,        \* the updater's maintenance marker, and whether it was told to go on
    client,      \* ghost: whether a request was made, and whether its client left before the answer
    sent,        \* ghost: how often each private key left Admin
    restarts     \* counter for the bound

registry == <<device, record, cert, trustedCas>>
handlers == <<making, turn, client>>
provisioningVars == <<registry, bundle, memory, handlers, gate, sent, restarts>>

NoTurn == <<"none">>
NoRecord == [status |-> "none", device |-> 0]
NoCert == [status |-> "none", trusted |-> FALSE]

ProvisioningInit ==
    /\ device = [x \in Devices |-> "absent"]
    /\ record = [r \in Requests |-> NoRecord]
    /\ cert = [f \in Certs |-> NoCert]
    /\ trustedCas = {} /\ bundle = {}
    /\ memory = [r \in Requests |-> "none"]
    /\ making = {} /\ turn = NoTurn /\ client = [r \in Requests |-> "none"]
    /\ gate = [closed |-> FALSE, ready |-> FALSE]
    /\ sent = [r \in Requests |-> 0] /\ restarts = 0

\* The maintenance marker refuses changes, at the door and again when their turn comes.
Read == turn = NoTurn
Mutation == turn = NoTurn /\ ~gate.closed

\* ensureIdentity makes the device when there is none.
Provisionable(x) == device[x] \in {"absent", "active"}
Ensured(x) == [device EXCEPT ![x] = "active"]
Pending(r) == record[r].status \in {"pending", "received"}
Become(r, status) == record' = [record EXCEPT ![r].status = status]

(***************************************************************************)
(* External CSRs and their private keys.                                   *)
(***************************************************************************)
\* The document that a handler loads, and the one it saves when it made the key of r for x.
Loaded == [device |-> device, record |-> record, cert |-> cert, trustedCas |-> trustedCas]
Save(d, r, x) ==
    /\ device' = [d.device EXCEPT ![x] = "active"]
    /\ record' = [d.record EXCEPT ![r] = [status |-> "pending", device |-> x]]
    /\ cert' = d.cert /\ trustedCas' = d.trustedCas

\* Every request draws an identifier of its own.
ExternalCsr(r, x) ==
    /\ Mutation /\ client[r] = "none" /\ Provisionable(x)
    /\ client' = [client EXCEPT ![r] = "there"]
    /\ making' = making \cup {[request |-> r, device |-> x, loaded |-> Loaded]}
    /\ turn' = <<"csr", r>>
    /\ UNCHANGED <<registry, bundle, memory, gate, sent, restarts>>

\* The client goes away: the queue goes on, and so does the handler.
ClientLeaves(r) ==
    /\ turn = <<"csr", r>>
    /\ Cardinality({q \in Requests : client[q] = "left"}) < MaxLeaving
    /\ client' = [client EXCEPT ![r] = "left"] /\ turn' = NoTurn
    /\ UNCHANGED <<registry, bundle, memory, making, gate, sent, restarts>>

\* A request that fails has changed nothing.
GenerateExternalCsr(m) ==
    /\ m \in making /\ making' = making \ {m}
    /\ \/ /\ memory' = [memory EXCEPT ![m.request] = "held"]
          /\ Save(m.loaded, m.request, m.device)
       \/ UNCHANGED <<memory, registry>>
    /\ turn' = IF turn = <<"csr", m.request>> THEN NoTurn ELSE turn
    /\ UNCHANGED <<bundle, client, gate, sent, restarts>>

\* Mutant of TakePendingPrivateKey: the key stays where it was.
TakePendingPrivateKeyAgain(r) ==
    /\ Read /\ Pending(r) /\ device[record[r].device] = "active"
    /\ memory[r] = "held"
    /\ sent' = [sent EXCEPT ![r] = @ + 1]
    /\ UNCHANGED <<registry, bundle, memory, handlers, gate, restarts>>

\* A GET, so maintenance does not refuse it.
TakePendingPrivateKey(r) ==
    /\ Read /\ Pending(r) /\ device[record[r].device] = "active"
    /\ memory[r] = "held"
    /\ memory' = [memory EXCEPT ![r] = "delivered"]
    /\ sent' = [sent EXCEPT ![r] = @ + 1]
    /\ UNCHANGED <<registry, bundle, handlers, gate, restarts>>

ConfirmPendingPrivateKey(r) ==
    /\ Mutation /\ Pending(r) /\ memory[r] = "delivered"
    /\ memory' = [memory EXCEPT ![r] = "none"]
    /\ Become(r, "received")
    /\ UNCHANGED <<device, cert, trustedCas, bundle, handlers, gate, sent, restarts>>

\* Mutant of CancelPending: only the record is removed.
CancelPendingRecord(r) ==
    /\ Mutation /\ Pending(r)
    /\ Become(r, "cancelled")
    /\ UNCHANGED <<device, cert, trustedCas, bundle, memory, handlers, gate, sent, restarts>>

CancelPending(r) ==
    /\ Mutation /\ Pending(r)
    /\ memory' = [memory EXCEPT ![r] = "none"]
    /\ Become(r, "cancelled")
    /\ UNCHANGED <<device, cert, trustedCas, bundle, handlers, gate, sent, restarts>>

\* Fifteen minutes pass; a timer drops the key, as do a late request for it and /healthz.
Expire(r) ==
    /\ memory[r] = "held"
    /\ memory' = [memory EXCEPT ![r] = "expired"]
    /\ UNCHANGED <<registry, bundle, handlers, gate, sent, restarts>>

Pruned == [r \in Requests |-> IF memory[r] = "expired" THEN "none" ELSE memory[r]]
PendingKeyCleanup ==
    /\ memory # Pruned
    /\ memory' = Pruned
    /\ UNCHANGED <<registry, bundle, handlers, gate, sent, restarts>>

(***************************************************************************)
(* Imported certificates, and the CAs that the broker trusts with them.    *)
(***************************************************************************)
\* importClientCertificate: the key must be the one of the request, if it is for one, and the
\* broker trusts the certificate when a CA that is trusted now issued it.
RightKey(f, r) == r # 0 => KeyOf[f] = r
ImportedCert(f) == [status |-> "active", trusted |-> Issuer[f] \in trustedCas]

\* A certificate for a pending request (r = 0: for none).
Import(f, r) ==
    /\ Mutation /\ Provisionable(Subject[f])
    /\ cert[f].status = "none"
    /\ r # 0 => record[r] = [status |-> "received", device |-> Subject[f]]
    /\ RightKey(f, r) /\ cert' = [cert EXCEPT ![f] = ImportedCert(f)]
    /\ device' = Ensured(Subject[f])
    /\ IF r = 0 THEN UNCHANGED record ELSE Become(r, "completed")
    /\ UNCHANGED <<trustedCas, bundle, memory, handlers, gate, sent, restarts>>

\* Revoking, archiving or deleting a license, which a pending request has too.
RemoveLicense(r) ==
    /\ Mutation /\ record[r].status \in {"pending", "received", "completed"}
    /\ Become(r, "revoked")
    /\ UNCHANGED <<device, cert, trustedCas, bundle, memory, handlers, gate, sent, restarts>>

RevokeImported(f) ==
    /\ Mutation /\ cert[f].status = "active"
    /\ cert' = [cert EXCEPT ![f].status = "revoked"]
    /\ UNCHANGED <<device, record, trustedCas, bundle, memory, handlers, gate, sent, restarts>>

Trusting(trusted, a) ==
    [f \in Certs |-> IF Issuer[f] = a /\ cert[f].status \in {"active", "revoked"}
                     THEN [cert[f] EXCEPT !.trusted = trusted] ELSE cert[f]]

AddTrustedCa(a) ==
    /\ Mutation /\ a \notin trustedCas
    /\ trustedCas' = trustedCas \cup {a}
    /\ turn' = <<"trust", a>>
    /\ UNCHANGED <<device, record, cert, bundle, memory, making, client, gate, sent, restarts>>

\* Mutant of RemoveTrustedCa: the certificates are marked when initializeCa is done.
RemoveTrustedCaFirst(a) ==
    /\ Mutation /\ a \in trustedCas
    /\ trustedCas' = trustedCas \ {a}
    /\ turn' = <<"distrust", a>>
    /\ UNCHANGED <<device, record, cert, bundle, memory, making, client, gate, sent, restarts>>

RemoveTrustedCa(a) ==
    /\ Mutation /\ a \in trustedCas
    /\ trustedCas' = trustedCas \ {a} /\ cert' = Trusting(FALSE, a)
    /\ turn' = <<"distrust", a>>
    /\ UNCHANGED <<device, record, bundle, memory, making, client, gate, sent, restarts>>

\* initializeCa writes the bundle and then generates the CRL, which may fail.
InitializeCa ==
    /\ turn[1] \in {"trust", "distrust"}
    /\ bundle' = trustedCas
    /\ \/ turn[1] = "trust" /\ cert' = Trusting(TRUE, turn[2])
       \/ UNCHANGED cert
    /\ turn' = NoTurn
    /\ UNCHANGED <<device, record, trustedCas, memory, making, client, gate, sent, restarts>>

RefreshPki ==
    /\ Mutation
    /\ bundle' = trustedCas
    /\ UNCHANGED <<registry, memory, handlers, gate, sent, restarts>>

(***************************************************************************)
(* Identities.                                                             *)
(***************************************************************************)
Register(x) ==
    /\ Mutation /\ device[x] = "absent"
    /\ device' = Ensured(x)
    /\ UNCHANGED <<record, cert, trustedCas, bundle, memory, handlers, gate, sent, restarts>>

\* Mutant of Archive: the certificates are left for the revocations that follow.
ArchiveDeviceOnly(x) ==
    /\ Mutation /\ device[x] = "active"
    /\ device' = [device EXCEPT ![x] = "archived"]
    /\ UNCHANGED <<record, cert, trustedCas, bundle, memory, handlers, gate, sent, restarts>>

Archive(x) ==
    /\ Mutation /\ device[x] = "active"
    /\ device' = [device EXCEPT ![x] = "archived"]
    /\ cert' = [f \in Certs |-> IF Subject[f] = x /\ cert[f].status = "active"
                                THEN [cert[f] EXCEPT !.status = "revoked"] ELSE cert[f]]
    /\ UNCHANGED <<record, trustedCas, bundle, memory, handlers, gate, sent, restarts>>

Restore(x) ==
    /\ Mutation /\ device[x] = "archived"
    /\ device' = Ensured(x)
    /\ UNCHANGED <<record, cert, trustedCas, bundle, memory, handlers, gate, sent, restarts>>

\* By an owner or by the retention timer; fingerprints stay in the tombstone.
PermanentlyDelete(x) ==
    /\ Mutation /\ device[x] \in {"active", "archived"}
    /\ device' = [device EXCEPT ![x] = "deleted"]
    /\ record' = [r \in Requests |-> IF record[r].device = x
                                     THEN [record[r] EXCEPT !.status = "deleted"] ELSE record[r]]
    /\ cert' = [f \in Certs |-> IF Subject[f] = x /\ cert[f].status # "none"
                                THEN [status |-> "deleted", trusted |-> FALSE] ELSE cert[f]]
    /\ UNCHANGED <<trustedCas, bundle, memory, handlers, gate, sent, restarts>>

(***************************************************************************)
(* The updater, and restarts.                                              *)
(***************************************************************************)
CloseGate ==
    /\ ~gate.closed
    /\ gate' = [closed |-> TRUE, ready |-> FALSE]
    /\ UNCHANGED <<registry, bundle, memory, handlers, sent, restarts>>

\* Mutant of Healthz: the answer does not wait for its turn.
HealthzAtOnce ==
    /\ gate.closed /\ ~gate.ready
    /\ memory' = Pruned
    /\ gate' = [gate EXCEPT !.ready = \A r \in Requests : Pruned[r] = "none"]
    /\ UNCHANGED <<registry, bundle, handlers, sent, restarts>>

\* hasPendingProvisioningDelivery, as /healthz reports it.
Healthz ==
    /\ Read /\ gate.closed /\ ~gate.ready
    /\ memory' = Pruned
    /\ gate' = [gate EXCEPT !.ready = \A r \in Requests : Pruned[r] = "none"]
    /\ UNCHANGED <<registry, bundle, handlers, sent, restarts>>

OpenGate ==
    /\ gate.closed
    /\ gate' = [closed |-> FALSE, ready |-> FALSE]
    /\ UNCHANGED <<registry, bundle, memory, handlers, sent, restarts>>

\* Admin is stopped or dies at any point.
Restart ==
    /\ restarts < MaxRestarts /\ restarts' = restarts + 1
    /\ memory' = [r \in Requests |-> "none"] /\ making' = {} /\ turn' = NoTurn
    /\ UNCHANGED <<registry, bundle, client, gate, sent>>

ProvisioningNext ==
    \/ \E r \in Requests :
          \/ TakePendingPrivateKey(r) \/ ConfirmPendingPrivateKey(r) \/ CancelPending(r)
          \/ Expire(r) \/ RemoveLicense(r) \/ \E x \in Devices : ExternalCsr(r, x)
          \/ ClientLeaves(r)
    \/ \E m \in making : GenerateExternalCsr(m)
    \/ \E f \in Certs : RevokeImported(f) \/ \E r \in {0} \cup Requests : Import(f, r)
    \/ \E a \in Cas : AddTrustedCa(a) \/ RemoveTrustedCa(a)
    \/ \E x \in Devices : Register(x) \/ Archive(x) \/ Restore(x) \/ PermanentlyDelete(x)
    \/ PendingKeyCleanup \/ InitializeCa \/ RefreshPki
    \/ CloseGate \/ Healthz \/ OpenGate \/ Restart

ProvisioningSpec == ProvisioningInit /\ [][ProvisioningNext]_provisioningVars

-----------------------------------------------------------------------------
\* A private key leaves Admin once at most, whatever is confirmed, cancelled, retried, expired or
\* restarted meanwhile, and a request only goes on with a key that did
\* (certificate-service.js:244-250, certificate-routes.js:266).
KeySentOnce ==
    \A r \in Requests :
        /\ sent[r] <= 1
        /\ record[r].status \in {"received", "completed"} => sent[r] = 1

NobodyLeft == \A r \in Requests : client[r] # "left"

\* Nothing of a request that was cancelled, confirmed or completed stays in memory, and only the
\* save of a handler whose client left takes a record away from a key that is there
\* (certificate-routes.js:243, 259).
KeysFollowRecords ==
    \A r \in Requests :
        memory[r] # "none" =>
            \/ record[r].status \in {"pending", "revoked", "deleted"}
            \/ record[r].status = "none" /\ ~NobodyLeft

\* Once /healthz told the updater to go on there is no key that stopping Admin would lose, be it
\* in memory or still in the making, but those whose client left before it was answered
\* (server.js:38, 74, 76).
ReadyHolds ==
    gate.ready =>
        /\ \A r \in Requests : memory[r] # "none" => client[r] = "left"
        /\ \A m \in making : client[m.request] = "left"

\* As long as no client left a request behind, the registry calls no certificate trusted whose
\* issuer is not, whichever part of adding or removing a CA failed or was cut off, and unless
\* Admin died too the broker's bundle has the trusted CAs and no others
\* (certificate-routes.js:174-188).
TrustIsBacked ==
    NobodyLeft =>
        /\ \A f \in Certs : cert[f].trusted => Issuer[f] \in trustedCas
        /\ turn = NoTurn /\ restarts = 0 => bundle = trustedCas

\* An archived or deleted identity has no certificate that counts, and a deleted one no request
\* that could still complete, also when a handler without a client saves an old registry
\* (certificate-routes.js:393, identity-service.js:53).
ActiveNeedsIdentity ==
    /\ \A f \in Certs : cert[f].status = "active" => device[Subject[f]] = "active"
    /\ \A r \in Requests : Pending(r) => device[record[r].device] \in {"active", "archived"}
=============================================================================
