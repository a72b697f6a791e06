------------------------------- MODULE LocalCa -------------------------------
(***************************************************************************)
(* How the local CA numbers the certificates of devices.                   *)
(* services/certificate-service.js lets `openssl ca` sign a CSR with the   *)
(* number in the file `serial`; to renew a certificate for its public key  *)
(* it takes the number itself, signs with `openssl x509`, and registers    *)
(* the result with `openssl ca -valid`.  The handlers of                   *)
(* routes/certificate-routes.js record what comes back.                    *)
(*                                                                         *)
(* Handlers take turns (db.js, exclusive), so there is at most one as long *)
(* as every client waits for its answer: two renewals that overlap because *)
(* the first one's client left (server.js) are not modelled.  Each step is *)
(* what one openssl command or one file write does; a command may fail, or *)
(* be killed after 30 seconds with part of its work done, and Admin may    *)
(* die between any two steps.                                              *)
(***************************************************************************)
EXTENDS Naturals

CONSTANTS
    MaxSerial,    \* bound: numbers ever used
    MaxFailures   \* bound: failures of openssl and deaths of Admin

ASSUME CaAssumption == MaxSerial \in Nat /\ MaxFailures \in Nat

VARIABLES
    serial,    \* ca/serial: the next number
    index,     \* numbers ca/index.txt lists, valid or revoked
    revoked,   \* those it lists as revoked
    job,       \* the handler at work and the number it holds
    recorded,  \* registry: how many records carry each number
    failures   \* counter for the bound

caVars == <<serial, index, revoked, job, recorded, failures>>

Serials == 0..MaxSerial
NoJob == [pc |-> "none", number |-> 0]

CaInit ==
    /\ serial = 0 /\ index = {} /\ revoked = {} /\ job = NoJob
    /\ recorded = [n \in Serials |-> 0] /\ failures = 0

Begin(pc, number) == job.pc = "none" /\ job' = [pc |-> pc, number |-> number]
GoTo(pc) == job' = [job EXCEPT !.pc = pc]
Failure == failures < MaxFailures /\ failures' = failures + 1 /\ job' = NoJob

-----------------------------------------------------------------------------
\* A CSR is signed, for a new device key or for one that replaces the old.
SignDeviceCsr ==
    /\ Begin("sign", 0)
    /\ UNCHANGED <<serial, index, revoked, recorded, failures>>

\* openssl ca: refuses a number that its index lists; both files change, then it answers.
OpensslCa ==
    /\ job.pc = "sign" /\ serial < MaxSerial /\ serial \notin index
    /\ index' = index \cup {serial} /\ serial' = serial + 1
    /\ job' = [pc |-> "record", number |-> serial]
    /\ UNCHANGED <<revoked, recorded, failures>>

\* Refused, failed, or killed before or after it replaced the first or both of its files.
OpensslCaFails ==
    /\ job.pc = "sign" /\ serial < MaxSerial /\ Failure
    /\ \/ UNCHANGED <<serial, index>>
       \/ serial \notin index /\ serial' = serial + 1 /\ index' \in {index, index \cup {serial}}
    /\ UNCHANGED <<revoked, recorded>>

\* Only what the registry calls active and the CA did not revoke; the number is read here.
RenewDeviceCertificate(n) ==
    /\ recorded[n] > 0 /\ n \notin revoked
    /\ Begin("reserve", serial)
    /\ UNCHANGED <<serial, index, revoked, recorded, failures>>

\* Mutant of Reserve: the file keeps the number until the certificate is there.
ReserveNothing ==
    /\ job.pc = "reserve" /\ serial < MaxSerial
    /\ GoTo("x509")
    /\ UNCHANGED <<serial, index, revoked, recorded, failures>>

Reserve ==
    /\ job.pc = "reserve" /\ serial < MaxSerial
    /\ serial' = job.number + 1 /\ GoTo("x509")
    /\ UNCHANGED <<index, revoked, recorded, failures>>

X509 ==
    /\ job.pc = "x509" /\ GoTo("register")
    /\ UNCHANGED <<serial, index, revoked, recorded, failures>>

\* openssl ca -valid: refuses a number that the index lists.
RegisterNumber ==
    /\ job.pc = "register" /\ job.number \notin index
    /\ index' = index \cup {job.number} /\ GoTo("record")
    /\ UNCHANGED <<serial, revoked, recorded, failures>>

RenewFails ==
    /\ job.pc \in {"reserve", "x509", "register"} /\ Failure
    /\ \/ UNCHANGED index
       \/ job.pc = "register" /\ job.number \notin index /\ index' = index \cup {job.number}
    /\ UNCHANGED <<serial, revoked, recorded>>

\* addIssuedRecord and saveDb.
AddIssuedRecord ==
    /\ job.pc = "record"
    /\ recorded' = [recorded EXCEPT ![job.number] = @ + 1] /\ job' = NoJob
    /\ UNCHANGED <<serial, index, revoked, failures>>

\* openssl ca -revoke, from any of the routes that revoke.
RevokeCertificate(n) ==
    /\ job.pc = "none" /\ recorded[n] > 0 /\ n \notin revoked
    /\ revoked' = revoked \cup {n} /\ index' = index \cup {n}
    /\ UNCHANGED <<serial, job, recorded, failures>>

AdminDies ==
    /\ job.pc # "none" /\ Failure
    /\ UNCHANGED <<serial, index, revoked, recorded>>

CaNext ==
    \/ SignDeviceCsr \/ OpensslCa \/ OpensslCaFails
    \/ \E n \in Serials : RenewDeviceCertificate(n) \/ RevokeCertificate(n)
    \/ Reserve \/ X509 \/ RegisterNumber \/ RenewFails \/ AddIssuedRecord
    \/ AdminDies

CaSpec == CaInit /\ [][CaNext]_caVars

-----------------------------------------------------------------------------
\* Every certificate on record is the only one of its number and is known to the CA, which can
\* revoke it; and the next number is free, so whatever failed in between, the CA can go on issuing
\* (certificate-service.js:288: "any failure can only leave an unused serial").
SerialsAccounted ==
    /\ \A n \in Serials : recorded[n] <= 1 /\ (recorded[n] = 1 => n \in index)
    /\ serial \notin index
=============================================================================
