-------------------------- MODULE MCAdminServices ---------------------------
(***************************************************************************)
(* Small instances, for TLC, of parts of Admin that share no state:        *)
(* the numbers of the local CA, imported credentials, the certificates of  *)
(* the gateway's services, the offer of releases, Admin's own client of    *)
(* the broker and the traffic it counts.  A behaviour is one of the part   *)
(* that MCInit chooses; the others stay in one of their initial states.    *)
(***************************************************************************)
EXTENDS LocalCa, Provisioning, BrokerMaintenance, SystemUpdates, MqttManager, TrafficMetrics

CONSTANTS
    d1, a1, j1, j2

VARIABLE part   \* who moves

-----------------------------------------------------------------------------
(* A device, two external requests and two certificates, one of which is for a key of Admin. *)
ForDevice == [f \in Certs |-> d1]
ForKey == [f \in Certs |-> IF f = 1 THEN 1 ELSE 0]
FromCa == [f \in Certs |-> a1]

BrokerAndAdmin == <<"broker", "admin">>

(* A stable release, two release candidates that order differently as strings, one of which names
   no version of podman, a release whose images only Admin's verifier takes, and one that has no
   migration from the schema that is installed. *)
Version(core, pre) == [core |-> core, pre |-> pre]
Stable == Version(<<1, 1, 0>>, <<>>)
FirstCandidate == Version(<<1, 2, 0>>, <<<<0, 1>>>>)
NextCandidate == Version(<<1, 2, 0>>, <<<<0, 1>>, <<1, 1>>>>)
CandidateWord == Version(<<1, 1, 0>>, <<<<1, 9>>, <<1, 1>>>>)
CandidateNumber == Version(<<1, 1, 0>>, <<<<1, 9>>, <<0, 2>>>>)
PodmanVersion == Version(<<4, 9, 0>>, <<>>)
Release(version, form, podman, schema, from) ==
    [version |-> version, assets |-> TRUE, form |-> form,
     manifest |-> [minGateway |-> CandidateNumber, minPodman |-> podman,
                   schema |-> schema, migratesFrom |-> from]]
OnGithub == <<Release(Stable, "exact", PodmanVersion, 2, 1),
              Release(CandidateWord, "exact", NoVersion, 2, 1),
              Release(FirstCandidate, "loose", PodmanVersion, 2, 1),
              Release(NextCandidate, "exact", PodmanVersion, 3, 2)>>
Running == [version |-> CandidateNumber, schema |-> 1]

(* An owner may subscribe to each topic by itself. *)
EachTopic == {{t} : t \in Topics}

-----------------------------------------------------------------------------
allVars == <<part, caVars, provisioningVars, maintenanceVars, offerVars, mqttVars, trafficVars>>

\* Those that stay need one of their initial states only; a single release is there
\* and the stable one may come.
MCInit ==
    /\ part \in {"ca", "credentials", "maintenance", "offers", "mqtt", "metrics"}
    /\ CaInit /\ ProvisioningInit /\ MaintenanceInit /\ OfferInit /\ MqttInit /\ TrafficInit
    /\ IF part = "offers" THEN published \in {{2}, {3}, {4}} /\ controller # "busy"
       ELSE published = {} /\ controller = "off"
    /\ part # "mqtt" => \A t \in Topics : broker[t] = Empty
    /\ part # "metrics" => brokerCount = 0

\* The others stay where they are.
Alone(p) ==
    /\ part = p /\ part' = part
    /\ p # "ca" => UNCHANGED caVars
    /\ p # "credentials" => UNCHANGED provisioningVars
    /\ p # "maintenance" => UNCHANGED maintenanceVars
    /\ p # "offers" => UNCHANGED offerVars
    /\ p # "mqtt" => UNCHANGED mqttVars
    /\ p # "metrics" => UNCHANGED trafficVars

MCNext ==
    \/ Alone("ca") /\ CaNext
    \/ Alone("credentials") /\ ProvisioningNext /\ (restarts' = 0 \/ NobodyLeft')
    \/ Alone("maintenance") /\ MaintenanceNext
    \/ Alone("offers") /\ OfferNext /\ published' \subseteq published \cup {1}
    \/ Alone("mqtt") /\ MqttNext
    \/ Alone("metrics") /\ TrafficNext

MCSpec == MCInit /\ [][MCNext]_allVars
=============================================================================
