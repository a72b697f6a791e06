------------------------ MODULE MCBrokerPolicyFaults ------------------------
(***************************************************************************)
(* Two instances of BrokerPolicy in one run of TLC: one with a certificate *)
(* that expires, one whose openssl commands may fail.                      *)
(***************************************************************************)
EXTENDS MCBrokerPolicy

VARIABLE faulty   \* which of the two this behaviour is of

Faulty == INSTANCE BrokerPolicy WITH OpensslCanFail <- TRUE, Expiring <- {}

MCInit == Init /\ faulty \in BOOLEAN

MCNext ==
    \/ ~faulty /\ Next /\ UNCHANGED faulty
    \/ faulty /\ Faulty!Next /\ UNCHANGED faulty

MCSpec == MCInit /\ [][MCNext]_<<vars, faulty>>
=============================================================================
