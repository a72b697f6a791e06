--------------------------- MODULE MCBrokerPolicy ---------------------------
(* Instances of BrokerPolicy for TLC. *)
EXTENDS BrokerPolicy

CONSTANT d1

\* Every certificate names the one device.
OneHolder == [c \in 1..MaxCerts |-> d1]
=============================================================================
