-------------------------- MODULE MCPairingService --------------------------
(* Instances of PairingService for TLC. *)
EXTENDS PairingService

\* Both sources share one rate bucket (two addresses of one /64 prefix).
MCRateKeyOf == [s \in Sources |-> "k1"]

\* Two bodies, each naming a certificate of its own.
MCCertOf == [b \in Bodies |-> IF b = "b3" THEN "c2" ELSE "c1"]
=============================================================================
