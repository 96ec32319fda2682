------------------------- MODULE MCAttendedPairing -------------------------
(* Instances of AttendedPairing for TLC. *)
EXTENDS AttendedPairing, TLC

MCRateKeyOf == [s \in Sources |-> "k1"]
MCCertOf == [b \in Bodies |-> IF b = "b2" THEN "c2" ELSE "c1"]
=============================================================================
