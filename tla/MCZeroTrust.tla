---------------------------- MODULE MCZeroTrust ----------------------------
(***************************************************************************)
(* Instances of ZeroTrust for TLC: two addresses at home, or one of them   *)
(* in a high-risk country.                                                 *)
(***************************************************************************)
EXTENDS ZeroTrust

CONSTANTS i1, i2

OneContext == {<<d, i1>> : d \in Devices}
AllContexts == Devices \X Ips

BothHome == [ip \in {i1, i2} |-> "DE"]
OneAbroad == [ip \in {i1, i2} |-> IF ip = i1 THEN "DE" ELSE "RU"]
=============================================================================
