--------------------------- MODULE MCRiskMemory ---------------------------
(***************************************************************************)
(* Instances of RiskMemory for TLC.                                        *)
(***************************************************************************)
EXTENDS RiskMemory, TLC

\* Reports, users, addresses and devices are interchangeable.
Symmetry == Permutations(Reports) \cup Permutations(Users)
              \cup Permutations(Ips) \cup Permutations(Devices)
=============================================================================
