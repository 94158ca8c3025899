---------------------------- MODULE MCRateLimit ----------------------------
(***************************************************************************)
(* Instances of RateLimit for TLC.                                         *)
(***************************************************************************)
EXTENDS RateLimit, TLC

\* Requests and clients are interchangeable (safety runs only).
Symmetry == Permutations(Requests) \cup Permutations(Clients)
=============================================================================
