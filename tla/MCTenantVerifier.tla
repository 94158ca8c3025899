------------------------- MODULE MCTenantVerifier -------------------------
(***************************************************************************)
(* Instances of TenantVerifier for TLC.                                    *)
(***************************************************************************)
EXTENDS TenantVerifier, TLC

\* Handlers, users and tenants are interchangeable (safety runs only).
Symmetry == Permutations(Handlers) \cup Permutations(Users) \cup Permutations(Tenants)
=============================================================================
