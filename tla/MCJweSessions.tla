--------------------------- MODULE MCJweSessions ---------------------------
(***************************************************************************)
(* Instances of JweSessions for TLC: two rotations in a row, each adding a *)
(* key, promoting it and dropping the old one.                             *)
(***************************************************************************)
EXTENDS JweSessions, TLC

TwoRotations ==
    << <<"k1">>, <<"k1", "k2">>, <<"k2", "k1">>, <<"k2">>,
       <<"k2", "k3">>, <<"k3", "k2">>, <<"k3">> >>

Symmetry == Permutations(Instances)
=============================================================================
