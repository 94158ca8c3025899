-------------------------- MODULE MCTokenCookies --------------------------
(***************************************************************************)
(* An instance of TokenCookies for TLC: the names the guards read and      *)
(* configured ones, with and without default lifetimes.                    *)
(***************************************************************************)
EXTENDS TokenCookies, TLC

Symmetry == Permutations(Replies) \cup Permutations(Pairs)

Policy(access, refresh, accessMaxAge, refreshMaxAge) ==
    [accessTokenName   |-> access,       refreshTokenName   |-> refresh,
     accessTokenMaxAge |-> accessMaxAge, refreshTokenMaxAge |-> refreshMaxAge]

SomePolicies ==
    { Policy("access_token", "refresh_token", 1, None),
      Policy("app_access", "app_refresh", 1, 3) }

SomeLifetimes == {None, 0, Invalid}
=============================================================================
