----------------------- MODULE TenantVerifierProofs -----------------------
(***************************************************************************)
(* Theorems of TenantVerifier, for any users, tenants and number of calls  *)
(* in progress, any time to live and any delay of the cache write.         *)
(***************************************************************************)
EXTENDS TenantVerifier, TLAPS

\* The asserts accept exactly whom the tenant service would not deny now, and
\* otherwise name a reason.
LEMMA AssertMembership ==
    ASSUME NEW u \in Users, NEW t \in Tenants, TypeOK
    PROVE  LET verdict == assertMembershipAllowed(status[t], member[<<u, t>>])
           IN  /\ verdict = "accepted" <=> ~Denied(u, t)
               /\ verdict \in {"accepted"} \cup Denials
BY NoOneAssumption
   DEF assertMembershipAllowed, Denied, TypeOK, Pairs, Statuses, Memberships, Denials

\* The tenant assert accepts exactly when the service would not deny, and
\* otherwise names a reason (assertTenantExistsAndActive).
LEMMA AssertTenant ==
    ASSUME NEW t \in Tenants, TypeOK
    PROVE  LET verdict == assertTenantExistsAndActive(status[t])
           IN  /\ verdict = "accepted" <=> ~Denied(Anonymous, t)
               /\ verdict \in {"accepted"} \cup Denials
BY DEF assertTenantExistsAndActive, Denied, TypeOK, Statuses, Denials

\* What the store's commands make of a cache entry.
CacheEntries == [val : {"1", Null}, left : 0..CacheTtl]

\* Writing the cache, and time passing, leave well-formed entries that never
\* outlive CACHE_TTL_SECONDS.
LEMMA StoreKeepsEntries ==
    ASSUME NEW e \in CacheEntries
    PROVE  /\ Store!Set("1", CacheTtl) \in CacheEntries
           /\ Store!Set("1", CacheTtl).left = CacheTtl
           /\ Store!Elapse(e) \in CacheEntries
           /\ Store!Exists(Store!Elapse(e)) =>
                 Store!Exists(e) /\ Store!Elapse(e).left = e.left - 1
<1>1. Store!Set("1", CacheTtl) \in CacheEntries /\ Store!Set("1", CacheTtl).left = CacheTtl
      BY TtlAssumption DEF CacheEntries, Store!Set
<1>2. CASE e.left > 1
      BY <1>1, <1>2 DEF CacheEntries, Store!Elapse, Store!Exists
<1>3. CASE e.left = 1
      BY <1>1, <1>3, TtlAssumption DEF CacheEntries, Store!Elapse, Store!Exists, Store!Gone
<1>4. CASE ~(e.left > 1) /\ e.left # 1
      BY <1>1, <1>4 DEF CacheEntries, Store!Elapse, Store!Exists
<1> QED BY <1>2, <1>3, <1>4 DEF CacheEntries
-----------------------------------------------------------------------------
\* A step of one handler leaves the tenant service and the clocks alone.
LEMMA AdvanceType ==
    ASSUME TypeOK, NEW h \in Handlers, Advance(h)
    PROVE  TypeOK'
<1> USE DEF TypeOK, Locations, Denials, Outages
<1>1. ASSUME NEW o \in {"none", "accepted"} \cup Denials \cup Outages, Finish(h, o)
      PROVE  /\ pc' \in [Handlers -> Locations]
             /\ outcome' \in [Handlers -> {"none", "accepted"} \cup Denials \cup Outages]
             /\ lag' \in [Handlers -> 0..MaxLag]
      BY <1>1, TtlAssumption DEF Finish
<1>2. CASE CachedHit(h)
      BY <1>1, <1>2 DEF CachedHit, external
<1>3. CASE ValidateMembership(h)
  <2>1. assertMembershipAllowed(status[input[h].tenantId],
                                member[<<input[h].userId, input[h].tenantId>>])
          \in {"accepted"} \cup Denials
        BY DEF assertMembershipAllowed
  <2> QED BY <1>1, <1>3, <2>1 DEF ValidateMembership, external
<1>4. CASE CachePositive(h)
  <2>1. Store!Set("1", CacheTtl) \in [val : {"1", Null}, left : 0..CacheTtl]
        BY TtlAssumption DEF Store!Set
  <2> QED BY <1>1, <1>4, <2>1 DEF CachePositive, external
<1>5. CASE GetTenant(h)
  <2>1. assertTenantExistsAndActive(status[input[h].tenantId]) \in {"accepted"} \cup Denials
        BY DEF assertTenantExistsAndActive
  <2> QED BY <1>1, <1>5, <2>1 DEF GetTenant, external
<1>6. CASE RpcFails(h)
  <2>1. \A code : MembershipFailure(code) \in Outages /\ TenantFailure(code) \in Denials \cup Outages
        BY DEF MembershipFailure, TenantFailure
  <2> QED BY <1>1, <1>6, <2>1 DEF RpcFails, external
<1> QED BY <1>2, <1>3, <1>4, <1>5, <1>6 DEF Advance

\* Every variable of the verifier stays in its set.
THEOREM TypeCorrect == Spec => []TypeOK
<1>1. Init => TypeOK
      BY TtlAssumption DEF Init, TypeOK, StaleBound, Locations, Store!Gone
<1>2. TypeOK /\ [Next]_vars => TypeOK'
  <2> SUFFICES ASSUME TypeOK, [Next]_vars PROVE TypeOK'
      OBVIOUS
  <2>1. CASE UNCHANGED vars
        BY <2>1 DEF TypeOK, vars, external, handler
  <2>2. CASE Tick
    <3>1. cache' \in [Pairs -> CacheEntries]
          BY <2>2, StoreKeepsEntries DEF Tick, TypeOK, CacheEntries
    <3>2. lag' \in [Handlers -> 0..MaxLag]
          BY <2>2, TtlAssumption DEF Tick, TypeOK
    <3>3. since' \in [Pairs -> 0..StaleBound]
          BY <2>2, TtlAssumption DEF Tick, TypeOK, StaleBound
    <3> QED BY <2>2, <3>1, <3>2, <3>3 DEF Tick, TypeOK, CacheEntries, external
  <2>3. CASE Change
    <3>1. status' \in [Tenants -> Statuses] /\ member' \in [Pairs -> Memberships]
          BY <2>3 DEF Change, TypeOK
    <3>2. since' \in [Pairs -> 0..StaleBound]
          BY <2>3, TtlAssumption DEF Change, TypeOK, StaleBound
    <3>3. doubted' \in [Handlers -> BOOLEAN]
          BY <2>3 DEF Change, TypeOK
    <3> QED BY <2>3, <3>1, <3>2, <3>3 DEF Change, TypeOK, handler
  <2>4. ASSUME NEW h \in Handlers, Verify(h) PROVE TypeOK'
    <3>1. PICK u \in Users \cup {Anonymous}, t \in Tenants :
            /\ input'   = [input EXCEPT ![h] = [userId |-> u, tenantId |-> t]]
            /\ doubted' = [doubted EXCEPT ![h] = Denied(u, t)]
            /\ pc'      = [pc EXCEPT ![h] = IF u = Anonymous THEN "getTenant" ELSE "cachedHit"]
          BY <2>4 DEF Verify
    <3>2. Denied(u, t) \in BOOLEAN
          BY DEF Denied
    <3>3. doubted' \in [Handlers -> BOOLEAN]
          BY <3>1, <3>2 DEF TypeOK
    <3>4. input' \in [Handlers -> [userId : Users \cup {Anonymous}, tenantId : Tenants]]
          BY <3>1 DEF TypeOK
    <3>5. pc' \in [Handlers -> Locations]
          BY <3>1 DEF TypeOK, Locations
    <3>6. outcome' \in [Handlers -> {"none", "accepted"} \cup Denials \cup Outages]
          BY <2>4 DEF Verify, TypeOK
    <3> QED BY <2>4, <3>3, <3>4, <3>5, <3>6 DEF Verify, TypeOK, external
  <2> QED BY <2>1, <2>2, <2>3, <2>4, AdvanceType DEF Next
<1> QED BY <1>1, <1>2, PTL DEF Spec
-----------------------------------------------------------------------------
\* The inductive invariant: besides FreshInv, a handler asks about the kind of
\* caller its path is for, a pair that is not denied was just allowed, and a
\* denial that holds during a call is remembered.
PathInv ==
    \A h \in Handlers :
        /\ pc[h] \in {"cachedHit", "validateMembership", "cachePositive"} => input[h].userId \in Users
        /\ pc[h] = "getTenant" => input[h].userId = Anonymous

AllowedNow == \A u \in Users, t \in Tenants : ~Denied(u, t) => since[<<u, t>>] = 0

DoubtInv ==
    \A h \in Handlers :
        pc[h] # "idle" /\ Denied(input[h].userId, input[h].tenantId) => doubted[h]

Inv == TypeOK /\ PathInv /\ AllowedNow /\ DoubtInv /\ FreshInv /\ DenialsJustified

\* The invariant holds before the first call, with an empty cache.
LEMMA InvInit == ASSUME Init PROVE Inv
<1>1. TypeOK
      BY TtlAssumption DEF Init, TypeOK, StaleBound, Locations, Store!Gone
<1>2. PathInv /\ DoubtInv /\ DenialsJustified
      BY DEF Init, PathInv, DoubtInv, DenialsJustified, Denials
<1>3. AllowedNow
  <2> SUFFICES ASSUME NEW u \in Users, NEW t \in Tenants, ~Denied(u, t)
               PROVE  since[<<u, t>>] = 0
      BY DEF AllowedNow
  <2>1. <<u, t>> \in Pairs /\ <<u, t>>[1] = u /\ <<u, t>>[2] = t
        BY DEF Pairs
  <2> QED BY <2>1 DEF Init
<1>4. FreshInv
      BY DEF Init, FreshInv, Store!Gone, Store!Exists
<1> QED BY <1>1, <1>2, <1>3, <1>4 DEF Inv

\* A denial that the service or the code names while a call is in progress.
LEMMA FinishDoubted ==
    ASSUME Inv, NEW h \in Handlers, NEW o, Finish(h, o), pc[h] # "idle",
           o \in Denials => Denied(input[h].userId, input[h].tenantId),
           UNCHANGED doubted
    PROVE  DenialsJustified'
BY DEF Inv, TypeOK, DenialsJustified, DoubtInv, Finish

\* Whatever a handler answers in a step, a denial among it was true during the
\* call.
LEMMA AdvanceDenials ==
    ASSUME Inv, NEW h \in Handlers, Advance(h)
    PROVE  DenialsJustified'
<1> USE DEF Inv
<1>1. CASE CachedHit(h)
  <2>1. CASE Finish(h, "accepted")
        BY <1>1, <2>1, FinishDoubted DEF CachedHit, Denials
  <2>2. CASE UNCHANGED outcome
        BY <1>1, <2>2 DEF CachedHit, DenialsJustified
  <2> QED BY <1>1, <2>1, <2>2 DEF CachedHit
<1>2. CASE ValidateMembership(h)
  <2> DEFINE u == input[h].userId
             t == input[h].tenantId
             verdict == assertMembershipAllowed(status[t], member[<<u, t>>])
  <2>1. u \in Users /\ t \in Tenants
        BY <1>2 DEF ValidateMembership, PathInv, TypeOK
  <2>2. CASE verdict = "accepted"
        BY <1>2, <2>2 DEF ValidateMembership, DenialsJustified
  <2>3. CASE verdict # "accepted"
    <3>1. Finish(h, verdict) /\ UNCHANGED doubted /\ pc[h] # "idle"
          BY <1>2, <2>3 DEF ValidateMembership
    <3>2. Denied(u, t)
          BY <2>1, <2>3, AssertMembership
    <3> HIDE DEF verdict
    <3> QED BY <3>1, <3>2, FinishDoubted
  <2> QED BY <2>2, <2>3
<1>3. CASE CachePositive(h)
      BY <1>3, FinishDoubted DEF CachePositive, Denials
<1>4. CASE GetTenant(h)
  <2> DEFINE t == input[h].tenantId
             verdict == assertTenantExistsAndActive(status[t])
  <2>1. Finish(h, verdict) /\ UNCHANGED doubted /\ pc[h] # "idle" /\ t \in Tenants
        /\ input[h].userId = Anonymous
        BY <1>4 DEF GetTenant, PathInv, TypeOK
  <2>2. verdict \in Denials => Denied(input[h].userId, t)
        BY <2>1, AssertTenant DEF Denials
  <2> HIDE DEF verdict
  <2> QED BY <2>1, <2>2, FinishDoubted
<1>5. CASE RpcFails(h)
  <2> PICK code \in Codes :
        /\ \/ /\ pc[h] = "validateMembership"
              /\ ServiceFaulty
              /\ Finish(h, MembershipFailure(code))
           \/ /\ pc[h] = "getTenant"
              /\ IF code = "NOT_FOUND" THEN status[input[h].tenantId] = "missing"
                                       ELSE ServiceFaulty
              /\ Finish(h, TenantFailure(code))
        /\ UNCHANGED doubted
      BY <1>5 DEF RpcFails
  <2>1. CASE pc[h] = "validateMembership" /\ Finish(h, MembershipFailure(code))
    <3>1. MembershipFailure(code) \notin Denials
          BY DEF MembershipFailure, Denials
    <3> QED BY <2>1, <3>1, FinishDoubted
  <2>2. CASE /\ pc[h] = "getTenant"
             /\ code = "NOT_FOUND" => status[input[h].tenantId] = "missing"
             /\ Finish(h, TenantFailure(code))
    <3>1. TenantFailure(code) \in Denials => code = "NOT_FOUND"
          BY DEF TenantFailure, Denials
    <3>2. input[h].userId = Anonymous
          BY <2>2 DEF PathInv
    <3>3. TenantFailure(code) \in Denials => Denied(input[h].userId, input[h].tenantId)
          BY <2>2, <3>1, <3>2 DEF Denied
    <3> QED BY <2>2, <3>3, FinishDoubted
  <2> QED BY <2>1, <2>2
<1> QED BY <1>1, <1>2, <1>3, <1>4, <1>5 DEF Advance

\* A handler's step keeps the ages: what it writes to the cache was just, or at
\* most its own lag ago, allowed.
LEMMA AdvanceFresh ==
    ASSUME Inv, NEW h \in Handlers, Advance(h)
    PROVE  FreshInv' /\ AllowedNow' /\ PathInv' /\ DoubtInv'
<1> USE DEF Inv
<1>1. UNCHANGED <<status, member, since, doubted, input, caching>>
      BY DEF Advance, CachedHit, ValidateMembership, CachePositive, GetTenant, RpcFails, external
<1>2. AllowedNow'
      BY <1>1 DEF AllowedNow, Denied
<1>3. \A g \in Handlers \ {h} : pc'[g] = pc[g] /\ lag'[g] = lag[g]
      BY DEF Advance, CachedHit, ValidateMembership, CachePositive, GetTenant, RpcFails,
             Finish, TypeOK
<1>4. \/ pc'[h] = "idle"
      \/ pc[h] = "cachedHit" /\ pc'[h] = "validateMembership"
      \/ pc[h] = "validateMembership" /\ pc'[h] = "cachePositive" /\ ValidateMembership(h)
      BY DEF Advance, CachedHit, ValidateMembership, CachePositive, GetTenant, RpcFails,
             Finish, TypeOK
<1>5. PathInv'
      BY <1>1, <1>3, <1>4 DEF PathInv
<1>6. DoubtInv'
      BY <1>1, <1>3, <1>4 DEF DoubtInv, Denied
<1>7. ASSUME NEW g \in Handlers, pc'[g] = "cachePositive"
      PROVE  since[<<input[g].userId, input[g].tenantId>>] <= lag'[g]
  <2>1. CASE g # h
        BY <1>3, <1>7, <2>1 DEF FreshInv
  <2>2. CASE g = h
    <3> DEFINE u == input[h].userId
               t == input[h].tenantId
               verdict == assertMembershipAllowed(status[t], member[<<u, t>>])
    <3>1. ValidateMembership(h) /\ u \in Users /\ t \in Tenants
          BY <1>4, <1>7, <2>2 DEF PathInv, TypeOK
    <3>2. verdict = "accepted" /\ lag' = lag
          BY <1>7, <2>2, <3>1 DEF ValidateMembership, Finish, TypeOK
    <3>3. since[<<u, t>>] = 0
          BY <3>1, <3>2, AssertMembership DEF AllowedNow
    <3>4. lag[h] \in 0..MaxLag
          BY DEF TypeOK
    <3> QED BY <2>2, <3>2, <3>3, <3>4, TtlAssumption
  <2> QED BY <2>1, <2>2
<1>8. ASSUME NEW p \in Pairs, Store!Exists(cache'[p])
      PROVE  since[p] <= (CacheTtl - cache'[p].left) + MaxLag
  <2>1. CASE cache'[p] = cache[p]
        BY <1>8, <2>1 DEF FreshInv
  <2>2. CASE cache'[p] # cache[p]
    <3>1. CachePositive(h)
          BY <2>2 DEF Advance, CachedHit, ValidateMembership, GetTenant, RpcFails
    <3>2. cache' = [cache EXCEPT ![Key(h)] = Store!Set("1", CacheTtl)]
          BY <2>2, <3>1 DEF CachePositive
    <3>3. p = Key(h) /\ cache'[p] = Store!Set("1", CacheTtl)
          BY <2>2, <3>2 DEF TypeOK
    <3>4. cache'[p].left = CacheTtl
          BY <3>3 DEF Store!Set
    <3>5. since[p] <= lag[h] /\ lag[h] \in 0..MaxLag /\ since[p] \in 0..StaleBound
          BY <3>1, <3>3 DEF CachePositive, FreshInv, Key, cacheKey, TypeOK
    <3> QED BY <3>4, <3>5, TtlAssumption DEF StaleBound
  <2> QED BY <2>1, <2>2
<1>9. FreshInv'
      BY <1>1, <1>7, <1>8 DEF FreshInv
<1> QED BY <1>2, <1>5, <1>6, <1>9

\* Time ages the cache entries and the service's answers together.
LEMMA TickInv ==
    ASSUME Inv, Tick
    PROVE  FreshInv' /\ AllowedNow' /\ PathInv' /\ DoubtInv' /\ DenialsJustified'
<1> USE DEF Inv
<1>1. UNCHANGED <<status, member, pc, input, outcome, doubted>>
      BY DEF Tick, external
<1>2. PathInv' /\ DoubtInv' /\ DenialsJustified'
      BY <1>1 DEF PathInv, DoubtInv, DenialsJustified, Denied
<1>3. AllowedNow'
  <2> SUFFICES ASSUME NEW u \in Users, NEW t \in Tenants, ~Denied(u, t)
               PROVE  since'[<<u, t>>] = 0
      BY <1>1 DEF AllowedNow, Denied
  <2>1. <<u, t>> \in Pairs /\ <<u, t>>[1] = u /\ <<u, t>>[2] = t
        BY DEF Pairs
  <2> QED BY <2>1 DEF Tick, AllowedNow
<1>4. \A p \in Pairs : since'[p] <= since[p] + 1 /\ since[p] \in Nat /\ since'[p] \in Nat
      BY TtlAssumption DEF Tick, TypeOK, StaleBound
<1>5. ASSUME NEW p \in Pairs, Store!Exists(cache'[p])
      PROVE  since'[p] <= (CacheTtl - cache'[p].left) + MaxLag
  <2>1. cache[p] \in CacheEntries /\ cache'[p] = Store!Elapse(cache[p])
        BY DEF Tick, TypeOK, CacheEntries
  <2>2. Store!Exists(cache[p]) /\ cache'[p].left = cache[p].left - 1
        BY <1>5, <2>1, StoreKeepsEntries
  <2>3. since[p] <= (CacheTtl - cache[p].left) + MaxLag /\ cache[p].left \in 0..CacheTtl
        BY <2>1, <2>2 DEF FreshInv, CacheEntries
  <2> QED BY <1>4, <2>2, <2>3, TtlAssumption
<1>6. ASSUME NEW h \in Handlers, pc[h] = "cachePositive"
      PROVE  since'[<<input[h].userId, input[h].tenantId>>] <= lag'[h]
  <2>1. <<input[h].userId, input[h].tenantId>> \in Pairs
        BY <1>6 DEF PathInv, TypeOK, Pairs
  <2>2. lag'[h] = lag[h] + 1 /\ lag[h] \in Nat
        BY <1>6, TtlAssumption DEF Tick, TypeOK
  <2> QED BY <1>4, <1>6, <2>1, <2>2 DEF FreshInv
<1>7. FreshInv'
      BY <1>1, <1>5, <1>6 DEF FreshInv
<1> QED BY <1>2, <1>3, <1>7

\* A revocation or a suspension restarts the age of the last acceptance, and
\* puts every call in progress in doubt.
LEMMA ChangeInv ==
    ASSUME Inv, Change
    PROVE  FreshInv' /\ AllowedNow' /\ PathInv' /\ DoubtInv' /\ DenialsJustified'
<1> USE DEF Inv
<1>1. UNCHANGED <<cache, pc, input, outcome, lag>>
      BY DEF Change, handler
<1>2. PathInv'
      BY <1>1 DEF PathInv
<1>3. \A p \in Pairs : since'[p] \in {since[p], 0} /\ since[p] \in Nat
      BY TtlAssumption DEF Change, TypeOK, StaleBound
<1>4. AllowedNow'
  <2> SUFFICES ASSUME NEW u \in Users, NEW t \in Tenants, ~Denied(u, t)'
               PROVE  since'[<<u, t>>] = 0
      BY DEF AllowedNow
  <2>1. <<u, t>> \in Pairs /\ <<u, t>>[1] = u /\ <<u, t>>[2] = t
        BY DEF Pairs
  <2> QED BY <2>1 DEF Change
<1>5. \A h \in Handlers : doubted[h] => doubted'[h]
      BY DEF Change
<1>6. DoubtInv'
      BY <1>1 DEF Change, DoubtInv
<1>7. DenialsJustified'
      BY <1>1, <1>5 DEF DenialsJustified
<1>8. ASSUME NEW p \in Pairs, Store!Exists(cache[p])
      PROVE  since'[p] <= (CacheTtl - cache[p].left) + MaxLag
  <2>1. since[p] <= (CacheTtl - cache[p].left) + MaxLag /\ cache[p].left \in 0..CacheTtl
        BY <1>8 DEF FreshInv, TypeOK
  <2> QED BY <1>3, <2>1, TtlAssumption
<1>9. ASSUME NEW h \in Handlers, pc[h] = "cachePositive"
      PROVE  since'[<<input[h].userId, input[h].tenantId>>] <= lag[h]
  <2>1. <<input[h].userId, input[h].tenantId>> \in Pairs
        BY <1>9 DEF PathInv, TypeOK, Pairs
  <2>2. lag[h] \in Nat
        BY TtlAssumption DEF TypeOK
  <2> QED BY <1>3, <1>9, <2>1, <2>2 DEF FreshInv
<1>10. FreshInv'
      BY <1>1, <1>8, <1>9 DEF FreshInv
<1> QED BY <1>2, <1>4, <1>6, <1>7, <1>10

\* A new call starts without doubts and without an answer.
LEMMA VerifyInv ==
    ASSUME Inv, NEW h \in Handlers, Verify(h)
    PROVE  FreshInv' /\ AllowedNow' /\ PathInv' /\ DoubtInv' /\ DenialsJustified'
<1> USE DEF Inv
<1>1. PICK u \in Users \cup {Anonymous}, t \in Tenants :
        /\ input'   = [input EXCEPT ![h] = [userId |-> u, tenantId |-> t]]
        /\ doubted' = [doubted EXCEPT ![h] = Denied(u, t)]
        /\ pc'      = [pc EXCEPT ![h] = IF u = Anonymous THEN "getTenant" ELSE "cachedHit"]
      BY DEF Verify
<1>2. UNCHANGED <<cache, status, member, lag, since>> /\ outcome' = [outcome EXCEPT ![h] = "none"]
      BY DEF Verify, external
<1>3. \A g \in Handlers \ {h} : /\ pc'[g] = pc[g] /\ input'[g] = input[g]
                                /\ doubted'[g] = doubted[g] /\ outcome'[g] = outcome[g]
      BY <1>1, <1>2 DEF TypeOK
<1>4. /\ input'[h] = [userId |-> u, tenantId |-> t]
      /\ pc'[h] = IF u = Anonymous THEN "getTenant" ELSE "cachedHit"
      /\ outcome'[h] = "none"
      BY <1>1, <1>2 DEF TypeOK
<1>5. doubted'[h] = Denied(u, t)
      BY <1>1 DEF TypeOK
<1>6. PathInv'
      BY <1>3, <1>4 DEF PathInv
<1>7. AllowedNow'
      BY <1>2 DEF AllowedNow, Denied
<1>8. DoubtInv'
  <2> SUFFICES ASSUME NEW g \in Handlers, pc'[g] # "idle",
                      Denied(input'[g].userId, input'[g].tenantId)
               PROVE  doubted'[g]
      BY <1>2 DEF DoubtInv, Denied
  <2> QED BY <1>3, <1>4, <1>5 DEF DoubtInv
<1>9. DenialsJustified'
      BY <1>3, <1>4 DEF DenialsJustified, Denials
<1>10. FreshInv'
      BY <1>2, <1>3, <1>4 DEF FreshInv
<1> QED BY <1>6, <1>7, <1>8, <1>9, <1>10

\* Every step keeps the parts of the invariant about the cache and the calls.
LEMMA InvStep == ASSUME Inv, [Next]_vars PROVE FreshInv' /\ AllowedNow' /\ PathInv'
                                                /\ DoubtInv' /\ DenialsJustified'
<1>1. CASE UNCHANGED vars
      BY <1>1 DEF Inv, vars, external, handler, FreshInv, AllowedNow, PathInv, DoubtInv,
                  DenialsJustified, Denied
<1> QED BY <1>1, TickInv, ChangeInv, VerifyInv, AdvanceFresh, AdvanceDenials DEF Next

\* The inductive invariant holds in every reachable state.
LEMMA Invariance == Spec => []Inv
<1>1. TypeOK /\ TypeOK' /\ Inv /\ [Next]_vars => Inv'
      BY InvStep DEF Inv
<1> QED BY InvInit, <1>1, TypeCorrect, PTL DEF Spec
-----------------------------------------------------------------------------
\* A cache entry's age plus one write's delay bounds how long ago its pair was
\* allowed (cachePositive, CACHE_TTL_SECONDS).
THEOREM CacheFresh == Spec => []FreshInv
<1>1. Inv => FreshInv
      BY DEF Inv
<1> QED BY <1>1, Invariance, PTL

\* Whatever the cache holds and whatever fails, a denial was true at some moment
\* of the call (assertMembershipAllowed, assertTenantExistsAndActive).
THEOREM DenialsTrue == Spec => []DenialsJustified
<1>1. Inv => DenialsJustified
      BY DEF Inv
<1> QED BY <1>1, Invariance, PTL

\* Nobody is accepted whom the tenant service has denied for CACHE_TTL_SECONDS
\* and one write's delay.
THEOREM StalenessBounded == Spec => StalenessBound
<1> DEFINE Recent(h) == LET s == since[<<input[h].userId, input[h].tenantId>>]
                        IN  IF caching THEN s < StaleBound ELSE s <= MaxLag
           Step == \A h \in Handlers : Accepts(h) /\ input[h].userId # Anonymous => Recent(h)
<1>1. Inv /\ [Next]_vars => [Step]_vars
  <2> SUFFICES ASSUME Inv, Next, NEW h \in Handlers, Accepts(h), input[h].userId # Anonymous
               PROVE  Recent(h)
      OBVIOUS
  <2> USE DEF Inv
  <2>1. pc[h] # "idle" /\ pc'[h] = "idle" /\ outcome'[h] = "accepted"
        BY DEF Accepts
  <2>2. Advance(h)
    <3>1. ~Tick /\ ~Change
          BY <2>1 DEF Tick, Change, handler
    <3>2. ASSUME NEW g \in Handlers, g # h PROVE ~Verify(g) /\ ~Advance(g)
          BY <2>1, <3>2 DEF Verify, Advance, CachedHit, ValidateMembership, CachePositive,
                            GetTenant, RpcFails, Finish, TypeOK
    <3>3. ~Verify(h)
          BY <2>1 DEF Verify
    <3> QED BY <3>1, <3>2, <3>3 DEF Next
  <2> DEFINE p == <<input[h].userId, input[h].tenantId>>
  <2>3. p \in Pairs /\ since[p] \in 0..StaleBound /\ cache[p].left \in 0..CacheTtl
        BY DEF TypeOK, Pairs
  <2>4. CASE CachedHit(h)
    <3>1. caching /\ Store!Exists(cache[p])
          BY <2>1, <2>4 DEF CachedHit, TypeOK, Key, cacheKey
    <3>2. since[p] <= (CacheTtl - cache[p].left) + MaxLag /\ cache[p].left # 0
          BY <2>3, <3>1 DEF FreshInv, Store!Exists
    <3> QED BY <2>3, <3>1, <3>2, TtlAssumption DEF StaleBound
  <2>5. CASE CachePositive(h)
    <3>1. since[p] <= lag[h] /\ lag[h] \in 0..MaxLag
          BY <2>5 DEF CachePositive, FreshInv, TypeOK
    <3> QED BY <2>3, <3>1, TtlAssumption DEF StaleBound
  <2>6. ~ValidateMembership(h)
        BY <2>1 DEF ValidateMembership, Finish, TypeOK
  <2>7. ~GetTenant(h)
        BY DEF GetTenant, PathInv
  <2>8. ~RpcFails(h)
        BY <2>1 DEF RpcFails, PathInv, Finish, TypeOK, MembershipFailure
  <2> QED BY <2>2, <2>4, <2>5, <2>6, <2>7, <2>8 DEF Advance
<1> QED BY <1>1, Invariance, PTL DEF Spec, StalenessBound
\* A call ends in an outage only if an RPC of the tenant service failed: with the
\* service up, no failure of the cache shows as an error of the server.
THEOREM FaultsHarmless == Spec => []CacheFaultsHarmless
<1> DEFINE Served == ~ServiceFaulty => \A h \in Handlers : outcome[h] \notin Outages
<1>1. Init => Served
      BY DEF Init, Outages
<1>2. TypeOK /\ Served /\ [Next]_vars => Served'
  <2> SUFFICES ASSUME TypeOK, Served, [Next]_vars, ~ServiceFaulty, NEW g \in Handlers
               PROVE  outcome'[g] \notin Outages
      OBVIOUS
  <2>1. CASE UNCHANGED outcome
        BY <2>1
  <2>2. ASSUME NEW h \in Handlers, NEW o, Finish(h, o), o \notin Outages
        PROVE  outcome'[g] \notin Outages
        BY <2>2 DEF Finish, TypeOK
  <2>3. ASSUME NEW h \in Handlers, Verify(h) PROVE outcome'[g] \notin Outages
        BY <2>3 DEF Verify, TypeOK, Outages
  <2>4. ASSUME NEW h \in Handlers, ValidateMembership(h) PROVE outcome'[g] \notin Outages
    <3>1. assertMembershipAllowed(status[input[h].tenantId],
                                  member[<<input[h].userId, input[h].tenantId>>]) \notin Outages
          BY DEF assertMembershipAllowed, Outages
    <3> QED BY <2>1, <2>2, <2>4, <3>1 DEF ValidateMembership
  <2>5. ASSUME NEW h \in Handlers, GetTenant(h) PROVE outcome'[g] \notin Outages
    <3>1. assertTenantExistsAndActive(status[input[h].tenantId]) \notin Outages
          BY DEF assertTenantExistsAndActive, Outages
    <3> QED BY <2>2, <2>5, <3>1 DEF GetTenant
  <2>6. ASSUME NEW h \in Handlers, RpcFails(h) PROVE outcome'[g] \notin Outages
    <3>1. Finish(h, TenantFailure("NOT_FOUND"))
          BY <2>6 DEF RpcFails
    <3>2. TenantFailure("NOT_FOUND") \notin Outages
          BY DEF TenantFailure, Outages
    <3> QED BY <2>2, <3>1, <3>2
  <2>7. ASSUME NEW h \in Handlers, CachedHit(h) \/ CachePositive(h)
        PROVE  outcome'[g] \notin Outages
        BY <2>1, <2>2, <2>7 DEF CachedHit, CachePositive, Outages
  <2> QED BY <2>1, <2>3, <2>4, <2>5, <2>6, <2>7
          DEF Next, Advance, Tick, Change, handler, vars
<1>3. TypeOK /\ Served => CacheFaultsHarmless
      BY DEF CacheFaultsHarmless, TypeOK, httpStatus, Denials, Outages
<1> QED BY <1>1, <1>2, <1>3, TypeCorrect, PTL DEF Spec

-----------------------------------------------------------------------------
\* The verifier as TenantAnswers sees it: whom the tenant service allows, the
\* question of each call and what the last one of each handler was told.
Allowed == {q \in (Users \cup {Anonymous}) \X Tenants : ~Denied(q[1], q[2])}
Asking  == [h \in Handlers |-> IF pc[h] = "idle" THEN {}
                               ELSE {<<input[h].userId, input[h].tenantId>>}]
Told    == [h \in Handlers |-> Verdict(outcome[h])]

\* The pairs of TenantAnswers are those of the verifier, and a question is one to
\* refuse when the tenant service would deny its caller.
LEMMA QuestionDenied ==
    ASSUME NEW u \in Users \cup {Anonymous}, NEW t \in Tenants
    PROVE  /\ <<u, t>> \in Allowed <=> ~Denied(u, t)
           /\ <<u, t>> \in Promise!Questions
           /\ <<u, t>> \in Pairs <=> u # Anonymous
BY NoOneAssumption DEF Allowed, Promise!Questions, Pairs

\* A call that is not over asks about its caller and tenant.
LEMMA CallAsks ==
    ASSUME TypeOK, NEW h \in Handlers, pc[h] # "idle"
    PROVE  Asking[h] = {<<input[h].userId, input[h].tenantId>>}
BY DEF Asking

\* A call that ends takes its question with it and tells its caller the verdict;
\* the other calls go on.
LEMMA FinishAnswers ==
    ASSUME TypeOK, NEW h \in Handlers, NEW o, Finish(h, o), pc[h] # "idle",
           UNCHANGED <<external, input, since, doubted>>
    PROVE  Promise!Answer(h, Verdict(o))
<1>1. Asking[h] # {}
      BY CallAsks
<1>2. Asking' = [Asking EXCEPT ![h] = {}]
  <2>1. ASSUME NEW g \in Handlers PROVE Asking'[g] = [Asking EXCEPT ![h] = {}][g]
        BY DEF Asking, Finish, TypeOK
  <2> QED BY <2>1 DEF Asking
<1>3. Told' = [Told EXCEPT ![h] = Verdict(o)]
  <2>1. ASSUME NEW g \in Handlers PROVE Told'[g] = [Told EXCEPT ![h] = Verdict(o)][g]
        BY DEF Told, Finish, TypeOK
  <2> QED BY <2>1 DEF Told
<1>4. Allowed' = Allowed
      BY DEF Allowed, Denied, external
<1> QED BY <1>1, <1>2, <1>3, <1>4 DEF Promise!Answer, Asking, Told, Allowed

\* A step of a call that neither ends it nor changes what it asked is none for
\* its caller.
LEMMA CallGoesOn ==
    ASSUME TypeOK, NEW h \in Handlers, NEW l \in Locations \ {"idle"},
           pc' = [pc EXCEPT ![h] = l], pc[h] # "idle",
           UNCHANGED <<external, input, outcome, since, doubted>>
    PROVE  UNCHANGED Promise!vars
<1>1. Asking' = Asking
      BY DEF Asking, TypeOK, Locations
<1>2. Told' = Told /\ Allowed' = Allowed
      BY DEF Told, Allowed, Denied, external
<1> QED BY <1>1, <1>2 DEF Promise!vars, Asking, Told, Allowed

\* What a call does is an answer the promise allows, or nothing its caller sees.
LEMMA AdvanceKeepsPromise ==
    ASSUME Inv, NEW h \in Handlers, Advance(h)
    PROVE  [Promise!Next]_(Promise!vars)
<1> USE DEF Inv
<1> DEFINE u == input[h].userId
           t == input[h].tenantId
<1>1. UNCHANGED <<external, input, since, doubted>>
      BY DEF Advance, CachedHit, ValidateMembership, CachePositive, GetTenant, RpcFails
<1>2. pc[h] # "idle" /\ u \in Users \cup {Anonymous} /\ t \in Tenants
      BY DEF Advance, CachedHit, ValidateMembership, CachePositive, GetTenant, RpcFails, TypeOK
<1>3. ASSUME Finish(h, "accepted"),
             IF u = Anonymous THEN ~Denied(u, t) ELSE since[<<u, t>>] < StaleBound
      PROVE  Promise!Next
  <2>1. Promise!Answer(h, "accepted")
        BY <1>1, <1>2, <1>3, FinishAnswers DEF Verdict, Denials, Outages
  <2>2. \A q \in Asking[h] : q = <<u, t>>
        BY <1>2, CallAsks
  <2>3. \A q \in Asking[h] : IF q \in Pairs THEN since[q] < StaleBound ELSE q \in Allowed
        BY <1>2, <1>3, <2>2, QuestionDenied
  <2>4. Promise!Accept(h)
        BY <2>1, <2>3 DEF Promise!Accept, Promise!Pairs, Pairs, Asking, Allowed
  <2> QED BY <2>4 DEF Promise!Next
<1>4. ASSUME NEW o \in Denials, Finish(h, o), Denied(u, t) PROVE Promise!Next
  <2>1. Promise!Answer(h, "refused")
        BY <1>1, <1>2, <1>4, FinishAnswers DEF Verdict, Denials, Outages
  <2>2. doubted[h]
        BY <1>2, <1>4 DEF DoubtInv
  <2> QED BY <2>1, <2>2 DEF Promise!Next, Promise!Refuse
<1>5. ASSUME NEW o \in Outages, Finish(h, o), ServiceFaulty PROVE Promise!Next
  <2>1. Promise!Answer(h, "failed")
        BY <1>1, <1>2, <1>5, FinishAnswers DEF Verdict, Denials, Outages
  <2> QED BY <1>5, <2>1 DEF Promise!Next, Promise!Fail
<1>6. ASSUME NEW l \in Locations \ {"idle"}, pc' = [pc EXCEPT ![h] = l], UNCHANGED outcome
      PROVE  UNCHANGED Promise!vars
      BY <1>1, <1>2, <1>6, CallGoesOn
<1>7. ASSUME u # Anonymous
      PROVE  <<u, t>> \in Pairs /\ since[<<u, t>>] \in 0..StaleBound
             /\ cache[<<u, t>>].left \in 0..CacheTtl
      BY <1>2, <1>7, QuestionDenied DEF TypeOK
<1>8. CASE CachedHit(h)
  <2>1. CASE pc' = [pc EXCEPT ![h] = "validateMembership"] /\ UNCHANGED outcome
        BY <1>6, <2>1 DEF Locations
  <2>2. CASE Store!Exists(cache[Key(h)]) /\ Finish(h, "accepted")
    <3>1. u # Anonymous
          BY <1>8, NoOneAssumption DEF CachedHit, PathInv
    <3>2. since[<<u, t>>] <= (CacheTtl - cache[<<u, t>>].left) + MaxLag
          /\ cache[<<u, t>>].left # 0
          BY <1>7, <2>2, <3>1 DEF FreshInv, Key, cacheKey, Store!Exists
    <3>3. since[<<u, t>>] < StaleBound
          BY <1>7, <3>1, <3>2, TtlAssumption DEF StaleBound
    <3> QED BY <1>3, <2>2, <3>1, <3>3
  <2> QED BY <1>8, <2>1, <2>2 DEF CachedHit
<1>9. CASE ValidateMembership(h)
  <2> DEFINE verdict == assertMembershipAllowed(status[t], member[<<u, t>>])
  <2>1. u \in Users
        BY <1>9 DEF ValidateMembership, PathInv
  <2>2. CASE verdict = "accepted"
        BY <1>6, <1>9, <2>2 DEF ValidateMembership, Locations
  <2>3. CASE verdict # "accepted"
    <3>1. Finish(h, verdict)
          BY <1>9, <2>3 DEF ValidateMembership
    <3>2. verdict \in Denials /\ Denied(u, t)
          BY <1>2, <2>1, <2>3, AssertMembership
    <3> HIDE DEF verdict
    <3> QED BY <1>4, <3>1, <3>2
  <2> QED BY <2>2, <2>3
<1>10. CASE CachePositive(h)
  <2>1. Finish(h, "accepted") /\ u # Anonymous
        BY <1>10, NoOneAssumption DEF CachePositive, PathInv
  <2>2. since[<<u, t>>] <= lag[h] /\ lag[h] \in 0..MaxLag
        BY <1>10 DEF CachePositive, FreshInv, TypeOK
  <2>3. since[<<u, t>>] < StaleBound
        BY <1>7, <2>1, <2>2, TtlAssumption DEF StaleBound
  <2> QED BY <1>3, <2>1, <2>3
<1>11. CASE GetTenant(h)
  <2> DEFINE verdict == assertTenantExistsAndActive(status[t])
  <2>1. Finish(h, verdict) /\ u = Anonymous
        BY <1>11 DEF GetTenant, PathInv
  <2>2. verdict \in {"accepted"} \cup Denials /\ (verdict = "accepted" <=> ~Denied(u, t))
        BY <1>2, <2>1, AssertTenant
  <2> HIDE DEF verdict
  <2> QED BY <1>3, <1>4, <2>1, <2>2
<1>12. CASE RpcFails(h)
  <2> PICK code \in Codes :
        \/ ServiceFaulty /\ Finish(h, MembershipFailure(code))
        \/ /\ pc[h] = "getTenant"
           /\ IF code = "NOT_FOUND" THEN status[t] = "missing" ELSE ServiceFaulty
           /\ Finish(h, TenantFailure(code))
      BY <1>12 DEF RpcFails
  <2>1. CASE ServiceFaulty /\ Finish(h, MembershipFailure(code))
    <3>1. MembershipFailure(code) \in Outages
          BY DEF MembershipFailure, Outages
    <3> QED BY <1>5, <2>1, <3>1
  <2>2. CASE code = "NOT_FOUND" /\ status[t] = "missing" /\ Finish(h, TenantFailure(code))
    <3>1. TenantFailure(code) \in Denials /\ Denied(u, t)
          BY <2>2 DEF TenantFailure, Denials, Denied
    <3> QED BY <1>4, <2>2, <3>1
  <2>3. CASE code # "NOT_FOUND" /\ ServiceFaulty /\ Finish(h, TenantFailure(code))
    <3>1. TenantFailure(code) \in Outages
          BY <2>3 DEF TenantFailure, Outages
    <3> QED BY <1>5, <2>3, <3>1
  <2> QED BY <2>1, <2>2, <2>3
<1> QED BY <1>8, <1>9, <1>10, <1>11, <1>12 DEF Advance

\* A call of verify asks one question, in doubt from the start if its caller is
\* denied.
LEMMA VerifyAsks ==
    ASSUME TypeOK, NEW h \in Handlers, Verify(h)
    PROVE  Promise!Ask(h)
<1>1. PICK u \in Users \cup {Anonymous}, t \in Tenants :
        /\ input'   = [input EXCEPT ![h] = [userId |-> u, tenantId |-> t]]
        /\ doubted' = [doubted EXCEPT ![h] = Denied(u, t)]
        /\ pc'      = [pc EXCEPT ![h] = IF u = Anonymous THEN "getTenant" ELSE "cachedHit"]
      BY DEF Verify
<1>2. Asking[h] = {}
      BY DEF Verify, Asking
<1>3. Asking' = [Asking EXCEPT ![h] = {<<u, t>>}]
  <2>1. ASSUME NEW g \in Handlers PROVE Asking'[g] = [Asking EXCEPT ![h] = {<<u, t>>}][g]
        BY <1>1 DEF Asking, TypeOK
  <2> QED BY <2>1 DEF Asking
<1>4. Told' = [Told EXCEPT ![h] = "none"]
  <2>1. Verdict("none") = "none"
        BY DEF Verdict, Denials, Outages
  <2>2. ASSUME NEW g \in Handlers PROVE Told'[g] = [Told EXCEPT ![h] = "none"][g]
        BY <2>1 DEF Verify, Told, TypeOK
  <2> QED BY <2>2 DEF Told
<1>5. Allowed' = Allowed /\ UNCHANGED since
      BY DEF Verify, Allowed, Denied, external
<1>6. <<u, t>> \in Promise!Questions
      BY QuestionDenied
<1>7. doubted' = [doubted EXCEPT ![h] = <<u, t>> \notin Allowed]
  <2>1. Denied(u, t) \in BOOLEAN
        BY DEF Denied
  <2>2. Denied(u, t) = (<<u, t>> \notin Allowed)
        BY <2>1, QuestionDenied
  <2> HIDE DEF Allowed
  <2> QED BY <1>1, <2>2
<1> QED BY <1>2, <1>3, <1>4, <1>5, <1>6, <1>7 DEF Promise!Ask, Asking, Told, Allowed

\* A tick ages what nobody is allowed any more, and is nothing else to callers.
LEMMA TickAges ==
    ASSUME TypeOK, Tick
    PROVE  Promise!Tick
<1>1. UNCHANGED <<Asking, Told, Allowed, doubted>>
      BY DEF Tick, Asking, Told, Allowed, Denied, external
<1>2. ASSUME NEW p \in Pairs
      PROVE  since'[p] = IF p \in Allowed \/ since[p] = StaleBound THEN since[p] ELSE since[p] + 1
  <2>1. p \in Allowed <=> ~Denied(p[1], p[2])
        BY DEF Allowed, Pairs
  <2>2. since[p] \in 0..StaleBound /\ StaleBound \in Nat
        BY TtlAssumption DEF TypeOK, StaleBound
  <2> QED BY <2>1, <2>2 DEF Tick
<1>3. since' = [p \in Promise!Pairs |-> IF p \in Allowed \/ since[p] = StaleBound
                                         THEN since[p] ELSE since[p] + 1]
      BY <1>2 DEF Tick, Promise!Pairs, Pairs
<1> QED BY <1>1, <1>3 DEF Promise!Tick, Asking, Told, Allowed

\* A change at the tenant service is one of whom it allows.
LEMMA ChangeChanges ==
    ASSUME TypeOK, Change
    PROVE  Promise!Change
<1>1. UNCHANGED <<Asking, Told>>
      BY DEF Change, handler, Asking, Told
<1>2. Allowed' \in SUBSET Promise!Questions
      BY DEF Allowed, Promise!Questions
<1>3. since' = [p \in Promise!Pairs |-> IF p \in Allowed' THEN 0 ELSE since[p]]
  <2>1. ASSUME NEW p \in Pairs PROVE p \in Allowed' <=> ~Denied(p[1], p[2])'
        BY DEF Allowed, Pairs
  <2> QED BY <2>1 DEF Change, Promise!Pairs, Pairs
<1>4. doubted' = [h \in Handlers |-> doubted[h] \/ \E q \in Asking[h] : q \notin Allowed']
  <2>1. ASSUME NEW h \in Handlers
        PROVE  (\E q \in Asking[h] : q \notin Allowed')
               <=> pc[h] # "idle" /\ Denied(input[h].userId, input[h].tenantId)'
    <3>1. input' = input /\ input[h].userId \in Users \cup {Anonymous}
          /\ input[h].tenantId \in Tenants
          BY DEF Change, handler, TypeOK
    <3>2. CASE pc[h] = "idle"
          BY <3>2 DEF Asking
    <3>3. CASE pc[h] # "idle"
      <4>1. Asking[h] = {<<input[h].userId, input[h].tenantId>>}
            BY <3>3, CallAsks
      <4>2. <<input[h].userId, input[h].tenantId>> \in Allowed'
            <=> ~Denied(input[h].userId, input[h].tenantId)'
            BY <3>1 DEF Allowed
      <4> QED BY <3>3, <4>1, <4>2
    <3> QED BY <3>2, <3>3
  <2> QED BY <2>1 DEF Change
<1> QED BY <1>1, <1>2, <1>3, <1>4 DEF Promise!Change, Asking, Told, Allowed

\* The verifier, with its cache, its keys and its RPCs, keeps the promise of
\* TenantAnswers: its first states are some of the promise's, and every step is
\* one of the promise's or nothing its callers see.
THEOREM PromiseKept == Spec => ImplementsTenantAnswers
<1>1. Init => Promise!Init
  <2> SUFFICES ASSUME Init PROVE Promise!Init
      OBVIOUS
  <2>1. Allowed \in SUBSET Promise!Questions
        BY DEF Allowed, Promise!Questions
  <2>2. since = [p \in Promise!Pairs |-> IF p \in Allowed THEN 0 ELSE StaleBound]
    <3>1. ASSUME NEW p \in Pairs PROVE p \in Allowed <=> ~Denied(p[1], p[2])
          BY DEF Allowed, Pairs
    <3> QED BY <3>1 DEF Init, Promise!Pairs, Pairs
  <2>3. Asking = [h \in Handlers |-> {}]
        BY DEF Init, Asking
  <2>4. Told = [h \in Handlers |-> "none"]
        BY DEF Init, Told, Verdict, Denials, Outages
  <2>5. doubted = [h \in Handlers |-> FALSE]
        BY DEF Init
  <2> QED BY <2>1, <2>2, <2>3, <2>4, <2>5 DEF Promise!Init, Asking, Told, Allowed
<1>2. Inv /\ [Next]_vars => [Promise!Next]_(Promise!vars)
  <2> SUFFICES ASSUME Inv, [Next]_vars PROVE [Promise!Next]_(Promise!vars)
      OBVIOUS
  <2> USE DEF Inv
  <2>1. CASE UNCHANGED vars
    <3>1. UNCHANGED <<Asking, Told, Allowed, since, doubted>>
          BY <2>1 DEF vars, external, handler, Asking, Told, Allowed, Denied
    <3> QED BY <3>1 DEF Promise!vars, Asking, Told, Allowed
  <2>2. CASE Tick
        BY <2>2, TickAges DEF Promise!Next
  <2>3. CASE Change
        BY <2>3, ChangeChanges DEF Promise!Next
  <2>4. ASSUME NEW h \in Handlers, Verify(h) PROVE Promise!Next
        BY <2>4, VerifyAsks DEF Promise!Next
  <2> QED BY <2>1, <2>2, <2>3, <2>4, AdvanceKeepsPromise DEF Next
<1> QED BY <1>1, <1>2, Invariance, PTL DEF Spec, ImplementsTenantAnswers, Promise!Spec
=============================================================================
