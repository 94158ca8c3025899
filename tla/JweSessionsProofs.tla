------------------------- MODULE JweSessionsProofs -------------------------
(***************************************************************************)
(* Theorems of JweSessions, for any number of instances, sessions and      *)
(* stored tokens, any schedule of keyrings that keeps the discipline of    *)
(* ScheduleAssumption, and any times that keep TimeAssumption.             *)
(***************************************************************************)
EXTENDS JweSessions, TLAPS

\* What an issued session holds.
Auths    == [by : Instances, age : 0..MaxAuthAge]
Sessioned == [key : Keys \cup {NoKey}, by : Instances, age : 0..OldAge, auth : Auths]
Entries  == [val : Keys \cup {NoKey}, left : 0..StoreTtl \cup {Store!Forever}]

\* Every ring of the schedule is a sequence of keys with a first one.
LEMMA Rings ==
    ASSUME NEW n \in Ring
    PROVE  /\ Ring = 1..Len(Schedule) /\ Len(Schedule) \in Nat \ {0}
           /\ Schedule[n] \in Seq(Keys)
           /\ 1 \in DOMAIN Schedule[n]
           /\ getActive(Schedule[n]) = Schedule[n][1] /\ Schedule[n][1] \in Keys
<1>1. Ring = 1..Len(Schedule) /\ Len(Schedule) \in Nat \ {0}
      BY ScheduleAssumption DEF Ring
<1>2. Schedule[n] \in Seq(Keys) /\ Schedule[n] # <<>>
      BY ScheduleAssumption DEF Ring
<1>3. 1 \in DOMAIN Schedule[n]
      BY <1>2
<1> QED BY <1>1, <1>2, <1>3 DEF getActive

\* A client's session as issue makes it (SecureSessionService.issue).
LEMMA IssueType ==
    ASSUME TypeOK, NEW i \in Instances, NEW t \in Sessions, NEW given,
           given \in Auths \cup {NotGiven}, issue(i, t, given)
    PROVE  session' \in [Sessions -> Sessioned]
<1>1. getActive(keyring(i)) \in Keys
      BY Rings DEF TypeOK, keyring
<1>2. authenticatedAt(given, i) \in Auths
      BY TimeAssumption DEF authenticatedAt, Auths
<1>3. OldAge \in Nat
      BY TimeAssumption DEF OldAge
<1> QED BY <1>1, <1>2, <1>3 DEF issue, TypeOK, Sessioned, Auths

\* What a tick makes of a session and of a stored token.
LEMMA TickType ==
    ASSUME TypeOK, Tick
    PROVE  /\ session' \in [Sessions -> Sessioned]
           /\ \A t \in Sessions :
                 /\ session'[t].key = session[t].key /\ session'[t].by = session[t].by
                 /\ session'[t].age = IF session[t].age < OldAge
                                        THEN session[t].age + 1 ELSE session[t].age
                 /\ session'[t].auth.by = session[t].auth.by
                 /\ session'[t].auth.age = Older(session[t].auth.age)
           /\ stored' \in [StoreKeys -> Entries]
           /\ \A k \in StoreKeys :
                 /\ stored[k].left = Store!Forever <=> stored'[k].left = Store!Forever
                 /\ Store!Exists(stored'[k]) => Store!Exists(stored[k])
                 /\ Store!Exists(stored'[k]) /\ stored[k].left # Store!Forever =>
                       stored'[k].val = stored[k].val /\ stored'[k].left = stored[k].left - 1
<1>1. ASSUME NEW t \in Sessions
      PROVE  /\ session'[t] \in Sessioned
             /\ session'[t].key = session[t].key /\ session'[t].by = session[t].by
             /\ session'[t].age = IF session[t].age < OldAge
                                    THEN session[t].age + 1 ELSE session[t].age
             /\ session'[t].auth.by = session[t].auth.by
             /\ session'[t].auth.age = Older(session[t].auth.age)
  <2>1. session[t] \in Sessioned
        BY DEF TypeOK, Sessioned, Auths
  <2>2. session'[t] = [session[t] EXCEPT !.age = IF @ < OldAge THEN @ + 1 ELSE @,
                                         !.auth.age = Older(@)]
        BY DEF Tick
  <2>3. session'[t] = [key  |-> session[t].key, by |-> session[t].by,
                       age  |-> IF session[t].age < OldAge
                                  THEN session[t].age + 1 ELSE session[t].age,
                       auth |-> [by |-> session[t].auth.by, age |-> Older(session[t].auth.age)]]
        BY <2>1, <2>2 DEF Sessioned, Auths
  <2>4. Older(session[t].auth.age) \in 0..MaxAuthAge
        BY <2>1, TimeAssumption DEF Sessioned, Auths, Older
  <2>5. OldAge \in Nat
        BY TimeAssumption DEF OldAge
  <2> QED BY <2>1, <2>3, <2>4, <2>5 DEF Sessioned, Auths
<1>2. ASSUME NEW k \in StoreKeys
      PROVE  /\ stored'[k] \in Entries
             /\ stored[k].left = Store!Forever <=> stored'[k].left = Store!Forever
             /\ Store!Exists(stored'[k]) => Store!Exists(stored[k])
             /\ Store!Exists(stored'[k]) /\ stored[k].left # Store!Forever =>
                   stored'[k].val = stored[k].val /\ stored'[k].left = stored[k].left - 1
  <2>1. stored[k] \in Entries /\ stored'[k] = Store!Elapse(stored[k])
        BY DEF TypeOK, Tick, Entries
  <2>2. CASE stored[k].left > 1
        BY <2>1, <2>2, TimeAssumption DEF Entries, Store!Elapse, Store!Exists, Store!Forever
  <2>3. CASE stored[k].left = 1
        BY <2>1, <2>3, TimeAssumption
           DEF Entries, Store!Elapse, Store!Exists, Store!Forever, Store!Gone
  <2>4. CASE ~(stored[k].left > 1) /\ stored[k].left # 1
    <3>1. stored'[k] = stored[k]
          BY <2>1, <2>4 DEF Store!Elapse
    <3>2. stored[k].left \in {0, Store!Forever}
          BY <2>1, <2>4, TimeAssumption DEF Entries
    <3> QED BY <2>1, <3>1, <3>2 DEF Entries, Store!Exists
  <2> QED BY <2>2, <2>3, <2>4
<1>3. session' \in [Sessions -> Sessioned]
      BY <1>1 DEF Tick
<1>4. stored' \in [StoreKeys -> Entries]
      BY <1>2 DEF Tick
<1> QED BY <1>1, <1>2, <1>3, <1>4

\* Every variable stays in its set, and a token put with a ttl has an expiry.
THEOREM TypeCorrect == Spec => []TypeOK
<1>1. Init => TypeOK
  <2> SUFFICES ASSUME Init PROVE TypeOK
      OBVIOUS
  <2>1. 1 \in Ring
        BY ScheduleAssumption DEF Ring
  <2>2. OldAge \in Nat
        BY TimeAssumption DEF OldAge
  <2>3. session \in [Sessions -> Sessioned]
        BY <2>2, TimeAssumption DEF Init, Sessioned, Auths
  <2>4. stored \in [StoreKeys -> Entries]
        BY TimeAssumption DEF Init, Entries, Store!Gone
  <2> QED BY <2>1, <2>3, <2>4, TimeAssumption DEF Init, TypeOK, Sessioned, Auths, Entries
<1>2. TypeOK /\ [Next]_vars => TypeOK'
  <2> SUFFICES ASSUME TypeOK, [Next]_vars PROVE TypeOK'
      OBVIOUS
  <2>1. CASE UNCHANGED vars
        BY <2>1 DEF TypeOK, vars
  <2>2. CASE Tick
    <3>1. session' \in [Sessions -> Sessioned] /\ stored' \in [StoreKeys -> Entries]
          BY <2>2, TickType
    <3>2. \A k \in bounded' : stored'[k].left # Store!Forever
          BY <2>2, TickType DEF Tick, TypeOK
    <3>3. settled' \in 0..RetireAfter
      <4>1. settled' = settled \/ (settled < RetireAfter /\ settled' = settled + 1)
            BY <2>2 DEF Tick
      <4> QED BY <4>1, TimeAssumption DEF TypeOK
    <3>4. signIn' \in [Sessions -> 0..MaxAuthAge]
      <4>1. \A t \in Sessions : Older(signIn[t]) \in 0..MaxAuthAge
            BY TimeAssumption DEF TypeOK, Older
      <4> QED BY <2>2, <4>1 DEF Tick
    <3> QED BY <2>2, <3>1, <3>2, <3>3, <3>4 DEF Tick, TypeOK, Sessioned, Auths, Entries
  <2>3. CASE RollOut
        BY <2>3, TimeAssumption DEF RollOut, TypeOK
  <2>4. ASSUME NEW i \in Instances, Redeploy(i) PROVE TypeOK'
        BY <2>4 DEF Redeploy, TypeOK
  <2>5. ASSUME NEW i \in Instances, NEW t \in Sessions, SignIn(i, t) PROVE TypeOK'
    <3>1. session' \in [Sessions -> Sessioned]
          BY <2>5, IssueType DEF SignIn
    <3>2. signIn' \in [Sessions -> 0..MaxAuthAge]
          BY <2>5, TimeAssumption DEF SignIn, TypeOK
    <3> QED BY <2>5, <3>1, <3>2 DEF SignIn, TypeOK, Sessioned, Auths
  <2>6. ASSUME NEW i \in Instances, NEW t \in Sessions, Renew(i, t) PROVE TypeOK'
    <3>1. session[t].auth \in Auths
          BY DEF TypeOK, Auths
    <3>2. session' \in [Sessions -> Sessioned]
          BY <2>6, <3>1, IssueType DEF Renew
    <3> QED BY <2>6, <3>2 DEF Renew, TypeOK, Sessioned, Auths
  <2>7. ASSUME NEW i \in Instances, NEW k \in StoreKeys, Put(i, k) PROVE TypeOK'
    <3>1. getActive(keyring(i)) \in Keys
          BY Rings DEF TypeOK, keyring
    <3>2. stored' \in [StoreKeys -> Entries]
          BY <2>7, <3>1, TimeAssumption DEF Put, put, TypeOK, Entries, Store!Set
    <3>3. \A b \in bounded' : stored'[b].left # Store!Forever
          BY <2>7, TimeAssumption DEF Put, put, TypeOK, Store!Set, Store!Forever
    <3>4. bounded' \subseteq StoreKeys
          BY <2>7 DEF Put, TypeOK
    <3> QED BY <2>7, <3>2, <3>3, <3>4 DEF Put, TypeOK, Entries
  <2>8. ASSUME NEW k \in StoreKeys, delete(k) PROVE TypeOK'
    <3>1. stored' \in [StoreKeys -> Entries]
          BY <2>8, TimeAssumption DEF delete, TypeOK, Entries, Store!Gone
    <3>2. \A b \in bounded' : stored'[b].left # Store!Forever
          BY <2>8 DEF delete, TypeOK, Store!Gone, Store!Forever
    <3> QED BY <2>8, <3>1, <3>2 DEF delete, TypeOK, Entries
  <2> QED BY <2>1, <2>2, <2>3, <2>4, <2>5, <2>6, <2>7, <2>8 DEF Next
<1> QED BY <1>1, <1>2, PTL DEF Spec
-----------------------------------------------------------------------------
(***************************************************************************)
(* Keys outlive what they encrypt.                                         *)
(*                                                                         *)
(* The invariant says how far a roll-out is: every instance has the ring   *)
(* being rolled out or the one before, and no wait has begun while one     *)
(* lags.  A key is Good for a token of some age when every ring now in use *)
(* and the one being rolled out have it, and, if the token is younger than *)
(* the wait, it is the first key of the ring: a token issued since every   *)
(* instance has that ring was encrypted with its first key.  So when a     *)
(* ring that drops a key follows, after the whole wait, every token still  *)
(* alive was encrypted with a key that stays.                              *)
(***************************************************************************)
RollInv ==
    /\ \A i \in Instances : stage[i] = target \/ stage[i] + 1 = target
    /\ \A i \in Instances : stage[i] # target => settled = 0

\* For the stages, the target and the wait of a state.
Kept(at, next, key) ==
    /\ \A i \in Instances : decrypts(Schedule[at[i]], key)
    /\ decrypts(Schedule[next], key)

Good(at, next, wait, key, age) ==
    /\ Kept(at, next, key)
    /\ age < wait => key = Schedule[next][1]

SessionsGood ==
    \A t \in Issued : session[t].age <= SessionTtl + MaxSkew =>
        Good(stage, target, settled, session[t].key, session[t].age)

StoredGood ==
    \A k \in bounded : Store!Exists(stored[k]) =>
        Good(stage, target, settled, stored[k].val, StoreTtl - stored[k].left)

RotationInv == RollInv /\ SessionsGood /\ StoredGood

\* Neighbouring rings of the schedule have each other's first keys.
LEMMA Neighbours ==
    ASSUME NEW n \in Ring, n + 1 \in Ring
    PROVE  /\ decrypts(Schedule[n], Schedule[n + 1][1])
           /\ decrypts(Schedule[n + 1], Schedule[n][1])
BY ScheduleAssumption DEF decrypts

\* What an instance encrypts now is readable everywhere.
LEMMA FreshGood ==
    ASSUME TypeOK, RollInv, NEW i \in Instances
    PROVE  Good(stage, target, settled, getActive(keyring(i)), 0)
<1> DEFINE key == Schedule[stage[i]][1]
<1>1. \A n \in Ring : n \in Nat /\ 1 \in DOMAIN Schedule[n]
      BY Rings
<1>2. stage[i] \in Ring /\ target \in Ring /\ stage[i] \in Nat /\ target \in Nat
      BY <1>1 DEF TypeOK
<1>3. getActive(keyring(i)) = key
      BY DEF getActive, keyring
<1>4. \A n \in Ring : decrypts(Schedule[n], Schedule[n][1])
      BY <1>1 DEF decrypts
<1>5. decrypts(Schedule[target], key)
      BY <1>2, <1>4, Neighbours DEF RollInv
<1>6. ASSUME NEW j \in Instances PROVE decrypts(Schedule[stage[j]], key)
  <2>1. stage[j] \in Ring /\ stage[j] \in Nat
        BY <1>1 DEF TypeOK
  <2>2. stage[j] = stage[i] \/ stage[j] + 1 = stage[i] \/ stage[i] + 1 = stage[j]
        BY <1>2, <2>1 DEF RollInv
  <2> QED BY <1>2, <1>4, <2>1, <2>2, Neighbours
<1>7. 0 < settled => key = Schedule[target][1]
      BY DEF RollInv, TypeOK
<1> QED BY <1>3, <1>5, <1>6, <1>7 DEF Good, Kept, keyring

\* Redeploying an instance with the ring being rolled out loses no token.
LEMMA RedeployGood ==
    ASSUME TypeOK, NEW i \in Instances, Redeploy(i),
           NEW key, NEW age, Good(stage, target, settled, key, age)
    PROVE  Good(stage', target', settled', key, age)
<1>1. target' = target /\ settled' = settled
      BY DEF Redeploy
<1>2. ASSUME NEW j \in Instances PROVE decrypts(Schedule[stage'[j]], key)
  <2>1. stage'[j] = stage[j] \/ stage'[j] = target
        BY DEF Redeploy, TypeOK
  <2> QED BY <2>1 DEF Good, Kept, keyring
<1> QED BY <1>1, <1>2 DEF Good, Kept, keyring, decrypts

\* The next ring has the key of every token younger than RetireAfter.
LEMMA RollOutGood ==
    ASSUME TypeOK, RollOut, NEW key, NEW age \in Nat, age < RetireAfter, Good(stage, target, settled, key, age)
    PROVE  Good(stage', target', settled', key, age)
<1>1. target' = target + 1 /\ settled' = 0 /\ stage' = stage
      BY DEF RollOut
<1>2. target \in Ring /\ target + 1 \in Ring
      BY DEF RollOut, TypeOK
<1>3. decrypts(Schedule[target + 1], key)
  <2>1. CASE Drops(target)
    <3>1. key = Schedule[target][1]
          BY <2>1 DEF RollOut, Good
    <3> QED BY <1>2, <3>1, Neighbours
  <2>2. CASE ~Drops(target)
        BY <2>2 DEF Drops, Good, Kept, decrypts
  <2> QED BY <2>1, <2>2
<1> QED BY <1>1, <1>3 DEF Good, Kept, keyring, decrypts

\* A tick makes a token and the wait older alike.
LEMMA TickGood ==
    ASSUME TypeOK, Tick, NEW key, NEW age \in Nat, Good(stage, target, settled, key, age)
    PROVE  Good(stage', target', settled', key, age + 1)
<1>1. target' = target /\ stage' = stage
      BY DEF Tick
<1>2. settled' \in Nat /\ settled \in Nat /\ settled' <= settled + 1
  <2>1. settled' = settled \/ settled' = settled + 1
        BY DEF Tick
  <2> QED BY <2>1, TimeAssumption DEF TypeOK
<1>3. age + 1 < settled' => key = Schedule[target][1]
      BY <1>2 DEF Good
<1> QED BY <1>1, <1>3 DEF Good, Kept, keyring, decrypts

\* Nothing that leaves the rings and the wait alone changes what Good says.
LEMMA SameGood ==
    ASSUME UNCHANGED <<stage, target, settled>>, NEW key, NEW age, Good(stage, target, settled, key, age)
    PROVE  Good(stage', target', settled', key, age)
BY DEF Good, Kept, keyring, decrypts

\* A step that issues session t on instance i leaves every session readable.
LEMMA IssueGood ==
    ASSUME TypeOK, RollInv, SessionsGood, NEW i \in Instances, NEW t \in Sessions, NEW given,
           issue(i, t, given), UNCHANGED <<stage, target, settled>>
    PROVE  SessionsGood'
<1>1. ASSUME NEW u \in Sessions, session'[u].key # NoKey, session'[u].age <= SessionTtl + MaxSkew
      PROVE  Good(stage, target, settled, session'[u].key, session'[u].age)
  <2>1. CASE u = t
    <3>1. session'[u].key = getActive(keyring(i)) /\ session'[u].age = 0
          BY <2>1 DEF issue, TypeOK
    <3> QED BY <3>1, FreshGood
  <2>2. CASE u # t
    <3>1. session'[u] = session[u]
          BY <2>2 DEF issue, TypeOK
    <3> QED BY <1>1, <3>1 DEF SessionsGood, Issued
  <2> QED BY <2>1, <2>2
<1> QED BY <1>1 DEF SessionsGood, Issued

\* The roll-out, the sessions and the stored tokens keep to RotationInv.
THEOREM RotationCorrect == Spec => []RotationInv
<1>1. Init => RotationInv
  <2> SUFFICES ASSUME Init PROVE RotationInv
      OBVIOUS
  <2>1. SessionsGood
        BY DEF Init, SessionsGood, Issued
  <2>2. StoredGood
        BY DEF Init, StoredGood
  <2> QED BY <2>1, <2>2 DEF Init, RotationInv, RollInv
<1>2. TypeOK /\ RotationInv /\ [Next]_vars => RotationInv'
  <2> SUFFICES ASSUME TypeOK, RotationInv, [Next]_vars PROVE RotationInv'
      OBVIOUS
  <2>1. CASE UNCHANGED vars
        BY <2>1 DEF vars, RotationInv, RollInv, SessionsGood, StoredGood, Issued
  <2>2. CASE Tick
    <3>1. RollInv'
          BY <2>2 DEF Tick, RotationInv, RollInv
    <3>2. ASSUME NEW t \in Sessions, session'[t].key # NoKey,
                 session'[t].age <= SessionTtl + MaxSkew
          PROVE  Good(stage', target', settled', session'[t].key, session'[t].age)
      <4>1. session[t].age \in 0..OldAge
            BY DEF TypeOK
      <4>2. session[t].age \in Nat /\ session'[t].age = session[t].age + 1
            BY <2>2, <3>2, <4>1, TickType, TimeAssumption DEF OldAge
      <4>3. session'[t].key = session[t].key
            BY <2>2, TickType
      <4>4. session[t].age <= SessionTtl + MaxSkew
            BY <3>2, <4>2, TimeAssumption
      <4>5. Good(stage, target, settled, session[t].key, session[t].age)
            BY <3>2, <4>3, <4>4 DEF RotationInv, SessionsGood, Issued
      <4> QED BY <2>2, <4>2, <4>3, <4>5, TickGood
    <3>3. ASSUME NEW k \in bounded, Store!Exists(stored'[k])
          PROVE  Good(stage', target', settled', stored'[k].val, StoreTtl - stored'[k].left)
      <4>1. k \in StoreKeys /\ stored[k].left # Store!Forever /\ Store!Exists(stored[k])
            BY <2>2, <3>3, TickType DEF TypeOK
      <4>2. stored'[k].val = stored[k].val /\ stored'[k].left = stored[k].left - 1
            BY <2>2, <3>3, <4>1, TickType
      <4>3. StoreTtl - stored[k].left \in Nat
        <5>1. stored[k].left \in 0..StoreTtl
              BY <4>1 DEF TypeOK
        <5> QED BY <5>1, TimeAssumption
      <4>4. StoreTtl - stored'[k].left = StoreTtl - stored[k].left + 1
        <5>1. stored[k].left \in 0..StoreTtl
              BY <4>1 DEF TypeOK
        <5> QED BY <4>2, <5>1, TimeAssumption
      <4>5. Good(stage, target, settled, stored[k].val, StoreTtl - stored[k].left)
            BY <4>1 DEF RotationInv, StoredGood
      <4>6. Good(stage', target', settled', stored[k].val, StoreTtl - stored[k].left + 1)
            BY <2>2, <4>3, <4>5, TickGood
      <4> QED BY <4>2, <4>4, <4>6
    <3>4. bounded' = bounded
          BY <2>2 DEF Tick
    <3> QED BY <3>1, <3>2, <3>3, <3>4 DEF RotationInv, SessionsGood, StoredGood, Issued
  <2>3. CASE RollOut
    <3>1. RollInv'
      <4>1. target \in Nat
            BY Rings DEF TypeOK
      <4> QED BY <2>3, <4>1 DEF RollOut, RollInv
    <3>2. ASSUME NEW t \in Sessions, session[t].key # NoKey,
                 session[t].age <= SessionTtl + MaxSkew
          PROVE  Good(stage', target', settled', session[t].key, session[t].age)
      <4>1. session[t].age \in 0..OldAge
            BY DEF TypeOK
      <4>2. session[t].age \in Nat /\ session[t].age < RetireAfter
            BY <3>2, <4>1, TimeAssumption DEF OldAge
      <4>3. Good(stage, target, settled, session[t].key, session[t].age)
            BY <3>2 DEF RotationInv, SessionsGood, Issued
      <4> QED BY <2>3, <4>2, <4>3, RollOutGood
    <3>3. ASSUME NEW k \in bounded, Store!Exists(stored[k])
          PROVE  Good(stage', target', settled', stored[k].val, StoreTtl - stored[k].left)
      <4>1. stored[k].left \in 1..StoreTtl
            BY <3>3 DEF TypeOK, Store!Exists, Store!Forever
      <4>2. StoreTtl - stored[k].left \in Nat /\ StoreTtl - stored[k].left < RetireAfter
            BY <4>1, TimeAssumption
      <4>3. Good(stage, target, settled, stored[k].val, StoreTtl - stored[k].left)
            BY <3>3 DEF RotationInv, StoredGood
      <4> QED BY <2>3, <4>2, <4>3, RollOutGood
    <3>4. UNCHANGED <<session, stored, bounded>>
          BY <2>3 DEF RollOut
    <3> QED BY <3>1, <3>2, <3>3, <3>4 DEF RotationInv, SessionsGood, StoredGood, Issued
  <2>4. ASSUME NEW i \in Instances, Redeploy(i) PROVE RotationInv'
    <3>1. RollInv'
          BY <2>4 DEF Redeploy, RotationInv, RollInv, TypeOK
    <3>2. UNCHANGED <<session, stored, bounded>>
          BY <2>4 DEF Redeploy
    <3> QED BY <2>4, <3>1, <3>2, RedeployGood DEF RotationInv, SessionsGood, StoredGood, Issued
  <2>5. ASSUME NEW i \in Instances, NEW t \in Sessions, SignIn(i, t) PROVE RotationInv'
    <3>1. SessionsGood'
          BY <2>5, IssueGood DEF SignIn, RotationInv
    <3> QED BY <2>5, <3>1 DEF SignIn, RotationInv, RollInv, StoredGood
  <2>6. ASSUME NEW i \in Instances, NEW t \in Sessions, Renew(i, t) PROVE RotationInv'
    <3>1. SessionsGood'
          BY <2>6, IssueGood DEF Renew, RotationInv
    <3> QED BY <2>6, <3>1 DEF Renew, RotationInv, RollInv, StoredGood
  <2>7. ASSUME NEW i \in Instances, NEW k \in StoreKeys, Put(i, k) PROVE RotationInv'
    <3>1. ASSUME NEW b \in bounded', Store!Exists(stored'[b])
          PROVE  Good(stage, target, settled, stored'[b].val, StoreTtl - stored'[b].left)
      <4>1. CASE b = k
        <5>1. stored'[b].val = getActive(keyring(i)) /\ stored'[b].left = StoreTtl
              BY <2>7, <3>1, <4>1 DEF Put, put, TypeOK, Store!Set
        <5>2. StoreTtl - stored'[b].left = 0
              BY <5>1, TimeAssumption
        <5>3. Good(stage, target, settled, getActive(keyring(i)), 0)
              BY FreshGood DEF RotationInv
        <5> QED BY <5>1, <5>2, <5>3
      <4>2. CASE b # k
        <5>1. b \in bounded /\ stored'[b] = stored[b]
              BY <2>7, <4>2 DEF Put, put, TypeOK
        <5> QED BY <3>1, <5>1 DEF RotationInv, StoredGood
      <4> QED BY <4>1, <4>2
    <3>2. UNCHANGED <<stage, target, settled, session>>
          BY <2>7 DEF Put
    <3> QED BY <3>1, <3>2 DEF RotationInv, RollInv, SessionsGood, StoredGood, Issued
  <2>8. ASSUME NEW k \in StoreKeys, delete(k) PROVE RotationInv'
    <3>1. ASSUME NEW b \in bounded, Store!Exists(stored'[b])
          PROVE  stored'[b] = stored[b]
          BY <2>8, <3>1 DEF delete, TypeOK, Store!Exists, Store!Gone
    <3> QED BY <2>8, <3>1 DEF delete, RotationInv, RollInv, SessionsGood, StoredGood, Issued
  <2> QED BY <2>1, <2>2, <2>3, <2>4, <2>5, <2>6, <2>7, <2>8 DEF Next
<1> QED BY <1>1, <1>2, TypeCorrect, PTL DEF Spec

\* All through a rotation every instance reads every unexpired session
\* (JweService.decrypt, SecureSessionService.read).
THEOREM RotationSafe == Spec => []SessionsSurviveRotation
<1>1. TypeOK /\ RotationInv => SessionsSurviveRotation
  <2> SUFFICES ASSUME TypeOK, RotationInv, NEW t \in Issued, NEW i \in Instances,
                      ~Expired(i, session[t])
               PROVE  read(i, session[t]) = "ok"
      BY DEF SessionsSurviveRotation
  <2>1. session[t].age \in 0..OldAge /\ session[t].by \in Instances
        BY DEF TypeOK, Issued
  <2>2. offset[i] \in 0..MaxSkew /\ offset[session[t].by] \in 0..MaxSkew
        BY <2>1 DEF TypeOK
  <2>3. session[t].age <= SessionTtl + MaxSkew
        BY <2>1, <2>2, TimeAssumption DEF Expired, OldAge
  <2>4. decrypts(keyring(i), session[t].key)
        BY <2>3 DEF RotationInv, SessionsGood, Good, Kept, keyring
  <2> QED BY <2>4 DEF read
<1> QED BY <1>1, TypeCorrect, RotationCorrect, PTL

\* No instance fails to decrypt a token stored with a ttl (JweStoreService.get).
THEOREM StoreSafe == Spec => []StoredReadable
<1>1. TypeOK /\ RotationInv => StoredReadable
  <2> SUFFICES ASSUME TypeOK, RotationInv, NEW k \in bounded, NEW i \in Instances
               PROVE  get(i, k) # "undecryptable"
      BY DEF StoredReadable
  <2>1. Store!Exists(stored[k]) => decrypts(keyring(i), stored[k].val)
        BY DEF RotationInv, StoredGood, Good, Kept, keyring
  <2> QED BY <2>1 DEF get
<1> QED BY <1>1, TypeCorrect, RotationCorrect, PTL

\* A session is read for its ttl, give or take the clock skew
\* (SecureSessionService.read).
THEOREM ExpiryBounded == Spec => []ExpiryWithinSkew
<1>1. TypeOK => ExpiryWithinSkew
  <2> SUFFICES ASSUME TypeOK, NEW t \in Issued, NEW i \in Instances
               PROVE  /\ read(i, session[t]) = "ok" => session[t].age <= SessionTtl + MaxSkew
                      /\ read(i, session[t]) = "expired" => session[t].age > SessionTtl - MaxSkew
      BY DEF ExpiryWithinSkew
  <2>1. session[t].age \in 0..OldAge /\ session[t].by \in Instances
        BY DEF TypeOK, Issued
  <2>2. offset[i] \in 0..MaxSkew /\ offset[session[t].by] \in 0..MaxSkew
        BY <2>1 DEF TypeOK
  <2>3. read(i, session[t]) = "ok" => ~Expired(i, session[t])
        BY DEF read
  <2>4. read(i, session[t]) = "expired" => Expired(i, session[t])
        BY DEF read
  <2> QED BY <2>1, <2>2, <2>3, <2>4, TimeAssumption DEF Expired, OldAge
<1> QED BY <1>1, TypeCorrect, PTL
-----------------------------------------------------------------------------
(***************************************************************************)
(* Renewals keep the sign-in.  The age the metadata give the sign-in is    *)
(* its true age, and while that is followed no session is older than it.   *)
(***************************************************************************)
AuthGood ==
    \A t \in Issued :
        /\ session[t].auth.age = signIn[t]
        /\ signIn[t] < MaxAuthAge => session[t].age <= signIn[t]

\* Signing in, renewing and waiting keep AuthGood (SecureSessionService.issue).
THEOREM AuthCorrect == Spec => []AuthGood
<1>1. Init => AuthGood
      BY DEF Init, AuthGood, Issued
<1>2. TypeOK /\ AuthGood /\ [Next]_vars => AuthGood'
  <2> SUFFICES ASSUME TypeOK, AuthGood, [Next]_vars PROVE AuthGood'
      OBVIOUS
  <2>1. CASE UNCHANGED <<session, signIn>>
        BY <2>1 DEF AuthGood, Issued
  <2>2. CASE Tick
    <3> SUFFICES ASSUME NEW t \in Sessions, session'[t].key # NoKey
                 PROVE  /\ session'[t].auth.age = signIn'[t]
                        /\ signIn'[t] < MaxAuthAge => session'[t].age <= signIn'[t]
        BY DEF AuthGood, Issued
    <3>1. session[t].key # NoKey /\ session'[t].auth.age = Older(session[t].auth.age)
          BY <2>2, TickType
    <3>2. session'[t].age = session[t].age \/ session'[t].age = session[t].age + 1
          BY <2>2, TickType
    <3>3. signIn'[t] = Older(signIn[t])
          BY <2>2 DEF Tick
    <3>4. /\ session[t].auth.age = signIn[t]
          /\ signIn[t] < MaxAuthAge => session[t].age <= signIn[t]
          BY <3>1 DEF AuthGood, Issued
    <3>5. session[t].age \in Int /\ signIn[t] \in Int
      <4>1. session[t].age \in 0..OldAge /\ signIn[t] \in 0..MaxAuthAge
            BY DEF TypeOK
      <4> QED BY <4>1
    <3>6. signIn'[t] < MaxAuthAge => session'[t].age <= signIn'[t]
          BY <3>2, <3>3, <3>4, <3>5, TimeAssumption DEF Older
    <3> QED BY <3>1, <3>3, <3>4, <3>6
  <2>3. ASSUME NEW i \in Instances, NEW t \in Sessions, SignIn(i, t) PROVE AuthGood'
    <3>1. \A u \in Sessions : u # t => session'[u] = session[u] /\ signIn'[u] = signIn[u]
          BY <2>3 DEF SignIn, issue, TypeOK
    <3>2. session'[t].auth.age = 0 /\ session'[t].age = 0 /\ signIn'[t] = 0
          BY <2>3 DEF SignIn, issue, authenticatedAt, TypeOK
    <3> QED BY <3>1, <3>2 DEF AuthGood, Issued
  <2>4. ASSUME NEW i \in Instances, NEW t \in Sessions, Renew(i, t) PROVE AuthGood'
    <3>1. \A u \in Sessions : u # t => session'[u] = session[u]
          BY <2>4 DEF Renew, issue, TypeOK
    <3>2. session'[t].auth.age = session[t].auth.age /\ session'[t].age = 0
          BY <2>4 DEF Renew, issue, authenticatedAt, NotGiven, TypeOK
    <3>3. session[t].auth.age = signIn[t] /\ signIn[t] \in 0..MaxAuthAge
          BY <2>4 DEF Renew, AuthGood, Issued, TypeOK
    <3>4. signIn' = signIn
          BY <2>4 DEF Renew
    <3> QED BY <3>1, <3>2, <3>3, <3>4 DEF AuthGood, Issued
  <2> QED BY <2>1, <2>2, <2>3, <2>4 DEF Next, vars, RollOut, Redeploy, Put, delete
<1> QED BY <1>1, <1>2, TypeCorrect, PTL DEF Spec

\* Whatever instance reads a session, after whatever renewals, finds when its
\* client signed in (SecureSessionService.metadata).
THEOREM SignInRemembered == Spec => []AuthenticationRemembered
<1>1. TypeOK /\ AuthGood => AuthenticationRemembered
  <2> SUFFICES ASSUME TypeOK, AuthGood, NEW t \in Issued, NEW i \in Instances,
                      read(i, session[t]) = "ok"
               PROVE  LET data == metadata(i, session[t])
                      IN  /\ data.authenticated - signIn[t] \in -MaxSkew..MaxSkew
                          /\ signIn[t] < MaxAuthAge =>
                                data.authenticated >= data.issued - MaxSkew
                          /\ data.expires <= 0
      BY DEF AuthenticationRemembered
  <2> DEFINE s == session[t]
  <2>1. /\ s.age \in 0..OldAge /\ s.by \in Instances
        /\ s.auth.age \in 0..MaxAuthAge /\ s.auth.by \in Instances
        BY DEF TypeOK, Issued
  <2>2. /\ offset[i] \in 0..MaxSkew
        /\ offset[s.by] \in 0..MaxSkew /\ offset[s.auth.by] \in 0..MaxSkew
        BY <2>1 DEF TypeOK
  <2>3. s.auth.age = signIn[t] /\ (signIn[t] < MaxAuthAge => s.age <= signIn[t])
        BY DEF AuthGood
  <2>4. ~Expired(i, s)
        BY DEF read
  <2>5. /\ metadata(i, s).issued = s.age + offset[i] - offset[s.by]
        /\ metadata(i, s).expires = s.age + offset[i] - offset[s.by] - SessionTtl
        /\ metadata(i, s).authenticated = s.auth.age + offset[i] - offset[s.auth.by]
        BY DEF metadata
  <2> HIDE DEF s
  <2>6. metadata(i, s).authenticated - signIn[t] \in -MaxSkew..MaxSkew
        BY <2>1, <2>2, <2>3, <2>5, TimeAssumption
  <2>7. signIn[t] < MaxAuthAge => metadata(i, s).authenticated >= metadata(i, s).issued - MaxSkew
        BY <2>1, <2>2, <2>3, <2>5, TimeAssumption DEF OldAge
  <2>8. metadata(i, s).expires <= 0
        BY <2>1, <2>2, <2>4, <2>5, TimeAssumption DEF Expired, OldAge
  <2> QED BY <2>6, <2>7, <2>8 DEF s
<1> QED BY <1>1, TypeCorrect, AuthCorrect, PTL
=============================================================================
