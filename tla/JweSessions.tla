---------------------------- MODULE JweSessions ----------------------------
(***************************************************************************)
(* JweService, KeyringProvider, SecureSessionService and JweStoreService   *)
(* (src/jwe, src/session) on several instances of an application whose     *)
(* keyrings are rotated by redeploying them one after the other.  Sessions *)
(* live in the client's cookie, carry their expiry and the time of the     *)
(* sign-in and are renewed on any instance; stored tokens live in a shared *)
(* store, with or without an expiry.  Both are encrypted with the first    *)
(* key of the issuing instance's ring and must decrypt on every other one. *)
(***************************************************************************)
EXTENDS Integers, Sequences

CONSTANTS
    Instances,
    Sessions,       \* client sessions alive at once
    StoreKeys,      \* keys of JweStoreService (`${keyString}:${id}`)
    Schedule,       \* the keyrings the deployment goes through, in order
    SessionTtl,     \* options.session.ttlMs, in ticks
    StoreTtl,       \* the ttl given to put, in ticks
    MaxSkew,        \* how far the instances' clocks differ
    RetireAfter,    \* ticks the deployment waits before it drops a key
    MaxAuthAge      \* ticks a sign-in is followed; bounds a chain of renewals

\* A key is dropped only after everything it encrypted has run out.
ASSUME TimeAssumption ==
    /\ SessionTtl \in Nat /\ StoreTtl \in Nat \ {0} /\ MaxSkew \in Nat
    /\ RetireAfter \in Nat /\ MaxAuthAge \in Nat
    /\ RetireAfter > SessionTtl + MaxSkew
    /\ RetireAfter >= StoreTtl

Ring == DOMAIN Schedule

Keys == UNION {{Schedule[n][m] : m \in DOMAIN Schedule[n]} : n \in Ring}

\* The deployment's discipline: a ring is never empty, a key is given to every
\* instance before it becomes the first, and is no longer first anywhere when
\* it is dropped.
ASSUME ScheduleAssumption ==
    /\ Schedule \in Seq(Seq(Keys)) /\ Schedule # <<>>
    /\ \A n \in Ring : Schedule[n] # <<>>
    /\ \A n \in Ring : n + 1 \in Ring =>
          /\ \E m \in DOMAIN Schedule[n] : Schedule[n][m] = Schedule[n + 1][1]
          /\ \E m \in DOMAIN Schedule[n + 1] : Schedule[n + 1][m] = Schedule[n][1]

VARIABLES
    stage,      \* the position in Schedule each instance is deployed with
    target,     \* the position the deployment is rolling out
    settled,    \* ticks since all instances reached it, up to RetireAfter
    offset,     \* how far each instance's clock runs ahead
    session,    \* the sessions: encrypting key, issuing instance, age, and
                \* authenticatedAt: by which instance's clock and how long ago
    stored,     \* the store: key of the token, ticks left
    signIn,     \* history: ticks since the client of a session signed in
    bounded     \* history: the stored tokens put with a ttl

vars == <<stage, target, settled, offset, session, stored, signIn, bounded>>

NoKey == "none"
NotGiven == [by |-> "none", age |-> 0]
Store == INSTANCE ExpiringStore WITH Nil <- NoKey

\* An age at which every instance considers a session expired.
OldAge == SessionTtl + MaxSkew + 1
-----------------------------------------------------------------------------
\* Mutant: the newest key of the ring is the active one.
getLast(ring) == ring[Len(ring)]

\* KeyringProvider.getActive: keys[0]
getActive(ring) == ring[1]

\* Mutant: only the active key is tried.
decryptsWithActive(ring, key) == ring[1] = key

\* JweService.decrypt tries all keys of the ring.
decrypts(ring, key) == \E m \in DOMAIN ring : ring[m] = key

keyring(i) == Schedule[stage[i]]

\* Mutant: Date.now() >= data.exp.
ExpiredEarly(i, s) == s.age + offset[i] >= SessionTtl + offset[s.by]

\* Date.now() > data.exp, with the reader's clock now and the issuer's then.
Expired(i, s) == s.age + offset[i] > SessionTtl + offset[s.by]

\* SecureSessionService.read
read(i, s) ==
    CASE ~decrypts(keyring(i), s.key) -> "undecryptable"
      [] decrypts(keyring(i), s.key) /\ Expired(i, s) -> "expired"
      [] decrypts(keyring(i), s.key) /\ ~Expired(i, s) -> "ok"

\* SecureSessionService.metadata, of a session that can be read: how long ago it
\* was issued, expires and its client signed in, by the reader's clock.
metadata(i, s) ==
    [issued        |-> s.age + offset[i] - offset[s.by],
     expires       |-> s.age + offset[i] - offset[s.by] - SessionTtl,
     authenticated |-> s.auth.age + offset[i] - offset[s.auth.by]]

\* Mutant: a session counts as authenticated when it is issued.
authenticatedNow(given, i) == [by |-> i, age |-> 0]

\* metadata.authenticatedAtEpochMs ?? issuedAtEpochMs
authenticatedAt(given, i) == IF given = NotGiven THEN [by |-> i, age |-> 0] ELSE given

\* JweStoreService.get: null without a token, else decrypt, which may throw.
get(i, k) ==
    CASE ~Store!Exists(stored[k]) -> "null"
      [] Store!Exists(stored[k]) /\ decrypts(keyring(i), stored[k].val) -> "ok"
      [] OTHER -> "undecryptable"
-----------------------------------------------------------------------------
Init ==
    /\ stage   = [i \in Instances |-> 1]
    /\ target  = 1
    /\ settled = 0
    /\ offset \in [Instances -> 0..MaxSkew]
    /\ \E i \in Instances : session = [t \in Sessions |->
          [key |-> NoKey, by |-> i, age |-> OldAge, auth |-> [by |-> i, age |-> MaxAuthAge]]]
    /\ stored  = [k \in StoreKeys |-> Store!Gone]
    /\ signIn  = [t \in Sessions |-> MaxAuthAge]
    /\ bounded = {}

\* SecureSessionService.issue: what it adds to the payload takes the place of
\* claims of the same name there.
issue(i, t, given) ==
    session' = [session EXCEPT ![t] =
        [key |-> getActive(keyring(i)), by |-> i, age |-> 0, auth |-> authenticatedAt(given, i)]]

\* A client signs in and gets a new session.
SignIn(i, t) ==
    /\ session[t].age = OldAge
    /\ issue(i, t, NotGiven)
    /\ signIn' = [signIn EXCEPT ![t] = 0]
    /\ UNCHANGED <<stage, target, settled, offset, stored, bounded>>

\* A session is renewed: one with a new expiry takes over what read and metadata
\* say of the old one.
Renew(i, t) ==
    /\ session[t].key # NoKey /\ read(i, session[t]) = "ok"
    /\ issue(i, t, session[t].auth)
    /\ UNCHANGED <<stage, target, settled, offset, stored, signIn, bounded>>

\* Mutant: the ttl is not handed to the store.
putForever(i, k, ttl) ==
    stored' = [stored EXCEPT ![k] = Store!Set(getActive(keyring(i)), Store!Forever)]

\* JweStoreService.put, with a ttl or without one (Store!Forever).
put(i, k, ttl) ==
    stored' = [stored EXCEPT ![k] = Store!Set(getActive(keyring(i)), ttl)]

\* A handler stores a token.  The key is new: its id is a random UUID.
Put(i, k) ==
    /\ ~Store!Exists(stored[k])
    /\ \/ put(i, k, StoreTtl) /\ bounded' = bounded \cup {k}
       \/ put(i, k, Store!Forever) /\ bounded' = bounded \ {k}
    /\ UNCHANGED <<stage, target, settled, offset, session, signIn>>

delete(k) ==
    /\ stored' = [stored EXCEPT ![k] = Store!Gone]
    /\ UNCHANGED <<stage, target, settled, offset, session, signIn, bounded>>

\* An instance is replaced by one with the ring being rolled out.
Redeploy(i) ==
    /\ stage[i] # target
    /\ stage' = [stage EXCEPT ![i] = target]
    /\ UNCHANGED <<target, settled, offset, session, stored, signIn, bounded>>

Drops(n) == \E m \in DOMAIN Schedule[n] : ~decrypts(Schedule[n + 1], Schedule[n][m])

\* The next ring is rolled out once the last one has reached every instance; a
\* ring that drops a key waits RetireAfter longer.
RollOut ==
    /\ \A i \in Instances : stage[i] = target
    /\ target + 1 \in Ring
    /\ Drops(target) => settled = RetireAfter
    /\ target' = target + 1
    /\ settled' = 0
    /\ UNCHANGED <<stage, offset, session, stored, signIn, bounded>>

Older(age) == IF age < MaxAuthAge THEN age + 1 ELSE age

Tick ==
    /\ session' = [t \in Sessions |->
                     [session[t] EXCEPT !.age = IF @ < OldAge THEN @ + 1 ELSE @,
                                        !.auth.age = Older(@)]]
    /\ signIn'  = [t \in Sessions |-> Older(signIn[t])]
    /\ stored'  = [k \in StoreKeys |-> Store!Elapse(stored[k])]
    /\ settled' = IF (\A i \in Instances : stage[i] = target) /\ settled < RetireAfter
                    THEN settled + 1 ELSE settled
    /\ UNCHANGED <<stage, target, offset, bounded>>

Next ==
    \/ Tick
    \/ RollOut
    \/ \E i \in Instances :
          \/ Redeploy(i)
          \/ \E t \in Sessions : SignIn(i, t) \/ Renew(i, t)
          \/ \E k \in StoreKeys : Put(i, k)
    \/ \E k \in StoreKeys : delete(k)

Spec == Init /\ [][Next]_vars
-----------------------------------------------------------------------------
(***************************************************************************)
(* Properties.                                                             *)
(***************************************************************************)
\* Every variable stays in its set: tokens name keys of the schedule, those put
\* with a ttl have an expiry (src/jwe, src/session).
TypeOK ==
    /\ stage   \in [Instances -> Ring]
    /\ target  \in Ring
    /\ settled \in 0..RetireAfter
    /\ offset  \in [Instances -> 0..MaxSkew]
    /\ session \in [Sessions -> [key : Keys \cup {NoKey}, by : Instances, age : 0..OldAge,
                                 auth : [by : Instances, age : 0..MaxAuthAge]]]
    /\ stored  \in [StoreKeys -> [val : Keys \cup {NoKey}, left : 0..StoreTtl \cup {Store!Forever}]]
    /\ \A k \in bounded : stored[k].left # Store!Forever
    /\ signIn  \in [Sessions -> 0..MaxAuthAge]
    /\ bounded \subseteq StoreKeys

Issued == {t \in Sessions : session[t].key # NoKey}

\* All through a key rotation, whatever instance a client reaches reads its
\* session until it considers the session expired: no unexpired session is
\* undecryptable anywhere ("Multi-Key Support (Rotation)").
SessionsSurviveRotation ==
    \A t \in Issued, i \in Instances :
        ~Expired(i, session[t]) => read(i, session[t]) = "ok"

\* A session is read at most SessionTtl after it was issued, and at least that
\* long, give or take the instances' clock skew, wherever it is read.
ExpiryWithinSkew ==
    \A t \in Issued, i \in Instances :
        /\ read(i, session[t]) = "ok"      => session[t].age <= SessionTtl + MaxSkew
        /\ read(i, session[t]) = "expired" => session[t].age > SessionTtl - MaxSkew

\* However often a session is renewed, and on whatever instances, its metadata
\* say when the client signed in and not when it was renewed, give or take the
\* clock skew; and never that it expired or was issued before that.
AuthenticationRemembered ==
    \A t \in Issued, i \in Instances : read(i, session[t]) = "ok" =>
        LET data == metadata(i, session[t])
        IN  /\ data.authenticated - signIn[t] \in -MaxSkew..MaxSkew
            /\ signIn[t] < MaxAuthAge => data.authenticated >= data.issued - MaxSkew
            /\ data.expires <= 0

\* A token stored with a ttl is readable on every instance until it runs out:
\* get answers with the payload or null, it does not throw.
StoredReadable ==
    \A k \in bounded, i \in Instances : get(i, k) # "undecryptable"
=============================================================================
