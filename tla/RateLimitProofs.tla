-------------------------- MODULE RateLimitProofs --------------------------
(***************************************************************************)
(* Theorems of RateLimit, for any set of requests and clients, any limit   *)
(* and window, with and without failing store calls.                       *)
(***************************************************************************)
EXTENDS RateLimit, FiniteSetTheorems, TLAPS

\* Whole seconds, as the store counts them, are a natural number, and they
\* never fall short of the configured window (Math.ceil(windowMs / 1000)).
LEMMA WindowSecondsSuffice ==
    WindowSeconds \in Nat \ {0} /\ WindowSeconds * Second >= Window
PROOF
<1> DEFINE a == Window + Second - 1
<1>1. a \in Nat /\ Second \in Nat \ {0} /\ Window \in Nat \ {0}
      BY TimeAssumption
<1>2. a = Second * (a \div Second) + (a % Second) /\ a % Second \in 0..(Second - 1)
      BY <1>1
<1>3. a \div Second \in Nat
      BY <1>1
<1>4. Second * (a \div Second) >= Window
      BY <1>1, <1>2, <1>3
<1>5. (a \div Second) * Second = Second * (a \div Second)
      BY <1>1, <1>3
<1>6. a \div Second # 0
  <2>1. SUFFICES ASSUME a \div Second = 0 PROVE FALSE
        OBVIOUS
  <2>2. Second * (a \div Second) = 0
        BY <2>1, <1>1
  <2> QED BY <2>2, <1>4, <1>1
<1> QED BY <1>3, <1>4, <1>5, <1>6 DEF WindowSeconds

\* The TTL command's answers are integers.
LEMMA TtlRepliesType ==
    ASSUME NEW e \in Entries
    PROVE  Store!TtlReplies(e, Second) \subseteq Int
BY TimeAssumption DEF Entries, Store!TtlReplies, Store!Forever

\* So are the waits a refused client is told (retryAfterSeconds).
LEMMA RetryAfterType ==
    ASSUME NEW ttl \in Int
    PROVE  RetryAfter(ttl) * Second \in Nat
<1>1. RetryAfter(ttl) \in Nat /\ Second \in Nat
      BY WindowSecondsSuffice, TimeAssumption DEF RetryAfter
<1> QED BY <1>1
-----------------------------------------------------------------------------
\* A counter as the store keeps it: it exists exactly when it counted.
Sound(e) == e \in Entries /\ (Store!Exists(e) <=> e.val > 0)

\* The store's commands keep counters sound.
LEMMA StoreKeepsSound ==
    ASSUME NEW e, Sound(e)
    PROVE  /\ Sound(Store!Incr(e)) /\ Store!Incr(e).val = e.val + 1
           /\ Sound(Store!Expire(e, WindowSeconds * Second))
           /\ Sound(Store!Elapse(e))
<1>1. WindowSeconds * Second \in Nat
      BY WindowSecondsSuffice, TimeAssumption
<1>2. Sound(Store!Incr(e)) /\ Store!Incr(e).val = e.val + 1
      BY DEF Sound, Entries, Store!Incr, Store!Exists, Store!Forever
<1>3. Sound(Store!Expire(e, WindowSeconds * Second))
      BY <1>1 DEF Sound, Entries, Store!Expire, Store!Exists, Store!Forever, Store!Gone
<1>4. Sound(Store!Elapse(e))
  <2>1. CASE e.left > 1
        BY <2>1 DEF Sound, Entries, Store!Elapse, Store!Exists, Store!Forever
  <2>2. CASE e.left = 1
        BY <2>2 DEF Sound, Entries, Store!Elapse, Store!Exists, Store!Forever, Store!Gone
  <2>3. CASE ~(e.left > 1) /\ e.left # 1
        BY <2>3 DEF Sound, Entries, Store!Elapse
  <2> QED BY <2>1, <2>2, <2>3 DEF Sound, Entries
<1> QED BY <1>2, <1>3, <1>4

\* Every variable of the limiter stays in its set.
THEOREM TypeCorrect == Spec => []TypeOK
<1>1. Init => TypeOK
      BY TimeAssumption DEF Init, TypeOK, Entries, Locations, Answers,
         Store!Gone, Store!Exists, Store!Forever
<1>2. TypeOK /\ [Next]_vars => TypeOK'
  <2> SUFFICES ASSUME TypeOK, [Next]_vars PROVE TypeOK'
      OBVIOUS
  <2> USE DEF TypeOK, Locations, Answers
  <2>1. \A c \in Clients : Sound(counter[c])
        BY DEF Sound
  <2>2. ASSUME counter' \in [Clients -> Entries], \A c \in Clients : Sound(counter'[c])
        PROVE  \A c \in Clients : Store!Exists(counter'[c]) <=> counter'[c].val > 0
        BY <2>2 DEF Sound
  <2>3. ASSUME NEW r \in Requests, Count(r)
        PROVE  /\ counter' \in [Clients -> Entries]
               /\ \A c \in Clients : Sound(counter'[c])
               /\ counter'[client[r]].val \in Nat
               /\ counted' \in [Requests -> BOOLEAN]
        BY <2>1, <2>3, StoreKeepsSound DEF Count, Sound, Entries
  <2>4. ASSUME NEW r \in Requests, Arm(client[r])
        PROVE  /\ counter' \in [Clients -> Entries]
               /\ \A c \in Clients : Sound(counter'[c])
        BY <2>1, <2>4, StoreKeepsSound DEF Arm, Sound
  <2>5. CASE UNCHANGED vars
        BY <2>5 DEF vars, handler, history
  <2>6. CASE Tick
    <3>1. /\ counter' \in [Clients -> Entries]
          /\ \A c \in Clients : Sound(counter'[c])
          BY <2>1, <2>6, StoreKeepsSound DEF Tick, Sound
    <3>2. wait' \in [Requests -> Nat] /\ counted' \in [Requests -> BOOLEAN]
          BY <2>6 DEF Tick
    <3>3. age' \in [Requests -> 0..Window] /\ since' \in [Clients -> 0..Window]
          BY <2>6, TimeAssumption DEF Tick, Older
    <3> QED BY <2>2, <2>6, <3>1, <3>2, <3>3 DEF Tick
  <2>7. ASSUME NEW r \in Requests, Arrive(r) PROVE TypeOK'
        BY <2>7 DEF Arrive, Bypass, Unlimited, Misconfigured, Enter, Answer, history
  <2>8. ASSUME NEW r \in Requests, Incr(r) PROVE TypeOK'
        BY <2>2, <2>3, <2>8 DEF Incr, Count
  <2>9. ASSUME NEW r \in Requests, Expire(r) PROVE TypeOK'
        BY <2>2, <2>4, <2>9 DEF Expire, history
  <2>10. ASSUME NEW r \in Requests, Reply(r) PROVE TypeOK'
    <3>1. PICK ttl \in Store!TtlReplies(counter[client[r]], Second) :
            IF Allowed(current[r])
              THEN Answer(r, "allowed") /\ UNCHANGED <<wait, told>>
              ELSE /\ Answer(r, "refused")
                   /\ wait' = [wait EXCEPT ![r] = RetryAfter(ttl) * Second]
                   /\ told' = [told EXCEPT ![r] = ttl > 0]
          BY <2>10 DEF Reply
    <3>2. RetryAfter(ttl) * Second \in Nat
          BY <3>1, TtlRepliesType, RetryAfterType
    <3>3. (ttl > 0) \in BOOLEAN
          BY <3>1, TtlRepliesType
    <3>4. wait' \in [Requests -> Nat] /\ told' \in [Requests -> BOOLEAN]
          BY <3>1, <3>2, <3>3
    <3>5. pc' \in [Requests -> Locations] /\ answer' \in [Requests -> Answers]
          BY <3>1 DEF Answer
    <3> QED BY <2>10, <3>4, <3>5 DEF Reply, history
  <2>11. ASSUME NEW r \in Requests, Fail(r) PROVE TypeOK'
    <3>1. /\ counter' \in [Clients -> Entries]
          /\ \A c \in Clients : Sound(counter'[c])
          /\ counted' \in [Requests -> BOOLEAN]
          BY <2>1, <2>3, <2>4, <2>11 DEF Fail, history
    <3>2. UNCHANGED <<age, since>>
          BY <2>11 DEF Fail, history, Count
    <3> QED BY <2>2, <2>11, <3>1, <3>2 DEF Fail, Answer
  <2> QED BY <2>5, <2>6, <2>7, <2>8, <2>9, <2>10, <2>11 DEF Next, Advance
<1> QED BY <1>1, <1>2, PTL DEF Spec
-----------------------------------------------------------------------------
\* INCR adds the request to its client's window and touches no other window.
LEMMA WindowGrows ==
    ASSUME TypeOK, NEW r \in Requests, Count(r), client' = client
    PROVE  \A c \in Clients :
             InWindow(c)' = IF c = client[r] THEN InWindow(c) \cup {r} ELSE InWindow(c)
BY DEF TypeOK, Count, InWindow

\* A tick keeps a window as it is or, when the counter expires, empties it.
LEMMA WindowCloses ==
    ASSUME TypeOK, Tick
    PROVE  \A c \in Clients :
             InWindow(c)' = IF Store!Exists(counter'[c]) THEN InWindow(c) ELSE {}
BY DEF TypeOK, Tick, InWindow

\* One tick keeps a counter's value or deletes the counter.
LEMMA ElapseKeepsValue ==
    ASSUME NEW e, Sound(e)
    PROVE  IF Store!Exists(Store!Elapse(e))
             THEN Store!Exists(e) /\ Store!Elapse(e).val = e.val
             ELSE Store!Elapse(e).val = 0
<1>1. CASE e.left > 1
      BY <1>1 DEF Sound, Entries, Store!Elapse, Store!Exists, Store!Forever
<1>2. CASE e.left = 1
      BY <1>2 DEF Sound, Entries, Store!Elapse, Store!Exists, Store!Gone
<1>3. CASE ~(e.left > 1) /\ e.left # 1
      BY <1>3 DEF Sound, Entries, Store!Elapse, Store!Exists
<1> QED BY <1>1, <1>2, <1>3 DEF Sound, Entries

\* EXPIRE with a positive time to live keeps an existing counter's value.
LEMMA ExpireKeepsValue ==
    ASSUME NEW e, Sound(e)
    PROVE  Store!Expire(e, WindowSeconds * Second).val = e.val
<1>1. WindowSeconds * Second > 0
      BY WindowSecondsSuffice, TimeAssumption
<1> QED BY <1>1 DEF Sound, Entries, Store!Expire, Store!Exists, Store!Gone

\* Counts of an open window are distinct and never exceed the counter.
THEOREM CountingCorrect == Spec => []CountInv
<1>1. Init => CountInv
  <2> SUFFICES ASSUME Init PROVE CountInv
      OBVIOUS
  <2>1. \A c \in Clients : InWindow(c) = {} /\ counter[c].val = 0
        BY DEF Init, InWindow, Store!Gone
  <2> QED BY <2>1, FS_EmptySet DEF Init, CountInv
<1>2. TypeOK /\ TypeOK' /\ CountInv /\ [Next]_vars => CountInv'
  <2> SUFFICES ASSUME TypeOK, TypeOK', CountInv, [Next]_vars PROVE CountInv'
      OBVIOUS
  <2>1. \A c \in Clients : Sound(counter[c])
        BY DEF Sound, TypeOK
  <2>2. ASSUME UNCHANGED <<counted, client>>,
               \A c \in Clients : counter'[c].val = counter[c].val
        PROVE  \A c \in Clients : /\ IsFiniteSet(InWindow(c)')
                                  /\ Cardinality(InWindow(c)') = counter'[c].val
        BY <2>2 DEF InWindow, CountInv
  <2>3. ASSUME NEW r \in Requests, pc[r] = "incr", Count(r), client' = client
        PROVE  \A c \in Clients : /\ IsFiniteSet(InWindow(c)')
                                  /\ Cardinality(InWindow(c)') = counter'[c].val
    <3> TAKE c \in Clients
    <3>1. CASE c = client[r]
      <4>1. InWindow(c)' = InWindow(c) \cup {r} /\ r \notin InWindow(c)
            BY <2>3, <3>1, WindowGrows DEF CountInv, InWindow
      <4>2. IsFiniteSet(InWindow(c)) /\ Cardinality(InWindow(c)) = counter[c].val
            BY DEF CountInv
      <4>3. counter'[c].val = counter[c].val + 1
            BY <2>1, <2>3, <3>1, StoreKeepsSound DEF Count, TypeOK
      <4> QED BY <4>1, <4>2, <4>3, FS_AddElement
    <3>2. CASE c # client[r]
      <4>1. InWindow(c)' = InWindow(c)
            BY <2>3, <3>2, WindowGrows
      <4>2. IsFiniteSet(InWindow(c)) /\ Cardinality(InWindow(c)) = counter[c].val
            BY DEF CountInv
      <4>3. counter'[c] = counter[c]
            BY <2>3, <3>2 DEF Count, TypeOK
      <4> QED BY <4>1, <4>2, <4>3
    <3> QED BY <3>1, <3>2
  <2>4. CASE UNCHANGED vars
        BY <2>2, <2>4 DEF vars, handler, history, CountInv
  <2>5. CASE Tick
    <3>1. \A c \in Clients : IF Store!Exists(counter'[c])
                               THEN counter'[c].val = counter[c].val
                               ELSE counter'[c].val = 0
          BY <2>1, <2>5, ElapseKeepsValue DEF Tick
    <3>2. \A c \in Clients : /\ IsFiniteSet(InWindow(c)')
                             /\ Cardinality(InWindow(c)') = counter'[c].val
          BY <2>5, <3>1, WindowCloses, FS_EmptySet DEF CountInv
    <3>3. \A r \in Requests : counted'[r] => counted[r] /\ Store!Exists(counter'[client[r]])
          BY <2>5 DEF Tick
    <3>4. UNCHANGED <<pc, client, current, answer>>
          BY <2>5 DEF Tick
    <3>5. \A r \in Requests : client[r] \in Clients
          BY DEF TypeOK
    <3> QED BY <3>1, <3>2, <3>3, <3>4, <3>5 DEF CountInv
  <2>6. ASSUME NEW r \in Requests, Arrive(r) PROVE CountInv'
        BY <2>2, <2>6 DEF Arrive, Bypass, Unlimited, Misconfigured, Enter, Answer,
                          history, CountInv, TypeOK
  <2>7. ASSUME NEW r \in Requests, Incr(r) PROVE CountInv'
    <3>1. \A c \in Clients : /\ IsFiniteSet(InWindow(c)')
                             /\ Cardinality(InWindow(c)') = counter'[c].val
          BY <2>3, <2>7 DEF Incr
    <3>2. counter'[client[r]].val = counter[client[r]].val + 1
          BY <2>1, <2>7, StoreKeepsSound DEF Incr, Count, TypeOK
    <3>3. current'[r] = counter[client[r]].val + 1 /\ current'[r] > 0
          BY <2>7, <3>2 DEF Incr, TypeOK, Entries
    <3>4. \A s \in Requests : s # r =>
             /\ current'[s] = current[s] /\ pc'[s] = pc[s]
             /\ counted'[s] = counted[s]
             /\ counter'[client[s]].val >= counter[client[s]].val
          BY <2>7, <3>2 DEF Incr, Count, TypeOK, Entries
    <3>5. pc'[r] \in {"expire", "ttl"} /\ pc[r] = "incr" /\ UNCHANGED <<client, answer>>
          BY <2>7 DEF Incr, TypeOK
    <3>6. \A s \in Requests : /\ client[s] \in Clients /\ counted[s] \in BOOLEAN
                              /\ current[s] \in Nat /\ counter[client[s]].val \in Nat
                              /\ counter'[client[s]].val \in Nat
          BY DEF TypeOK, Entries
    <3>7. current'[r] = counter'[client[r]].val /\ current'[r] > counter[client[r]].val
          BY <3>2, <3>3, <3>6
    <3>8. \A s \in Requests : s # r =>
             /\ counted[s] => current[s] <= counter'[client[s]].val
             /\ counted[s] /\ client[s] = client[r] => current[s] # current'[r]
          BY <3>3, <3>4, <3>6 DEF CountInv
    <3>9. answer[r] = "none"
          BY <3>5 DEF CountInv
    <3>10. current'[r] <= counter'[client[r]].val
          BY <3>6, <3>7
    <3>11. \A s \in Requests :
             /\ pc'[s] \in {"arriving", "incr"} => ~counted'[s] /\ current'[s] = 0
             /\ pc'[s] \in {"expire", "ttl"} => current'[s] > 0
             /\ pc'[s] = "done" <=> answer'[s] # "none"
             /\ counted'[s] => current'[s] <= counter'[client'[s]].val
             /\ answer'[s] = "allowed" /\ current'[s] > 0 => Allowed(current'[s])
             /\ answer'[s] = "refused" => ~Allowed(current'[s]) /\ current'[s] > 0
      <4> TAKE s \in Requests
      <4>1. CASE s = r
            BY <4>1, <3>3, <3>5, <3>9, <3>10
      <4>2. CASE s # r
            BY <4>2, <3>4, <3>5, <3>8 DEF CountInv
      <4> QED BY <4>1, <4>2
    <3>12. \A s, t \in Requests :
             counted'[s] /\ counted'[t] /\ client'[s] = client'[t]
             /\ current'[s] > 0 /\ current'[s] = current'[t] => s = t
      <4> TAKE s, t \in Requests
      <4>1. CASE s # r /\ t # r
            BY <4>1, <3>4, <3>5 DEF CountInv
      <4>2. CASE s = r \/ t = r
            BY <4>2, <3>4, <3>5, <3>8
      <4> QED BY <4>1, <4>2
    <3> QED BY <3>1, <3>11, <3>12 DEF CountInv
  <2>8. ASSUME NEW r \in Requests, Expire(r) PROVE CountInv'
    <3>1. \A c \in Clients : counter'[c].val = counter[c].val
          BY <2>1, <2>8, ExpireKeepsValue DEF Expire, Arm, TypeOK
    <3> QED BY <2>2, <2>8, <3>1 DEF Expire, CountInv, TypeOK, history
  <2>9. ASSUME NEW r \in Requests, Reply(r) PROVE CountInv'
    <3>1. \/ Allowed(current[r]) /\ Answer(r, "allowed")
          \/ ~Allowed(current[r]) /\ Answer(r, "refused")
          BY <2>9 DEF Reply
    <3> QED BY <2>2, <2>9, <3>1 DEF Reply, Answer, CountInv, TypeOK, history
  <2>10. ASSUME NEW r \in Requests, Fail(r) PROVE CountInv'
    <3>1. Answer(r, "error") /\ UNCHANGED <<client, current>> /\ pc[r] \in {"incr", "expire", "ttl"}
          BY <2>10 DEF Fail
    <3>2. CASE pc[r] = "incr" /\ Count(r)
      <4>1. counter'[client[r]].val = counter[client[r]].val + 1
            BY <2>1, <3>2, StoreKeepsSound DEF Count, TypeOK
      <4>2. \A s \in Requests : s # r => counted'[s] = counted[s] /\ pc'[s] = pc[s]
                                         /\ answer'[s] = answer[s]
            BY <3>1, <3>2 DEF Count, TypeOK, Answer
      <4>3. \A c \in Clients : counter[c].val \in Nat /\ counter'[c].val \in Nat
            BY DEF TypeOK, Entries
      <4>4. \A c \in Clients : c # client[r] => counter'[c] = counter[c]
            BY <3>2 DEF Count, TypeOK
      <4>5. \A c \in Clients : counter'[c].val >= counter[c].val
        <5> SUFFICES ASSUME NEW c \in Clients PROVE counter'[c].val >= counter[c].val
            OBVIOUS
        <5>1. CASE c = client[r]
              BY <4>1, <4>3, <5>1
        <5>2. CASE c # client[r]
              BY <4>3, <4>4, <5>2
        <5> QED BY <5>1, <5>2
      <4>6. current[r] = 0 /\ pc'[r] = "done" /\ answer'[r] = "error"
            BY <3>1, <3>2 DEF CountInv, Answer, TypeOK
      <4>7. \A c \in Clients : /\ IsFiniteSet(InWindow(c)')
                               /\ Cardinality(InWindow(c)') = counter'[c].val
            BY <2>3, <3>1, <3>2
      <4>8. \A s \in Requests : /\ client[s] \in Clients /\ current[s] \in Nat
                                /\ counted[s] \in BOOLEAN
            BY DEF TypeOK
      <4> QED BY <3>1, <4>2, <4>3, <4>5, <4>6, <4>7, <4>8 DEF CountInv
    <3>3. CASE counted' = counted /\ \A c \in Clients : counter'[c].val = counter[c].val
          BY <2>2, <3>1, <3>3 DEF Answer, CountInv, TypeOK
    <3>4. Arm(client[r]) => \A c \in Clients : counter'[c].val = counter[c].val
          BY <2>1, ExpireKeepsValue DEF Arm, TypeOK
    <3> QED BY <2>10, <3>2, <3>3, <3>4 DEF Fail, history
  <2> QED BY <2>4, <2>5, <2>6, <2>7, <2>8, <2>9, <2>10 DEF Next, Advance
<1> QED BY <1>1, <1>2, TypeCorrect, PTL DEF Spec

\* Allowed requests with distinct numbers are at most Limit.
LEMMA PlacesLimited ==
    ASSUME TypeOK, CountInv, NEW G, G \subseteq Granted,
           \A r, s \in G : current[r] = current[s] => r = s
    PROVE  IsFiniteSet(G) /\ Cardinality(G) <= Limit
<1> DEFINE place == [r \in G |-> current[r]]
<1>1. \A r \in G : current[r] \in 1..Limit
      BY LimitAssumption DEF CountInv, Granted, Allowed, TypeOK
<1>2. place \in Injection(G, 1..Limit)
      BY <1>1 DEF Injection, IsInjective
<1>3. IsFiniteSet(1..Limit) /\ Cardinality(1..Limit) = Limit
      BY FS_Interval, LimitAssumption
<1>4. IsFiniteSet(G) /\ Cardinality(G) <= Cardinality(1..Limit)
      BY <1>2, <1>3, FS_Injection
<1> QED BY <1>3, <1>4

\* No interleaving of handlers, and no failing store call, lets more than
\* Limit requests of one window through.
THEOREM BudgetKept == Spec => []WindowBudget
<1>1. TypeOK /\ CountInv => WindowBudget
  <2> SUFFICES ASSUME TypeOK, CountInv, NEW c \in Clients
               PROVE  Cardinality(InWindow(c) \cap Granted) <= Limit
      BY DEF WindowBudget
  <2>1. \A r, s \in InWindow(c) \cap Granted : current[r] = current[s] => r = s
        BY DEF CountInv, Granted, InWindow
  <2> QED BY <2>1, PlacesLimited
<1> QED BY <1>1, TypeCorrect, CountingCorrect, PTL

\* Nobody is refused while its window has counted no more than Limit requests.
THEOREM RefusalsJustified == Spec => []NoSpuriousRefusal
<1>1. TypeOK /\ CountInv => NoSpuriousRefusal
  <2> SUFFICES ASSUME TypeOK, CountInv, NEW r \in Requests,
                      answer[r] = "refused", counted[r]
               PROVE  Cardinality(InWindow(client[r])) > Limit
      BY DEF NoSpuriousRefusal
  <2>1. ~(current[r] <= Limit) /\ current[r] <= counter[client[r]].val
        BY DEF CountInv, Allowed
  <2>2. Cardinality(InWindow(client[r])) = counter[client[r]].val
        BY DEF CountInv, TypeOK
  <2> QED BY <2>1, <2>2, LimitAssumption DEF TypeOK, Entries
<1> QED BY <1>1, TypeCorrect, CountingCorrect, PTL
-----------------------------------------------------------------------------
\* EXPIRE gives an existing counter a running expiry of whole seconds, at
\* least as long as the configured window.
LEMMA ExpireArms ==
    ASSUME NEW e, Sound(e), Store!Exists(e)
    PROVE  /\ Store!Expire(e, WindowSeconds * Second).left = WindowSeconds * Second
           /\ WindowSeconds * Second \in Nat /\ WindowSeconds * Second >= Window
           /\ WindowSeconds * Second > 0
<1>1. /\ WindowSeconds * Second \in Nat /\ WindowSeconds * Second >= Window
      /\ WindowSeconds * Second > 0
      BY WindowSecondsSuffice, TimeAssumption
<1>2. Store!Expire(e, WindowSeconds * Second).left = WindowSeconds * Second
      BY <1>1 DEF Sound, Entries, Store!Expire
<1> QED BY <1>1, <1>2

\* INCR leaves an expiry alone and starts a new counter without one.
LEMMA IncrKeepsExpiry ==
    ASSUME NEW e, Sound(e)
    PROVE  /\ Store!Exists(Store!Incr(e))
           /\ Store!Exists(e) => Store!Incr(e).left = e.left
           /\ ~Store!Exists(e) => Store!Incr(e).left = Store!Forever
BY DEF Sound, Entries, Store!Incr, Store!Exists, Store!Forever

\* A tick takes one tick off a running expiry and leaves the others alone.
LEMMA ElapseCountsDown ==
    ASSUME NEW e, Sound(e)
    PROVE  /\ e.left > 0 => Store!Elapse(e).left = e.left - 1
           /\ ~(e.left > 0) => Store!Elapse(e) = e
<1>1. CASE e.left > 1
  <2>1. Store!Elapse(e).left = e.left - 1 /\ e.left > 0
        BY <1>1 DEF Sound, Entries, Store!Elapse, Store!Forever
  <2> QED BY <2>1
<1>2. CASE e.left = 1
      BY <1>2 DEF Sound, Entries, Store!Elapse, Store!Gone
<1>3. CASE ~(e.left > 1) /\ e.left # 1
      BY <1>3 DEF Sound, Entries, Store!Elapse, Store!Forever
<1> QED BY <1>1, <1>2, <1>3 DEF Sound, Entries, Store!Forever

\* Only the first request of a window that has no expiry is about to arm it;
\* an unarmed window has that request, or one whose store calls failed.
THEOREM ArmingCorrect == Spec => []ArmInv
<1>1. Init => ArmInv
      BY DEF Init, ArmInv, Store!Gone, Store!Forever
<1>2. TypeOK /\ TypeOK' /\ CountInv /\ ArmInv /\ [Next]_vars => ArmInv'
  <2> SUFFICES ASSUME TypeOK, TypeOK', CountInv, ArmInv, [Next]_vars PROVE ArmInv'
      OBVIOUS
  <2>1. \A c \in Clients : Sound(counter[c])
        BY DEF Sound, TypeOK
  <2>2. \A r, s \in Requests : pc[r] = "expire" /\ pc[s] = "expire" /\ r # s
                                => client[r] # client[s]
        BY DEF ArmInv, CountInv
  <2>3. CASE UNCHANGED vars
        BY <2>3 DEF vars, handler, history, ArmInv, InWindow
  <2>4. CASE Tick
    <3>1. \A c \in Clients : /\ counter[c].left = Store!Forever => counter'[c] = counter[c]
                             /\ counter'[c].left = Store!Forever => counter[c].left = Store!Forever
          BY <2>1, <2>4, ElapseCountsDown DEF Tick, Store!Forever, Sound, Entries
    <3>2. UNCHANGED <<pc, client, current, answer>>
          BY <2>4 DEF Tick
    <3>3. \A r \in Requests :
             counted[r] /\ counter'[client[r]].left = Store!Forever => counted'[r]
      <4>1. ASSUME NEW r \in Requests, counted[r], counter'[client[r]].left = Store!Forever
            PROVE  Store!Exists(counter'[client[r]])
            BY <4>1 DEF Store!Exists, Store!Forever
      <4> QED BY <2>4, <4>1 DEF Tick
    <3> QED BY <3>1, <3>2, <3>3 DEF ArmInv, TypeOK, InWindow
  <2>5. ASSUME NEW r \in Requests, Arrive(r) PROVE ArmInv'
    <3>1. pc[r] = "arriving" /\ ~counted[r] /\ pc'[r] # "expire"
          BY <2>5 DEF Arrive, Bypass, Unlimited, Misconfigured, Enter, Answer, CountInv, TypeOK
    <3>2. UNCHANGED <<counter, client, current, counted>>
          BY <2>5 DEF Arrive, Bypass, Unlimited, Misconfigured, Enter, history
    <3>3. \A s \in Requests : s # r => pc'[s] = pc[s] /\ answer'[s] = answer[s]
          BY <2>5 DEF Arrive, Bypass, Unlimited, Misconfigured, Enter, Answer, TypeOK
    <3> QED BY <3>1, <3>2, <3>3 DEF ArmInv, InWindow
  <2>6. ASSUME NEW r \in Requests, Incr(r) \/ (pc[r] = "incr" /\ Fail(r) /\ Count(r))
        PROVE  /\ \A s \in Requests : s # r =>
                    (pc[s] = "expire" <=> pc'[s] = "expire")
                    /\ counted'[s] = counted[s] /\ current'[s] = current[s]
               /\ \A c \in Clients :
                    /\ c # client[r] => counter'[c] = counter[c]
                    /\ counter[c].left = Store!Forever => counter'[c].left = Store!Forever
               /\ counter'[client[r]].left = Store!Forever =>
                     \/ counter[client[r]].left = Store!Forever
                     \/ counter[client[r]].val = 0
               /\ counter'[client[r]].val = counter[client[r]].val + 1
               /\ UNCHANGED client
    <3>1. Count(r) /\ UNCHANGED client
          BY <2>6 DEF Incr, Fail
    <3>2. \A c \in Clients : c # client[r] => counter'[c] = counter[c]
          BY <3>1 DEF Count, TypeOK
    <3>3. counter'[client[r]] = Store!Incr(counter[client[r]]) /\ client[r] \in Clients
          BY <3>1 DEF Count, TypeOK
    <3>4. /\ counter[client[r]].left = Store!Forever => counter'[client[r]].left = Store!Forever
          /\ counter'[client[r]].left = Store!Forever =>
                     counter[client[r]].left = Store!Forever \/ counter[client[r]].val = 0
      <4>1. Store!Exists(counter[client[r]]) =>
                counter'[client[r]].left = counter[client[r]].left
            BY <2>1, <3>3, IncrKeepsExpiry
      <4>2. Store!Exists(counter[client[r]]) \/ counter[client[r]].val = 0
            BY <3>3 DEF TypeOK, Entries
      <4>3. counter[client[r]].left = Store!Forever => Store!Exists(counter[client[r]])
            BY DEF Store!Exists, Store!Forever
      <4> QED BY <4>1, <4>2, <4>3
    <3>5. counter'[client[r]].val = counter[client[r]].val + 1
          BY <2>1, <3>3, StoreKeepsSound
    <3>6. \A s \in Requests : s # r => (pc[s] = "expire" <=> pc'[s] = "expire")
                                       /\ counted'[s] = counted[s] /\ current'[s] = current[s]
          BY <2>6, <3>1 DEF Incr, Fail, Answer, Count, TypeOK
    <3> QED BY <3>1, <3>2, <3>3, <3>4, <3>5, <3>6
  <2>7. ASSUME NEW r \in Requests, Incr(r) PROVE ArmInv'
    <3>1. /\ current'[r] = counter[client[r]].val + 1
          /\ pc'[r] = "expire" <=> current'[r] = 1
          /\ counted'[r]
          /\ pc[r] = "incr" /\ client[r] \in Clients /\ counter[client[r]].val \in Nat
      <4>1. client[r] \in Clients /\ counter[client[r]].val \in Nat
            BY DEF TypeOK, Entries
      <4>2. counter'[client[r]].val = counter[client[r]].val + 1
            BY <2>6, <2>7
      <4>3. current'[r] = counter'[client[r]].val
            BY <2>7 DEF Incr, TypeOK
      <4>4. pc[r] = "incr" /\ counted'[r]
            BY <2>7 DEF Incr, Count, TypeOK
      <4>5. pc'[r] = "expire" <=> current'[r] = 1
            BY <2>7 DEF Incr, FirstHit, TypeOK
      <4> QED BY <4>1, <4>2, <4>3, <4>4, <4>5
    <3>2. counter[client[r]].val = 0 => counter'[client[r]].left = Store!Forever
      <4>1. counter'[client[r]] = Store!Incr(counter[client[r]])
            BY <2>7, <3>1 DEF Incr, Count, TypeOK
      <4>2. counter[client[r]].val = 0 => ~Store!Exists(counter[client[r]])
            BY <3>1 DEF TypeOK
      <4> QED BY <2>1, <3>1, <4>1, <4>2, IncrKeepsExpiry
    <3>3. \A s \in Requests : pc'[s] = "expire" =>
             counted'[s] /\ current'[s] = 1 /\ counter'[client'[s]].left = Store!Forever
          BY <2>6, <2>7, <3>1, <3>2 DEF ArmInv, TypeOK
    <3>4. UNCHANGED <<client, answer>>
          BY <2>7 DEF Incr
    <3>5. ASSUME NEW c \in Clients, counter'[c].left = Store!Forever
          PROVE  \E s \in Requests : /\ client'[s] = c /\ counted'[s]
                                     /\ pc'[s] = "expire" \/ answer'[s] = "error"
      <4>1. CASE counter[c].left = Store!Forever
        <5>1. PICK s \in InWindow(c) : pc[s] = "expire" \/ answer[s] = "error"
              BY <4>1 DEF ArmInv
        <5>2. s \in Requests /\ client[s] = c /\ counted[s] /\ s # r
              BY <3>1, <5>1 DEF InWindow, CountInv
        <5> QED BY <2>6, <2>7, <3>4, <5>1, <5>2
      <4>2. CASE counter[c].left # Store!Forever
            BY <2>6, <2>7, <3>1, <3>4, <3>5, <4>2
      <4> QED BY <4>1, <4>2
    <3> QED BY <3>3, <3>5 DEF ArmInv, InWindow
  <2>8. ASSUME NEW r \in Requests, Expire(r) PROVE ArmInv'
    <3>1. client[r] \in Clients /\ pc[r] = "expire" /\ counter[client[r]].left = Store!Forever
          BY <2>8 DEF Expire, ArmInv, TypeOK
    <3>2. counter'[client[r]].left # Store!Forever
          BY <2>1, <2>8, <3>1, ExpireArms
             DEF Expire, Arm, TypeOK, Store!Exists, Store!Forever
    <3>3. \A s \in Requests : s # r => pc'[s] = pc[s]
          BY <2>8 DEF Expire, TypeOK
    <3>4. \A c \in Clients : c # client[r] => counter'[c] = counter[c]
          BY <2>8 DEF Expire, Arm, TypeOK
    <3>5. pc'[r] = "ttl" /\ UNCHANGED <<client, current, counted>>
          BY <2>8 DEF Expire, TypeOK, history
    <3>6. \A s \in Requests : client[s] \in Clients
          BY DEF TypeOK
    <3>7. \A s \in Requests : pc'[s] = "expire" =>
             counted'[s] /\ current'[s] = 1 /\ counter'[client'[s]].left = Store!Forever
          BY <2>2, <3>1, <3>3, <3>4, <3>5, <3>6 DEF ArmInv
    <3>8. ASSUME NEW c \in Clients, counter'[c].left = Store!Forever
          PROVE  \E s \in Requests : /\ client'[s] = c /\ counted'[s]
                                     /\ pc'[s] = "expire" \/ answer'[s] = "error"
      <4>1. c # client[r] /\ counter[c].left = Store!Forever
            BY <3>2, <3>4, <3>8
      <4>2. PICK s \in InWindow(c) : pc[s] = "expire" \/ answer[s] = "error"
            BY <4>1 DEF ArmInv
      <4>3. s \in Requests /\ client[s] = c /\ counted[s] /\ s # r
            BY <4>1, <4>2 DEF InWindow
      <4>4. UNCHANGED answer
            BY <2>8 DEF Expire
      <4> QED BY <3>3, <3>5, <4>2, <4>3, <4>4
    <3> QED BY <3>7, <3>8 DEF ArmInv, InWindow
  <2>9. ASSUME NEW r \in Requests, Reply(r) PROVE ArmInv'
    <3>1. pc[r] = "ttl" /\ pc'[r] # "expire" /\ answer[r] = "none"
          BY <2>9 DEF Reply, Answer, CountInv, TypeOK
    <3>2. UNCHANGED <<counter, client, current, counted>>
          BY <2>9 DEF Reply, history
    <3>3. \A s \in Requests : s # r => pc'[s] = pc[s] /\ answer'[s] = answer[s]
          BY <2>9 DEF Reply, Answer, TypeOK
    <3> QED BY <3>1, <3>2, <3>3 DEF ArmInv, InWindow
  <2>10. ASSUME NEW r \in Requests, Fail(r) PROVE ArmInv'
    <3>1. Answer(r, "error") /\ UNCHANGED <<client, current>>
          BY <2>10 DEF Fail
    <3>2. \A s \in Requests : s # r => pc'[s] = pc[s] /\ answer'[s] = answer[s]
          BY <3>1 DEF Answer, TypeOK
    <3>3. pc'[r] = "done" /\ answer'[r] = "error" /\ client[r] \in Clients
          BY <3>1 DEF Answer, TypeOK
    <3>4. CASE pc[r] = "incr" /\ Count(r)
      <4>1. \A s \in Requests : s # r => counted'[s] = counted[s]
            BY <2>6, <2>10, <3>4
      <4>2. counted'[r]
            BY <3>4 DEF Count, TypeOK
      <4>3. \A s \in Requests : pc'[s] = "expire" =>
               counted'[s] /\ current'[s] = 1 /\ counter'[client'[s]].left = Store!Forever
            BY <2>6, <2>10, <3>1, <3>3, <3>4 DEF ArmInv, TypeOK
      <4>4. ASSUME NEW c \in Clients, counter'[c].left = Store!Forever
            PROVE  \E s \in Requests : /\ client'[s] = c /\ counted'[s]
                                       /\ pc'[s] = "expire" \/ answer'[s] = "error"
        <5>1. CASE c = client[r]
              BY <3>1, <3>3, <4>2, <5>1
        <5>2. CASE c # client[r]
          <6>1. counter[c].left = Store!Forever
                BY <2>6, <2>10, <3>4, <4>4, <5>2
          <6>2. PICK s \in InWindow(c) : pc[s] = "expire" \/ answer[s] = "error"
                BY <6>1 DEF ArmInv
          <6>3. s \in Requests /\ client[s] = c /\ counted[s] /\ s # r
                BY <5>2, <6>2 DEF InWindow
          <6> QED BY <3>1, <3>2, <4>1, <6>2, <6>3
        <5> QED BY <5>1, <5>2
      <4> QED BY <4>3, <4>4 DEF ArmInv, InWindow
    <3>5. CASE pc[r] = "expire" /\ Arm(client[r]) /\ UNCHANGED history
      <4>1. \A c \in Clients : c # client[r] => counter'[c] = counter[c]
            BY <3>5 DEF Arm, TypeOK
      <4>2. \A s \in Requests : pc'[s] = "expire" =>
               counted'[s] /\ current'[s] = 1 /\ counter'[client'[s]].left = Store!Forever
            BY <2>2, <3>1, <3>2, <3>3, <3>5, <4>1 DEF ArmInv, TypeOK, history
      <4>3. counted[r]
            BY <3>5 DEF ArmInv
      <4> QED BY <3>1, <3>2, <3>3, <3>5, <4>1, <4>2, <4>3 DEF ArmInv, InWindow, history
    <3>6. CASE UNCHANGED <<counter, history>>
          BY <3>1, <3>2, <3>3, <3>6 DEF ArmInv, InWindow, TypeOK, history
    <3> QED BY <2>10, <3>4, <3>5, <3>6 DEF Fail
  <2> QED BY <2>3, <2>4, <2>5, <2>7, <2>8, <2>9, <2>10 DEF Next, Advance
<1> QED BY <1>1, <1>2, TypeCorrect, CountingCorrect, PTL DEF Spec

\* Every unarmed counter has exactly one request on its way to arm it, unless
\* none is, because a request of its window failed.
THEOREM EveryWindowArmed == Spec => []ArmedOrPending
<1>1. TypeOK /\ CountInv /\ ArmInv => ArmedOrPending
  <2> SUFFICES ASSUME TypeOK, CountInv, ArmInv, NEW c \in Clients,
                      counter[c].left = Store!Forever, ~Orphaned(c)
               PROVE  Cardinality({r \in InWindow(c) : pc[r] = "expire"}) = 1
      BY DEF ArmedOrPending
  <2>1. PICK s \in InWindow(c) : pc[s] = "expire"
    <3>1. \E r \in InWindow(c) : pc[r] = "expire" \/ answer[r] = "error"
          BY DEF ArmInv
    <3> QED BY <3>1 DEF Orphaned
  <2>2. \A r \in InWindow(c) : pc[r] = "expire" => r = s
        BY <2>1 DEF ArmInv, CountInv, InWindow
  <2>3. {r \in InWindow(c) : pc[r] = "expire"} = {s}
        BY <2>1, <2>2
  <2> QED BY <2>3, FS_Singleton
<1> QED BY <1>1, TypeCorrect, CountingCorrect, ArmingCorrect, PTL

\* No request and no failing call ever renews the expiry of a running window.
THEOREM WindowsNotExtended == Spec => WindowNeverExtended
<1> DEFINE Step == \A c \in Clients : counter[c].left > 0 =>
                     counter'[c].left \in {counter[c].left, counter[c].left - 1}
<1>1. TypeOK /\ ArmInv /\ [Next]_vars => [Step]_vars
  <2> SUFFICES ASSUME TypeOK, ArmInv, Next PROVE Step
      BY DEF vars
  <2>1. \A c \in Clients : Sound(counter[c])
        BY DEF Sound, TypeOK
  <2>2. ASSUME NEW r \in Requests, Count(r) PROVE Step
    <3>1. \A c \in Clients : counter'[c] = IF c = client[r] THEN Store!Incr(counter[c])
                                                           ELSE counter[c]
          BY <2>2 DEF Count, TypeOK
    <3>2. \A c \in Clients : counter[c].left > 0 => Store!Exists(counter[c])
          BY <2>1 DEF Store!Exists
    <3> QED BY <2>1, <3>1, <3>2, IncrKeepsExpiry
  <2>3. ASSUME NEW r \in Requests, pc[r] = "expire", Arm(client[r]) PROVE Step
    <3>1. counter[client[r]].left = Store!Forever /\ client[r] \in Clients
          BY <2>3 DEF ArmInv, TypeOK
    <3>2. \A c \in Clients : c # client[r] => counter'[c] = counter[c]
          BY <2>3 DEF Arm, TypeOK
    <3> QED BY <3>1, <3>2 DEF Store!Forever
  <2>4. CASE Tick
        BY <2>1, <2>4, ElapseCountsDown DEF Tick
  <2>5. ASSUME UNCHANGED counter PROVE Step
        BY <2>5
  <2>6. ASSUME NEW r \in Requests, Arrive(r) \/ Advance(r) PROVE Step
    <3>1. Arrive(r) \/ Reply(r) => UNCHANGED counter
          BY DEF Arrive, Bypass, Unlimited, Misconfigured, Enter, Reply
    <3>2. Incr(r) => Count(r)
          BY DEF Incr
    <3>3. Expire(r) => pc[r] = "expire" /\ Arm(client[r])
          BY DEF Expire
    <3>4. Fail(r) => Count(r) \/ UNCHANGED counter \/ (pc[r] = "expire" /\ Arm(client[r]))
          BY DEF Fail
    <3> QED BY <2>2, <2>3, <2>5, <2>6, <3>1, <3>2, <3>3, <3>4 DEF Advance
  <2> QED BY <2>4, <2>6 DEF Next
<1> QED BY <1>1, TypeCorrect, ArmingCorrect, PTL DEF Spec, WindowNeverExtended
-----------------------------------------------------------------------------
\* A step of a request counts it, arms its window or leaves the store alone, and
\* never concerns what other requests know.
LEMMA StepKinds ==
    ASSUME TypeOK, NEW r \in Requests, Arrive(r) \/ Advance(r)
    PROVE  /\ UNCHANGED client
           /\ \/ pc[r] = "incr" /\ Count(r)
              \/ pc[r] = "expire" /\ Arm(client[r]) /\ UNCHANGED history
              \/ UNCHANGED <<counter, history>>
           /\ \A s \in Requests : s # r =>
                 UNCHANGED <<pc[s], current[s], answer[s], wait[s], told[s]>>
<1> USE DEF TypeOK, Answer
<1>1. CASE Arrive(r)
      BY <1>1 DEF Arrive, Bypass, Unlimited, Misconfigured, Enter
<1>2. CASE Incr(r)
      BY <1>2 DEF Incr
<1>3. CASE Expire(r)
      BY <1>3 DEF Expire
<1>4. CASE Reply(r)
      BY <1>4 DEF Reply
<1>5. CASE Fail(r)
      BY <1>5 DEF Fail
<1> QED BY <1>1, <1>2, <1>3, <1>4, <1>5 DEF Advance

\* To a counter such a step does nothing that shortens or extends its window.
LEMMA StepKeepsWindow ==
    ASSUME TypeOK, ArmInv, NEW r \in Requests, Arrive(r) \/ Advance(r), NEW c \in Clients
    PROVE  /\ counter[c].left > 0 => counter'[c].left = counter[c].left
           /\ counter'[c].left > 0 => counter[c].left > 0 \/ counter'[c].left >= Window
           /\ Store!Exists(counter[c]) => Store!Exists(counter'[c])
           /\ since'[c] = since[c]
<1>1. Sound(counter[c]) /\ client[r] \in Clients
      BY DEF Sound, TypeOK
<1>2. CASE Count(r)
  <2>1. counter'[c] = IF c = client[r] THEN Store!Incr(counter[c]) ELSE counter[c]
        BY <1>2 DEF Count, TypeOK
  <2> QED BY <1>1, <1>2, <2>1, IncrKeepsExpiry DEF Count, Store!Exists, Store!Forever
<1>3. CASE pc[r] = "expire" /\ Arm(client[r]) /\ UNCHANGED history
  <2>1. CASE c = client[r]
    <3>1. counter[c].left = Store!Forever
          BY <1>3, <2>1 DEF ArmInv
    <3>2. counter'[c] = Store!Expire(counter[c], WindowSeconds * Second)
          BY <1>3, <2>1, <1>1 DEF Arm, TypeOK
    <3> QED BY <1>1, <1>3, <3>1, <3>2, ExpireArms DEF Store!Exists, Store!Forever, history
  <2>2. CASE c # client[r]
        BY <1>3, <2>2 DEF Arm, TypeOK, history
  <2> QED BY <2>1, <2>2
<1>4. CASE UNCHANGED <<counter, history>>
      BY <1>4 DEF history
<1> QED BY <1>2, <1>3, <1>4, StepKinds

\* A whole number of seconds that TTL gives is less than a second off.
LEMMA RepliesTrue ==
    ASSUME NEW e \in Entries, NEW ttl \in Store!TtlReplies(e, Second), ttl > 0
    PROVE  e.left > 0 /\ e.left < ttl * Second + Second
<1>1. Second \in Nat \ {0} /\ e.left \in Nat \cup {-1}
      BY TimeAssumption DEF Entries, Store!Forever
<1>2. e.left > 0 /\ ttl \in {e.left \div Second, (e.left + Second - 1) \div Second}
      BY <1>1 DEF Store!TtlReplies, Store!Forever
<1>3. e.left \in Nat
      BY <1>1, <1>2
<1> DEFINE n == e.left
           m == e.left + Second - 1
<1>4. n \in Nat /\ m \in Nat /\ m >= n
      BY <1>1, <1>3
<1> HIDE DEF n, m
<1>5. /\ n = Second * (n \div Second) + (n % Second) /\ n % Second \in 0..(Second - 1)
      /\ m = Second * (m \div Second) + (m % Second) /\ m % Second \in 0..(Second - 1)
      /\ n \div Second \in Int /\ m \div Second \in Int
      BY <1>1, <1>4
<1>6. \A k \in Int : k * Second = Second * k
      BY <1>1
<1>7. n < (n \div Second) * Second + Second
      BY <1>1, <1>4, <1>5, <1>6
<1>8. n < (m \div Second) * Second + Second
      BY <1>1, <1>4, <1>5, <1>6
<1> QED BY <1>2, <1>7, <1>8 DEF n, m

\* Windows that run are at least as long as configured, and a wait that was read
\* from one runs down with it.
THEOREM ClocksCorrect == Spec => []ClockInv
<1>1. Init => ClockInv
      BY TimeAssumption DEF Init, ClockInv, Store!Gone, Store!Exists
<1>2. TypeOK /\ TypeOK' /\ CountInv /\ ArmInv /\ ClockInv /\ [Next]_vars => ClockInv'
  <2> SUFFICES ASSUME TypeOK, TypeOK', CountInv, ArmInv, ClockInv, [Next]_vars
               PROVE  ClockInv'
      OBVIOUS
  <2>1. \A c \in Clients : Sound(counter[c])
        BY DEF Sound, TypeOK
  <2>2. \A r \in Requests : /\ client[r] \in Clients /\ wait[r] \in Nat
                            /\ counter[client[r]].left \in Nat \cup {-1}
        BY DEF TypeOK, Entries, Store!Forever
  <2>3. CASE UNCHANGED vars
        BY <2>3 DEF vars, handler, history, ClockInv
  <2>4. CASE Tick
    <3>1. \A c \in Clients : /\ counter'[c].left > 0 =>
                                   counter[c].left > 0 /\ counter'[c].left = counter[c].left - 1
                             /\ Store!Exists(counter'[c]) => Store!Exists(counter[c])
          BY <2>1, <2>4, ElapseCountsDown DEF Tick, Store!Exists, Sound, Entries, Store!Forever
    <3>2. ASSUME NEW c \in Clients
          PROVE  /\ counter'[c].left > 0 => since'[c] + counter'[c].left >= Window
                 /\ ~Store!Exists(counter'[c]) => since'[c] = 0
      <4>1. since'[c] = IF Store!Exists(counter'[c]) THEN Older(since[c]) ELSE 0
            BY <2>4 DEF Tick
      <4>2. since[c] \in 0..Window /\ counter[c].left \in Nat \cup {-1} /\ Window \in Nat
            BY TimeAssumption DEF TypeOK, Entries, Store!Forever
      <4>3. counter'[c].left > 0 => since'[c] + counter'[c].left >= Window
            BY <3>1, <4>1, <4>2 DEF ClockInv, Older, Store!Exists
      <4> QED BY <4>1, <4>3
    <3>3. ASSUME NEW r \in Requests, counted'[r], told'[r]
          PROVE  counter'[client[r]].left > 0 /\ counter'[client[r]].left < wait'[r] + Second
      <4>1. counted[r] /\ told[r] /\ Store!Exists(counter'[client[r]])
            BY <2>4, <3>3 DEF Tick
      <4>2. wait'[r] = IF wait[r] > 0 THEN wait[r] - 1 ELSE 0
            BY <2>4 DEF Tick
      <4>3. counter[client[r]].left > 0 /\ counter[client[r]].left < wait[r] + Second
            BY <4>1 DEF ClockInv
      <4>4. counter'[client[r]].left = counter[client[r]].left - 1
            BY <2>1, <2>2, <2>4, <4>3, ElapseCountsDown DEF Tick
      <4> QED BY <2>2, <4>1, <4>2, <4>3, <4>4, TimeAssumption DEF Store!Exists
    <3> QED BY <2>4, <3>2, <3>3 DEF ClockInv, Tick
  <2>5. ASSUME NEW r \in Requests, Arrive(r) \/ Advance(r) PROVE ClockInv'
    <3>1. \A c \in Clients : /\ counter'[c].left > 0 => since'[c] + counter'[c].left >= Window
                             /\ ~Store!Exists(counter'[c]) => since'[c] = 0
      <4>1. TAKE c \in Clients
      <4>2. since[c] \in 0..Window /\ Window \in Nat /\ counter'[c].left \in Nat \cup {-1}
            BY TimeAssumption DEF TypeOK, Entries, Store!Forever
      <4> QED BY <2>5, <4>2, StepKeepsWindow DEF ClockInv
    <3>2. ASSUME NEW s \in Requests, s # r
          PROVE  /\ told'[s] => answer'[s] = "refused"
                 /\ counted'[s] /\ told'[s] =>
                       counter'[client'[s]].left > 0 /\ counter'[client'[s]].left < wait'[s] + Second
      <4>1. /\ UNCHANGED <<client, answer[s], wait[s], told[s]>>
            /\ counted'[s] = counted[s]
            BY <2>5, <3>2, StepKinds DEF Count, history, TypeOK
      <4>2. counter[client[s]].left > 0 => counter'[client[s]].left = counter[client[s]].left
            BY <2>2, <2>5, StepKeepsWindow
      <4> QED BY <4>1, <4>2 DEF ClockInv
    <3>3. /\ told'[r] => answer'[r] = "refused"
          /\ counted'[r] /\ told'[r] =>
                counter'[client'[r]].left > 0 /\ counter'[client'[r]].left < wait'[r] + Second
      <4>1. CASE ~Reply(r)
        <5>1. ~told[r] /\ told' = told
          <6>1. pc[r] # "done"
                BY <2>5, <4>1 DEF Arrive, Bypass, Unlimited, Misconfigured, Enter, Advance,
                                  Incr, Expire, Fail
          <6>2. answer[r] # "refused"
                BY <6>1 DEF CountInv
          <6>3. told' = told
                BY <2>5, <4>1 DEF Arrive, Bypass, Unlimited, Misconfigured, Enter, Advance,
                                  Incr, Expire, Fail
          <6> QED BY <6>2, <6>3 DEF ClockInv
        <5> QED BY <5>1
      <4>2. CASE Reply(r)
        <5>1. PICK ttl \in Store!TtlReplies(counter[client[r]], Second) :
                IF Allowed(current[r])
                  THEN Answer(r, "allowed") /\ UNCHANGED <<wait, told>>
                  ELSE /\ Answer(r, "refused")
                       /\ wait' = [wait EXCEPT ![r] = RetryAfter(ttl) * Second]
                       /\ told' = [told EXCEPT ![r] = ttl > 0]
              BY <4>2 DEF Reply
        <5>2. CASE Allowed(current[r])
          <6>1. answer[r] = "none"
                BY <4>2 DEF Reply, CountInv
          <6>2. ~told'[r]
                BY <5>1, <5>2, <6>1 DEF ClockInv
          <6> QED BY <6>2
        <5>3. CASE ~Allowed(current[r])
          <6>1. /\ answer'[r] = "refused" /\ told'[r] = (ttl > 0)
                /\ wait'[r] = RetryAfter(ttl) * Second
                BY <5>1, <5>3 DEF Answer, TypeOK
          <6>2. ASSUME ttl > 0
                PROVE  counter[client[r]].left > 0
                       /\ counter[client[r]].left < ttl * Second + Second
            <7>1. counter[client[r]] \in Entries
                  BY DEF TypeOK
            <7> QED BY <5>1, <6>2, <7>1, RepliesTrue
          <6>3. UNCHANGED <<counter, client>>
                BY <4>2 DEF Reply
          <6> QED BY <6>1, <6>2, <6>3 DEF RetryAfter
        <5> QED BY <5>2, <5>3
      <4> QED BY <4>1, <4>2
    <3> QED BY <3>1, <3>2, <3>3 DEF ClockInv
  <2> QED BY <2>3, <2>4, <2>5 DEF Next
<1> QED BY <1>1, <1>2, TypeCorrect, CountingCorrect, ArmingCorrect, PTL DEF Spec

\* A client that waits as long as a running window's TTL said finds less than a
\* second of that window left.
THEOREM WaitsHonest == Spec => []RetryAfterHonest
<1>1. TypeOK /\ ClockInv => RetryAfterHonest
      BY DEF ClockInv, RetryAfterHonest
<1> QED BY <1>1, TypeCorrect, ClocksCorrect, PTL
-----------------------------------------------------------------------------
\* Counted, in a window that is over.
Past(r) == ~counted[r] /\ current[r] > 0

\* Requests of windows that are over are older than the present window, and the
\* young ones are all of one window, in which they had numbers of their own.
SlideInv ==
    /\ \A r \in Requests : Past(r) => age[r] > 0 /\ age[r] >= since[client[r]]
    /\ \A r, s \in Requests :
          /\ Past(r) /\ Past(s) /\ client[r] = client[s]
          /\ age[r] < Window /\ age[s] < Window /\ current[r] = current[s]
          => r = s

\* A window that ends has been open for Window ticks, so everything counted
\* before it is that old.
THEOREM SlidingCorrect == Spec => []SlideInv
<1>1. Init => SlideInv
      BY DEF Init, SlideInv, Past
<1>2. TypeOK /\ TypeOK' /\ CountInv /\ ArmInv /\ ClockInv /\ SlideInv /\ [Next]_vars => SlideInv'
  <2> SUFFICES ASSUME TypeOK, TypeOK', CountInv, ArmInv, ClockInv, SlideInv, [Next]_vars
               PROVE  SlideInv'
      OBVIOUS
  <2>1. \A r \in Requests : /\ client[r] \in Clients /\ age[r] \in 0..Window
                            /\ since[client[r]] \in 0..Window /\ counted[r] \in BOOLEAN
        BY DEF TypeOK
  <2>2. Window \in Nat \ {0}
        BY TimeAssumption
  <2>3. CASE UNCHANGED vars
        BY <2>3 DEF vars, handler, history, SlideInv, Past
  <2>4. CASE Tick
    <3>1. /\ UNCHANGED <<client, current>>
          /\ \A r \in Requests :
                /\ counted'[r] <=> counted[r] /\ Store!Exists(counter'[client[r]])
                /\ age'[r] = IF counted[r] \/ age[r] > 0 THEN Older(age[r]) ELSE 0
          /\ \A c \in Clients : since'[c] = IF Store!Exists(counter'[c]) THEN Older(since[c]) ELSE 0
          BY <2>4 DEF Tick
    <3>2. ASSUME NEW r \in Requests, NEW s \in Requests, counted[s], Past(s)', Past(r),
                 client[r] = client[s]
          PROVE  age'[r] = Window
      <4> DEFINE c == client[s]
      <4>1. counter[c].left > 0 /\ ~(counter[c].left > 1)
        <5>1. Sound(counter[c]) /\ counter'[c] = Store!Elapse(counter[c])
              BY <2>1, <2>4 DEF Sound, TypeOK, Tick
        <5>2. ~Store!Exists(counter'[c]) /\ counter[c].val > 0
              BY <2>1, <3>1, <3>2 DEF Past, CountInv, TypeOK, Entries
        <5>3. counter[c].left \in Nat \cup {-1} /\ counter[c].left # 0 /\ counter'[c].left = 0
              BY <5>1, <5>2 DEF Sound, Entries, Store!Exists, Store!Forever
        <5>4. counter[c].left > 0 => counter'[c].left = counter[c].left - 1
              BY <5>1, ElapseCountsDown
        <5>5. ~(counter[c].left > 0) => counter'[c] = counter[c]
              BY <5>1, ElapseCountsDown
        <5> HIDE DEF c
        <5> QED BY <5>3, <5>4, <5>5
      <4>2. since[c] + counter[c].left >= Window /\ counter[c].left \in Int
            BY <2>1, <4>1 DEF ClockInv, TypeOK, Entries, Store!Forever
      <4>3. since[c] + 1 >= Window
            BY <2>1, <2>2, <4>1, <4>2
      <4>4. age[r] > 0 /\ age[r] >= since[c]
            BY <3>2 DEF SlideInv
      <4> QED BY <2>1, <2>2, <3>1, <4>3, <4>4 DEF Older
    <3>3. ASSUME NEW r \in Requests, Past(r)'
          PROVE  age'[r] > 0 /\ age'[r] >= since'[client'[r]]
      <4>1. CASE counted[r]
        <5>1. since'[client'[r]] = 0
              BY <2>1, <3>1, <3>3, <4>1 DEF Past
        <5>2. age'[r] > 0
              BY <2>1, <2>2, <3>1, <4>1 DEF Older
        <5>3. age'[r] \in 0..Window
              BY DEF TypeOK
        <5> QED BY <2>2, <5>1, <5>2, <5>3
      <4>2. CASE ~counted[r]
        <5>1. age[r] > 0 /\ age[r] >= since[client[r]]
              BY <3>1, <3>3, <4>2 DEF SlideInv, Past
        <5> QED BY <2>1, <2>2, <3>1, <5>1 DEF Older
      <4> QED BY <4>1, <4>2
    <3>4. ASSUME NEW r \in Requests, NEW s \in Requests, Past(r)', Past(s)', client[r] = client[s],
                 age'[r] < Window, age'[s] < Window, current[r] = current[s]
          PROVE  r = s
      <4>1. CASE counted[r] /\ counted[s]
            BY <3>1, <3>4, <4>1 DEF CountInv, Past
      <4>2. CASE ~counted[r] /\ counted[s]
            BY <2>2, <3>1, <3>2, <3>4, <4>2 DEF Past
      <4>3. CASE counted[r] /\ ~counted[s]
            BY <2>2, <3>1, <3>2, <3>4, <4>3 DEF Past
      <4>4. CASE ~counted[r] /\ ~counted[s]
        <5>1. Past(r) /\ Past(s) /\ age[r] < Window /\ age[s] < Window
          <6>1. Past(r) /\ Past(s)
                BY <3>1, <3>4, <4>4 DEF Past
          <6>2. age[r] > 0 /\ age[s] > 0
                BY <6>1 DEF SlideInv
          <6> QED BY <2>1, <2>2, <3>1, <3>4, <6>1, <6>2 DEF Older
        <5> QED BY <3>4, <5>1 DEF SlideInv
      <4> QED BY <4>1, <4>2, <4>3, <4>4
    <3> QED BY <3>1, <3>3, <3>4 DEF SlideInv
  <2>5. ASSUME NEW r \in Requests, Arrive(r) \/ Advance(r) PROVE SlideInv'
    <3>1. UNCHANGED <<client, age, since>>
          BY <2>5, StepKinds DEF Count, history
    <3>2. \A s \in Requests : Past(s)' => Past(s) /\ current'[s] = current[s]
      <4>1. TAKE s \in Requests
      <4>2. counted[s] => counted'[s]
            BY <2>5, StepKinds DEF Count, history, TypeOK
      <4>3. CASE s # r
            BY <2>5, <4>2, <4>3, StepKinds DEF Past
      <4>4. CASE s = r /\ Incr(r)
            BY <4>4 DEF Incr, Count, Past, TypeOK
      <4>5. CASE s = r /\ ~Incr(r)
        <5>1. UNCHANGED current
              BY <2>5, <4>5 DEF Arrive, Bypass, Unlimited, Misconfigured, Enter, Advance,
                                Expire, Reply, Fail
        <5> QED BY <4>2, <4>5, <5>1 DEF Past
      <4> QED BY <4>3, <4>4, <4>5
    <3> QED BY <3>1, <3>2 DEF SlideInv
  <2> QED BY <2>3, <2>4, <2>5 DEF Next
<1> QED BY <1>1, <1>2, TypeCorrect, CountingCorrect, ArmingCorrect, ClocksCorrect, PTL DEF Spec

\* In any stretch of Window ticks a client gets no more than two windows' worth
\* of requests through.
THEOREM SlidingBudgetKept == Spec => []SlidingBudget
<1>1. TypeOK /\ CountInv /\ SlideInv => SlidingBudget
  <2> SUFFICES ASSUME TypeOK, CountInv, SlideInv, NEW c \in Clients
               PROVE  Cardinality({r \in Granted : client[r] = c /\ age[r] < Window}) <= 2 * Limit
      BY DEF SlidingBudget
  <2> DEFINE All  == {r \in Granted : client[r] = c /\ age[r] < Window}
             Now  == {r \in All : counted[r]}
             Then == {r \in All : ~counted[r]}
  <2>1. IsFiniteSet(Now) /\ Cardinality(Now) <= Limit
    <3>1. \A r, s \in Now : current[r] = current[s] => r = s
          BY DEF CountInv, Granted
    <3> QED BY <3>1, PlacesLimited
  <2>2. IsFiniteSet(Then) /\ Cardinality(Then) <= Limit
    <3>1. \A r, s \in Then : current[r] = current[s] => r = s
          BY DEF SlideInv, Granted, Past
    <3> QED BY <3>1, PlacesLimited
  <2>3. All = Now \cup Then
        OBVIOUS
  <2> HIDE DEF All, Now, Then
  <2>4. /\ Cardinality(All) = Cardinality(Now) + Cardinality(Then) - Cardinality(Now \cap Then)
        /\ IsFiniteSet(Now \cap Then)
        BY <2>1, <2>2, <2>3, FS_Union, FS_Intersection
  <2>5. /\ Cardinality(Now) \in Nat /\ Cardinality(Then) \in Nat
        /\ Cardinality(Now \cap Then) \in Nat
        BY <2>1, <2>2, <2>4, FS_CardinalityType
  <2>6. Cardinality(All) <= 2 * Limit
        BY <2>1, <2>2, <2>4, <2>5, LimitAssumption
  <2> QED BY <2>6 DEF All
<1> QED BY <1>1, TypeCorrect, CountingCorrect, SlidingCorrect, PTL
-----------------------------------------------------------------------------
\* What the fixed window shows of the counters: which windows are open and how
\* many places in them are taken.
IsOpen == [c \in Clients |-> Store!Exists(counter[c])]
Taken  == [c \in Clients |-> IF counter[c].val < Limit THEN counter[c].val ELSE Limit]
Told   == [r \in Requests |-> Verdict(r)]

\* INCR opens the window or finds it open, and takes a place if one is left.
LEMMA CountTakesPlace ==
    ASSUME TypeOK, NEW r \in Requests, Count(r)
    PROVE  /\ IsOpen' = [IsOpen EXCEPT ![client[r]] = TRUE]
           /\ UNCHANGED since
           /\ counter'[client[r]].val = counter[client[r]].val + 1
           /\ \/ /\ counter[client[r]].val < Limit /\ Taken[client[r]] < Limit
                 /\ Taken' = [Taken EXCEPT ![client[r]] = @ + 1]
              \/ /\ counter[client[r]].val >= Limit /\ Taken[client[r]] = Limit
                 /\ Taken' = Taken
<1> DEFINE c == client[r]
<1>1. c \in Clients /\ \A d \in Clients : Sound(counter[d])
      BY DEF TypeOK, Sound
<1>2. \A d \in Clients : counter'[d] = IF d = c THEN Store!Incr(counter[d]) ELSE counter[d]
      BY DEF Count, TypeOK
<1>3. Store!Exists(counter'[c]) /\ counter'[c].val = counter[c].val + 1
      BY <1>1, <1>2, IncrKeepsExpiry, StoreKeepsSound
<1>4. counter[c].val \in Nat /\ Limit \in Nat
      BY <1>1, LimitAssumption DEF Sound, Entries
<1> HIDE DEF c
<1>5. IsOpen' = [IsOpen EXCEPT ![c] = TRUE]
      BY <1>1, <1>2, <1>3 DEF IsOpen, Store!Exists
<1>6. CASE counter[c].val < Limit
  <2>1. Taken[c] = counter[c].val /\ Taken'[c] = counter[c].val + 1
        BY <1>1, <1>3, <1>4, <1>6 DEF Taken
  <2>2. Taken' = [Taken EXCEPT ![c] = @ + 1]
        BY <1>1, <1>2, <2>1 DEF Taken
  <2> QED BY <1>3, <1>5, <1>6, <2>1, <2>2 DEF Count, c
<1>7. CASE counter[c].val >= Limit
  <2>1. Taken[c] = Limit /\ Taken'[c] = Limit
        BY <1>1, <1>3, <1>4, <1>7 DEF Taken
  <2>2. Taken' = Taken
        BY <1>1, <1>2, <2>1 DEF Taken
  <2> QED BY <1>3, <1>5, <1>7, <2>1, <2>2 DEF Count, c
<1> QED BY <1>4, <1>6, <1>7

\* The store-based limiter implements FixedWindow: what an INCR answers is
\* decided then, an INCR whose answer is lost uses up a place, windows close only
\* after Window ticks, and nothing else shows.
THEOREM FixedWindowImplemented == Spec => ImplementsFixedWindow
<1> USE DEF IsOpen, Taken, Told
<1>1. Init => Abstract!Init
  <2> SUFFICES ASSUME Init PROVE Abstract!Init
      OBVIOUS
  <2>1. \A c \in Clients : ~Store!Exists(counter[c]) /\ counter[c].val = 0
        BY DEF Init, Store!Gone, Store!Exists
  <2>2. \A r \in Requests : Verdict(r) = "none"
        BY DEF Init, Verdict
  <2>3. Taken = [c \in Clients |-> 0]
        BY <2>1, LimitAssumption
  <2>4. IsOpen = [c \in Clients |-> FALSE]
        BY <2>1 DEF Store!Exists
  <2>5. since = [c \in Clients |-> 0]
        BY DEF Init
  <2>6. Told = [r \in Requests |-> "none"]
        BY <2>2
  <2> QED BY <2>3, <2>4, <2>5, <2>6 DEF Abstract!Init
<1>2. /\ TypeOK /\ TypeOK' /\ CountInv /\ ArmInv /\ ClockInv /\ [Next]_vars
      => [Abstract!Next]_(Abstract!vars)
  <2> SUFFICES ASSUME TypeOK, TypeOK', CountInv, ArmInv, ClockInv, Next
               PROVE  Abstract!Next \/ UNCHANGED Abstract!vars
      BY DEF vars, handler, history, Abstract!vars, Verdict, Store!Exists, Allowed
  <2>1. \A c \in Clients : Sound(counter[c])
        BY DEF Sound, TypeOK
  <2>2. ASSUME UNCHANGED <<counter, current, since>> PROVE UNCHANGED Abstract!vars
        BY <2>2 DEF Abstract!vars, Verdict, Store!Exists, Allowed
  <2>3. ASSUME NEW r \in Requests, Incr(r) PROVE Abstract!Next
    <3>0. PICK c \in Clients : c = client[r]
          BY DEF TypeOK
    <3>1. Count(r) /\ current[r] = 0
          BY <2>3 DEF Incr, CountInv, TypeOK
    <3>2. /\ IsOpen' = [IsOpen EXCEPT ![c] = TRUE] /\ UNCHANGED since
          /\ current' = [current EXCEPT ![r] = counter[c].val + 1]
          /\ counter[c].val \in Nat
          BY <2>3, <3>0, <3>1, CountTakesPlace DEF Incr, TypeOK, Entries
    <3>3. /\ Told[r] = "none"
          /\ Told' = [Told EXCEPT ![r] = IF counter[c].val < Limit THEN "granted" ELSE "refused"]
      <4>1. Verdict(r) = "none"
            BY <3>1 DEF Verdict
      <4>2. \A s \in Requests : s # r => Verdict(s)' = Verdict(s)
            BY <3>2 DEF Verdict, Allowed, TypeOK
      <4>3. current'[r] = counter[c].val + 1
            BY <3>2 DEF TypeOK
      <4>4. Verdict(r)' = IF counter[c].val < Limit THEN "granted" ELSE "refused"
            BY <3>2, <4>3, LimitAssumption DEF Verdict, Allowed
      <4> QED BY <4>1, <4>2, <4>4
    <3>4. CASE counter[c].val < Limit
      <4>1. Taken[c] < Limit /\ Taken' = [Taken EXCEPT ![c] = @ + 1]
        <5>1. ~(counter[c].val >= Limit)
              BY <3>2, <3>4, LimitAssumption
        <5> HIDE DEF Taken, IsOpen
        <5> QED BY <3>0, <3>1, <5>1, CountTakesPlace
      <4>2. Abstract!Grant(r, c)
            BY <3>2, <3>3, <3>4, <4>1 DEF Abstract!Grant, Abstract!Open, Abstract!Take,
                                          Abstract!Decide
      <4> QED BY <4>2 DEF Abstract!Next
    <3>5. CASE ~(counter[c].val < Limit)
      <4>1. Taken[c] = Limit /\ Taken' = Taken
            BY <3>0, <3>1, <3>5, CountTakesPlace
      <4>2. Abstract!Refuse(r, c)
            BY <3>2, <3>3, <3>5, <4>1 DEF Abstract!Refuse, Abstract!Open, Abstract!Full,
                                          Abstract!Decide
      <4> QED BY <4>2 DEF Abstract!Next
    <3> QED BY <3>4, <3>5
  <2>4. ASSUME NEW r \in Requests, Count(r), UNCHANGED current PROVE Abstract!Next
    <3>1. PICK c \in Clients : c = client[r]
          BY DEF TypeOK
    <3>2. Told' = Told
          BY <2>4 DEF Verdict, Allowed
    <3>3. Abstract!Lose(c)
          BY <2>4, <3>1, <3>2, CountTakesPlace DEF Abstract!Lose, Abstract!Open, Abstract!Take,
                                             Abstract!Full
    <3> QED BY <3>1, <3>3 DEF Abstract!Next
  <2>5. ASSUME NEW r \in Requests, pc[r] = "expire", Arm(client[r]), UNCHANGED <<current, since>>
        PROVE  UNCHANGED Abstract!vars
    <3>1. \A c \in Clients : /\ Store!Exists(counter'[c]) <=> Store!Exists(counter[c])
                             /\ counter'[c].val = counter[c].val
      <4>1. TAKE c \in Clients
      <4>2. CASE c = client[r]
        <5>1. Store!Exists(counter[c])
              BY <2>5, <4>2 DEF ArmInv, Store!Exists, Store!Forever
        <5>2. counter'[c] = Store!Expire(counter[c], WindowSeconds * Second)
              BY <2>5, <4>2 DEF Arm, TypeOK
        <5> QED BY <2>1, <5>1, <5>2, ExpireArms, ExpireKeepsValue DEF Store!Exists
      <4>3. CASE c # client[r]
            BY <2>5, <4>3 DEF Arm, TypeOK
      <4> QED BY <4>2, <4>3
    <3>2. IsOpen' = IsOpen
          BY <3>1 DEF Store!Exists
    <3>3. Taken' = Taken
          BY <3>1
    <3>4. Told' = Told
          BY <2>5 DEF Verdict, Allowed
    <3> QED BY <2>5, <3>2, <3>3, <3>4 DEF Abstract!vars
  <2>6. CASE Tick
    <3> DEFINE closed == {c \in Clients : Store!Exists(counter[c]) /\ ~Store!Exists(counter'[c])}
    <3>1. \A c \in Clients : Sound(counter'[c]) /\ counter'[c] = Store!Elapse(counter[c])
          BY <2>1, <2>6, StoreKeepsSound DEF Tick
    <3>2. \A c \in Clients : /\ Store!Exists(counter'[c]) => Store!Exists(counter[c])
                             /\ c \notin closed => counter'[c].val = counter[c].val
                             /\ c \in closed => counter'[c].val = 0
      <4>1. TAKE c \in Clients
      <4>2. IF Store!Exists(counter'[c])
              THEN Store!Exists(counter[c]) /\ counter'[c].val = counter[c].val
              ELSE counter'[c].val = 0
            BY <2>1, <3>1, ElapseKeepsValue
      <4>3. ~Store!Exists(counter[c]) => counter[c].val = 0
            BY <2>1 DEF Sound, Entries
      <4> QED BY <4>2, <4>3
    <3>3. ASSUME NEW c \in closed PROVE since[c] + 1 >= Window
      <4>1. counter[c].left \in Nat \cup {-1} /\ counter[c].left # 0 /\ counter'[c].left = 0
            BY <2>1 DEF Sound, Entries, Store!Exists, Store!Forever
      <4>2. /\ counter[c].left > 0 => counter'[c].left = counter[c].left - 1
            /\ ~(counter[c].left > 0) => counter'[c] = counter[c]
            BY <2>1, <3>1, ElapseCountsDown
      <4>3. counter[c].left = 1
            BY <4>1, <4>2
      <4> QED BY <4>3 DEF ClockInv
    <3>4. Told' = Told
          BY <2>6 DEF Tick, Verdict, Allowed
    <3>5. IsOpen' = [c \in Clients |-> IsOpen[c] /\ c \notin closed]
          BY <3>2 DEF Store!Exists
    <3>6. Taken' = [c \in Clients |-> IF c \in closed THEN 0 ELSE Taken[c]]
          BY <3>2, LimitAssumption
    <3>7. since' = [c \in Clients |-> IF ~IsOpen[c] \/ c \in closed THEN 0
                                      ELSE IF since[c] < Window THEN since[c] + 1 ELSE Window]
          BY <2>6, <3>2 DEF Tick, Older
    <3>8. closed \in SUBSET {c \in Clients : IsOpen[c] /\ since[c] + 1 >= Window}
          BY <3>3
    <3> HIDE DEF closed
    <3>9. Abstract!Pass
          BY <3>4, <3>5, <3>6, <3>7, <3>8 DEF Abstract!Pass
    <3> QED BY <3>9 DEF Abstract!Next
  <2>7. ASSUME NEW r \in Requests, Arrive(r) \/ Advance(r)
        PROVE  Abstract!Next \/ UNCHANGED Abstract!vars
    <3>1. CASE Incr(r)
          BY <2>3, <3>1
    <3>2. CASE ~Incr(r)
      <4>1. UNCHANGED current
            BY <2>7, <3>2 DEF Arrive, Bypass, Unlimited, Misconfigured, Enter, Advance,
                              Expire, Reply, Fail
      <4>2. CASE Count(r)
            BY <2>4, <4>1, <4>2
      <4>3. CASE pc[r] = "expire" /\ Arm(client[r]) /\ UNCHANGED history
            BY <2>5, <4>1, <4>3 DEF history
      <4>4. CASE UNCHANGED <<counter, history>>
            BY <2>2, <4>1, <4>4 DEF history
      <4> QED BY <2>7, <4>2, <4>3, <4>4, StepKinds
    <3> QED BY <3>1, <3>2
  <2> QED BY <2>6, <2>7 DEF Next
<1> QED BY <1>1, <1>2, TypeCorrect, CountingCorrect, ArmingCorrect, ClocksCorrect, PTL
        DEF Spec, ImplementsFixedWindow, Abstract!Spec
-----------------------------------------------------------------------------
(***************************************************************************)
(* What a lost EXPIRE does: the counter it was meant for is never armed,   *)
(* and nothing but a lost EXPIRE leaves a counter in that state.           *)
(***************************************************************************)
\* The counter has no expiry, and no request is about to send EXPIRE for it.
Stuck(c) ==
    counter[c].left = Store!Forever /\ \A r \in InWindow(c) : pc[r] # "expire"

\* No step sets a stuck counter free or takes anything off it, and who is
\* counted on it gets a number beyond all that were.
StaysStuck ==
    \A c \in Clients : Stuck(c) =>
        /\ Stuck(c)'
        /\ counter'[c].val >= counter[c].val
        /\ \A r \in Requests :
              client[r] = c /\ pc[r] = "incr" => current'[r] = 0 \/ current'[r] > counter[c].val

\* Time does not free it.
LEMMA TickKeepsStuck ==
    ASSUME TypeOK, CountInv, Tick PROVE StaysStuck
<1> SUFFICES ASSUME NEW c \in Clients, Stuck(c)
             PROVE  /\ Stuck(c)' /\ counter'[c].val >= counter[c].val
                    /\ \A r \in Requests : client[r] = c /\ pc[r] = "incr" =>
                          current'[r] = 0 \/ current'[r] > counter[c].val
    BY DEF StaysStuck
<1>1. counter'[c] = counter[c]
  <2>1. Sound(counter[c]) /\ ~(counter[c].left > 0)
        BY DEF Stuck, Sound, TypeOK, Store!Forever
  <2> QED BY <2>1, ElapseCountsDown DEF Tick
<1>2. InWindow(c)' = InWindow(c)
      BY <1>1, WindowCloses DEF Stuck, Store!Exists, Store!Forever
<1>3. counter[c].val \in Nat /\ UNCHANGED <<pc, current>>
      BY DEF Tick, TypeOK, Entries
<1> QED BY <1>1, <1>2, <1>3 DEF Stuck, CountInv

\* Nor does any request, because none finds itself the first.
LEMMA RequestKeepsStuck ==
    ASSUME TypeOK, TypeOK', CountInv, ArmInv, NEW r \in Requests, Arrive(r) \/ Advance(r),
           NEW c \in Clients, Stuck(c)
    PROVE  /\ Stuck(c)'
           /\ counter'[c].val >= counter[c].val
           /\ client[r] = c /\ pc[r] = "incr" => current'[r] = 0 \/ current'[r] > counter[c].val
<1>1. /\ Sound(counter[c]) /\ Store!Exists(counter[c]) /\ counter[c].val \in Nat \ {0}
      /\ client[r] \in Clients
      BY DEF Stuck, Sound, TypeOK, Entries, Store!Exists, Store!Forever
<1>2. pc[r] # "incr" \/ current[r] = 0
      BY DEF CountInv
<1>3. CASE pc[r] = "incr" /\ Count(r) /\ client[r] = c
  <2>1. counter'[c] = [counter[c] EXCEPT !.val = @ + 1]
        BY <1>1, <1>3 DEF Count, Store!Incr, TypeOK
  <2>2. counter'[c].val = counter[c].val + 1 /\ counter'[c].left = Store!Forever
        BY <1>1, <2>1 DEF Sound, Entries, Stuck
  <2>3. Incr(r) \/ Fail(r)
        BY <1>3 DEF Arrive, Bypass, Unlimited, Misconfigured, Enter, Advance, Expire, Reply
  <2>4. pc'[r] # "expire" /\ current'[r] \in {0, counter[c].val + 1}
    <3>1. CASE Incr(r)
          BY <1>1, <1>3, <2>2, <3>1 DEF Incr, FirstHit, TypeOK
    <3>2. CASE Fail(r)
          BY <1>2, <1>3, <3>2 DEF Fail, Answer, TypeOK
    <3> QED BY <2>3, <3>1, <3>2
  <2>5. InWindow(c)' = InWindow(c) \cup {r}
        BY <1>3, WindowGrows, StepKinds DEF TypeOK
  <2>6. \A s \in InWindow(c)' : pc'[s] # "expire"
        BY <2>4, <2>5, StepKinds DEF Stuck, InWindow
  <2> QED BY <1>1, <2>2, <2>4, <2>6 DEF Stuck
<1>4. CASE pc[r] = "expire" /\ Arm(client[r]) /\ UNCHANGED history
  <2>1. client[r] # c
        BY <1>4 DEF ArmInv, Stuck, InWindow
  <2>2. counter'[c] = counter[c] /\ InWindow(c)' = InWindow(c)
        BY <1>4, <2>1, StepKinds DEF Arm, TypeOK, InWindow, history
  <2>3. r \notin InWindow(c)
        BY <2>1 DEF InWindow
  <2> QED BY <1>1, <1>4, <2>1, <2>2, <2>3, StepKinds DEF Stuck, InWindow
<1>5. CASE (pc[r] = "incr" /\ Count(r) /\ client[r] # c) \/ UNCHANGED <<counter, history>>
  <2>1. counter'[c] = counter[c] /\ (InWindow(c)' = InWindow(c))
    <3>1. CASE pc[r] = "incr" /\ Count(r) /\ client[r] # c
          BY <3>1, WindowGrows, StepKinds DEF Count, TypeOK
    <3>2. CASE UNCHANGED <<counter, history>>
          BY <3>2, StepKinds DEF InWindow, history
    <3> QED BY <1>5, <3>1, <3>2
  <2>2. ASSUME r \in InWindow(c) PROVE pc'[r] # "expire" /\ pc[r] # "incr"
    <3>1. client[r] = c /\ counted[r]
          BY <2>2 DEF InWindow
    <3>2. pc[r] # "incr" /\ pc[r] # "expire" /\ pc[r] # "arriving"
          BY <2>2, <3>1 DEF CountInv, Stuck
    <3>3. Reply(r) \/ Fail(r)
          BY <3>2 DEF Arrive, Bypass, Unlimited, Misconfigured, Enter, Advance, Incr, Expire
    <3> QED BY <3>2, <3>3 DEF Reply, Fail, Answer, TypeOK
  <2>3. \A s \in InWindow(c)' : pc'[s] # "expire"
        BY <2>1, <2>2, StepKinds DEF Stuck, InWindow
  <2>4. ASSUME client[r] = c, pc[r] = "incr" PROVE current'[r] = 0
    <3>1. UNCHANGED <<counter, history>>
          BY <1>5, <2>4
    <3>2. Fail(r)
      <4>1. ~Incr(r)
        <5>1. SUFFICES ASSUME Incr(r) PROVE FALSE
              OBVIOUS
        <5>2. counted'[r] = TRUE /\ counted[r] = FALSE
              BY <2>4, <5>1 DEF Incr, Count, TypeOK, CountInv
        <5> QED BY <3>1, <5>2 DEF history
      <4> QED BY <2>4, <4>1 DEF Arrive, Bypass, Unlimited, Misconfigured, Enter, Advance,
                                Expire, Reply
    <3> QED BY <1>2, <2>4, <3>2 DEF Fail
  <2> QED BY <1>1, <2>1, <2>3, <2>4 DEF Stuck
<1> QED BY <1>3, <1>4, <1>5, StepKinds

\* Once an EXPIRE was lost, RateLimitService.isAllowed never lets the counter go:
\* INCR keeps a key without expiry, and nobody is the first any more.
THEOREM LostExpireForever == Spec => [][StaysStuck]_vars
<1>1. TypeOK /\ TypeOK' /\ CountInv /\ ArmInv /\ [Next]_vars => [StaysStuck]_vars
  <2> SUFFICES ASSUME TypeOK, TypeOK', CountInv, ArmInv, Next PROVE StaysStuck
      OBVIOUS
  <2>1. CASE Tick
        BY <2>1, TickKeepsStuck
  <2>2. ASSUME NEW r \in Requests, Arrive(r) \/ Advance(r) PROVE StaysStuck
    <3>1. ASSUME NEW c \in Clients, Stuck(c), NEW s \in Requests, client[s] = c, pc[s] = "incr"
          PROVE  current'[s] = 0 \/ current'[s] > counter[c].val
      <4>1. CASE s = r
            BY <2>2, <3>1, <4>1, RequestKeepsStuck
      <4>2. CASE s # r
            BY <2>2, <3>1, <4>2, StepKinds DEF CountInv
      <4> QED BY <4>1, <4>2
    <3> QED BY <2>2, <3>1, RequestKeepsStuck DEF StaysStuck
  <2> QED BY <2>1, <2>2 DEF Next
<1> QED BY <1>1, TypeCorrect, CountingCorrect, ArmingCorrect, PTL DEF Spec

\* No client gets into that state by interleaving alone: while store calls are
\* answered, every unarmed counter is about to be armed.
THEOREM NeverStuck ==
    ASSUME ~Faulty
    PROVE  Spec => [](\A c \in Clients : ~Stuck(c))
<1> DEFINE Unharmed == \A r \in Requests :
             /\ answer[r] = "error" => ~counted[r]
             /\ pc[r] = "arriving" => ~counted[r]
<1>1. Init => Unharmed
      BY DEF Init
<1>2. TypeOK /\ CountInv /\ Unharmed /\ [Next]_vars => Unharmed'
  <2> SUFFICES ASSUME TypeOK, CountInv, Unharmed, [Next]_vars PROVE Unharmed'
      OBVIOUS
  <2>1. CASE Tick
        BY <2>1 DEF Tick, TypeOK
  <2>2. CASE UNCHANGED vars
        BY <2>2 DEF vars, handler, history
  <2>3. ASSUME NEW r \in Requests, Arrive(r) \/ Advance(r) PROVE Unharmed'
    <3>1. \A s \in Requests : s # r => UNCHANGED <<pc[s], answer[s], counted[s]>>
      <4>1. \A s \in Requests : s # r => counted'[s] = counted[s]
            BY <2>3, StepKinds DEF Count, history, TypeOK
      <4> QED BY <2>3, <4>1, StepKinds
    <3>2. ~Fail(r)
          BY DEF Fail
    <3>3. CASE Arrive(r)
          BY <3>1, <3>3 DEF Arrive, Bypass, Unlimited, Misconfigured, Enter, Answer, TypeOK, history
    <3>4. CASE Incr(r) \/ Expire(r) \/ Reply(r)
      <4>1. answer'[r] # "error" /\ pc'[r] # "arriving"
            BY <3>4 DEF Incr, Expire, Reply, Answer, TypeOK, CountInv
      <4> QED BY <3>1, <4>1
    <3> QED BY <2>3, <3>2, <3>3, <3>4 DEF Advance
  <2> QED BY <2>1, <2>2, <2>3 DEF Next
<1>3. ArmInv /\ Unharmed => \A c \in Clients : ~Stuck(c)
      BY DEF ArmInv, Stuck, InWindow
<1> QED BY <1>1, <1>2, <1>3, TypeCorrect, CountingCorrect, ArmingCorrect, PTL DEF Spec
=============================================================================
