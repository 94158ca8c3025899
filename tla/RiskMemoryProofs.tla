-------------------------- MODULE RiskMemoryProofs --------------------------
(***************************************************************************)
(* Theorems of RiskMemory, for any users, addresses and devices, any       *)
(* finite number of reports and any times to live, whether or not store    *)
(* calls fail.                                                             *)
(***************************************************************************)
EXTENDS RiskMemory, FiniteSetTheorems, TLAPS

\* What the server keeps under the keys of the service.
FailureEntries == [val : Nat, left : Nat \cup {Counters!Forever}]
IpEntries      == [val : Ips \cup {Null}, left : 0..LastIpTtl]
StepUpEntries  == [val : {"verified", Null}, left : 0..StepUpTtl]

\* What the commands on a failure counter do to it.
LEMMA CounterCommands ==
    ASSUME NEW e \in FailureEntries
    PROVE  /\ Counters!Incr(e) \in FailureEntries
           /\ Counters!Exists(Counters!Incr(e))
           /\ Counters!Incr(e).val = IF Counters!Exists(e) THEN e.val + 1 ELSE 1
           /\ Counters!Incr(e).left = IF Counters!Exists(e) THEN e.left ELSE Counters!Forever
           /\ Counters!Expire(e, FailureTtl) \in FailureEntries
           /\ Counters!Exists(e) <=> Counters!Exists(Counters!Expire(e, FailureTtl))
           /\ Counters!Expire(e, FailureTtl).val = IF Counters!Exists(e) THEN e.val ELSE 0
           /\ Counters!Expire(e, FailureTtl).left = IF Counters!Exists(e) THEN FailureTtl ELSE 0
           /\ Counters!Elapse(e) \in FailureEntries
           /\ Counters!Exists(Counters!Elapse(e)) <=> Counters!Exists(e) /\ e.left # 1
           /\ Counters!Elapse(e).val = IF e.left = 1 THEN 0 ELSE e.val
           /\ Counters!Elapse(e).left = IF e.left > 0 THEN e.left - 1 ELSE e.left
           /\ Counters!Gone \in FailureEntries
<1> USE TtlAssumption DEF FailureEntries, Counters!Exists, Counters!Forever, Counters!Gone
<1>1. /\ Counters!Incr(e) \in FailureEntries
      /\ Counters!Exists(Counters!Incr(e))
      /\ Counters!Incr(e).val = IF Counters!Exists(e) THEN e.val + 1 ELSE 1
      /\ Counters!Incr(e).left = IF Counters!Exists(e) THEN e.left ELSE Counters!Forever
      BY DEF Counters!Incr
<1>2. /\ Counters!Expire(e, FailureTtl) \in FailureEntries
      /\ Counters!Exists(e) <=> Counters!Exists(Counters!Expire(e, FailureTtl))
      /\ Counters!Expire(e, FailureTtl).val = IF Counters!Exists(e) THEN e.val ELSE 0
      /\ Counters!Expire(e, FailureTtl).left = IF Counters!Exists(e) THEN FailureTtl ELSE 0
      BY DEF Counters!Expire
<1>3. /\ Counters!Elapse(e) \in FailureEntries
      /\ Counters!Exists(Counters!Elapse(e)) <=> Counters!Exists(e) /\ e.left # 1
      /\ Counters!Elapse(e).val = IF e.left = 1 THEN 0 ELSE e.val
      /\ Counters!Elapse(e).left = IF e.left > 0 THEN e.left - 1 ELSE e.left
      BY DEF Counters!Elapse
<1> QED BY <1>1, <1>2, <1>3

\* What a tick does to an entry with a time to live.
LEMMA EntryElapses ==
    ASSUME NEW V, Null \in V, NEW ttl \in Nat, NEW e \in [val : V, left : 0..ttl]
    PROVE  /\ Strings!Elapse(e) \in [val : V, left : 0..ttl]
           /\ Strings!Elapse(e).left = Less(e.left)
           /\ Strings!Elapse(e).val = IF e.left = 1 THEN Null ELSE e.val
<1>1. CASE e.left > 1
      BY <1>1 DEF Strings!Elapse, Less
<1>2. CASE e.left = 1
      BY <1>2 DEF Strings!Elapse, Strings!Gone, Less
<1>3. CASE e.left = 0
      BY <1>3 DEF Strings!Elapse, Less
<1> QED BY <1>1, <1>2, <1>3

\* The same of the two kinds of entries there are.
LEMMA EntriesElapse ==
    /\ \A e \in IpEntries : /\ Strings!Elapse(e) \in IpEntries
                            /\ Strings!Elapse(e).val = IF e.left = 1 THEN Null ELSE e.val
    /\ \A e \in StepUpEntries : /\ Strings!Elapse(e) \in StepUpEntries
                                /\ Strings!Elapse(e).left = Less(e.left)
<1>1. ASSUME NEW e \in IpEntries
      PROVE  /\ Strings!Elapse(e) \in IpEntries
             /\ Strings!Elapse(e).val = IF e.left = 1 THEN Null ELSE e.val
  <2> DEFINE V == Ips \cup {Null}
  <2>1. Null \in V /\ LastIpTtl \in Nat /\ e \in [val : V, left : 0..LastIpTtl]
        BY TtlAssumption DEF IpEntries
  <2> HIDE DEF V
  <2>2. /\ Strings!Elapse(e) \in [val : V, left : 0..LastIpTtl]
        /\ Strings!Elapse(e).val = IF e.left = 1 THEN Null ELSE e.val
        BY <2>1, EntryElapses
  <2> QED BY <2>2 DEF IpEntries, V
<1>2. ASSUME NEW e \in StepUpEntries
      PROVE  /\ Strings!Elapse(e) \in StepUpEntries
             /\ Strings!Elapse(e).left = Less(e.left)
  <2> DEFINE V == {"verified", Null}
  <2>1. Null \in V /\ StepUpTtl \in Nat /\ e \in [val : V, left : 0..StepUpTtl]
        BY TtlAssumption DEF StepUpEntries
  <2> HIDE DEF V
  <2>2. /\ Strings!Elapse(e) \in [val : V, left : 0..StepUpTtl]
        /\ Strings!Elapse(e).left = Less(e.left)
        BY <2>1, EntryElapses
  <2> QED BY <2>2 DEF StepUpEntries, V
<1> QED BY <1>1, <1>2

\* Every variable stays in its set (src/zero-trust/risk).
THEOREM TypeCorrect == Spec => []TypeOK
<1> USE DEF FailureEntries, IpEntries, StepUpEntries
<1>1. Init => TypeOK
      BY TtlAssumption DEF Init, TypeOK, Counters!Gone, Strings!Gone
<1>2. TypeOK /\ [Next]_memory => TypeOK'
  <2> SUFFICES ASSUME TypeOK, [Next]_memory PROVE TypeOK'
      OBVIOUS
  <2>1. CASE UNCHANGED memory
        BY <2>1 DEF TypeOK, memory, store, history
  <2>2. CASE Tick
    <3>1. failures' \in [Users -> FailureEntries]
          BY <2>2, CounterCommands DEF Tick, TypeOK
    <3>2. lastIp' \in [Users -> IpEntries]
          BY <2>2, EntriesElapse DEF Tick, TypeOK
    <3>3. stepUp' \in [Users -> [Contexts -> StepUpEntries]]
          BY <2>2, EntriesElapse DEF Tick, TypeOK
    <3>4. armed' \in [Reports -> 0..FailureTtl] /\ verified' \in [Users -> [Contexts -> 0..StepUpTtl]]
          BY <2>2, TtlAssumption DEF Tick, TypeOK, Less
    <3>5. counted' \subseteq Reports
          BY <2>2 DEF Tick, Forget, TypeOK
    <3> QED BY <2>2, <3>1, <3>2, <3>3, <3>4, <3>5 DEF Tick, TypeOK
  <2>3. ASSUME NEW p \in Reports, Report(p) PROVE TypeOK'
    <3>1. CASE Unreported(p)
          BY <3>1 DEF Unreported, Goto, TypeOK, store, history
    <3>5. CASE Begin(p)
          BY <3>5 DEF Begin, Goto, TypeOK, store, history
    <3>2. CASE Incr(p)
      <4>1. failures' \in [Users -> FailureEntries] /\ counted' \subseteq Reports
            BY <3>2, CounterCommands DEF Incr, Count, TypeOK
      <4> QED BY <3>2, <4>1 DEF Incr, Goto, TypeOK
    <3>3. CASE Expire(p)
      <4>1. failures' \in [Users -> FailureEntries]
            BY <3>3, CounterCommands DEF Expire, TypeOK
      <4>2. armed' \in [Reports -> 0..FailureTtl]
            BY <3>3, TtlAssumption DEF Expire, TypeOK
      <4> QED BY <3>3, <4>1, <4>2 DEF Expire, Goto, TypeOK
    <3>4. CASE Fail(p)
      <4>1. failures' \in [Users -> FailureEntries] /\ counted' \subseteq Reports
        <5>1. CASE Count(p)
              BY <5>1, CounterCommands DEF Count, TypeOK
        <5>2. CASE /\ failures' = [failures EXCEPT
                                     ![reporter[p]] = Counters!Expire(@, FailureTtl)]
                   /\ UNCHANGED counted
              BY <5>2, CounterCommands DEF TypeOK
        <5>3. CASE UNCHANGED <<failures, counted>>
              BY <5>3 DEF TypeOK
        <5> QED BY <3>4, <5>1, <5>2, <5>3 DEF Fail
      <4> QED BY <3>4, <4>1 DEF Fail, Goto, TypeOK
    <3> QED BY <2>3, <3>1, <3>2, <3>3, <3>4, <3>5 DEF Report, Continue
  <2>4. ASSUME NEW u \in Users, Remember(u) PROVE TypeOK'
    <3>1. CASE resetFailures(u)
      <4>1. failures' \in [Users -> FailureEntries]
            BY <3>1 DEF resetFailures, TypeOK, Counters!Gone
      <4>2. armed' \in [Reports -> 0..FailureTtl] /\ counted' \subseteq Reports
            BY <3>1, TtlAssumption DEF resetFailures, Forget, TypeOK
      <4> QED BY <3>1, <4>1, <4>2 DEF resetFailures, TypeOK
    <3>2. ASSUME NEW ip \in Ips, storeLastIp(u, ip) PROVE TypeOK'
      <4>1. lastIp' \in [Users -> IpEntries]
            BY <3>2, TtlAssumption DEF storeLastIp, TypeOK, Strings!Set
      <4> QED BY <3>2, <4>1 DEF storeLastIp, TypeOK, history
    <3>3. ASSUME NEW k \in Contexts, markStepUpVerified(u, k) PROVE TypeOK'
      <4>1. buildStepUpKey(k) = k
            BY DEF buildStepUpKey, Contexts
      <4>2. Strings!Set("verified", StepUpTtl) \in StepUpEntries
            BY TtlAssumption DEF Strings!Set
      <4>3. stepUp' \in [Users -> [Contexts -> StepUpEntries]]
            BY <3>3, <4>1, <4>2 DEF markStepUpVerified, TypeOK
      <4>4. verified' \in [Users -> [Contexts -> 0..StepUpTtl]]
            BY <3>3, TtlAssumption DEF markStepUpVerified, TypeOK
      <4> QED BY <3>3, <4>3, <4>4 DEF markStepUpVerified, TypeOK
    <3>4. ASSUME NEW k \in Contexts, clearStepUp(u, k) PROVE TypeOK'
      <4>1. buildStepUpKey(k) = k
            BY DEF buildStepUpKey, Contexts
      <4>2. Strings!Gone \in StepUpEntries
            BY TtlAssumption DEF Strings!Gone
      <4>3. stepUp' \in [Users -> [Contexts -> StepUpEntries]]
            BY <3>4, <4>1, <4>2 DEF clearStepUp, TypeOK
      <4>4. verified' \in [Users -> [Contexts -> 0..StepUpTtl]]
            BY <3>4, TtlAssumption DEF clearStepUp, TypeOK
      <4> QED BY <3>4, <4>3, <4>4 DEF clearStepUp, TypeOK
    <3> QED BY <2>4, <3>1, <3>2, <3>3, <3>4 DEF Remember
  <2> QED BY <2>1, <2>2, <2>3, <2>4 DEF Next
<1> QED BY <1>1, <1>2, PTL DEF Spec
-----------------------------------------------------------------------------
(***************************************************************************)
(* Failures.  A counter holds the number of the reports counted since it   *)
(* was last empty; a report still to be remembered is one of them and its  *)
(* counter lives long enough.                                              *)
(***************************************************************************)
CountedOf(u) == {p \in counted : reporter[p] = u}

CountInv ==
    /\ \A u \in Users :
          /\ failures[u].val = Cardinality(CountedOf(u))
          /\ ~Counters!Exists(failures[u]) => CountedOf(u) = {}
    /\ \A p \in Reports :
          /\ reporting[p] \in {"before", "incr"} => p \notin counted
          /\ armed[p] > 0 => /\ p \in counted
                             /\ failures[reporter[p]].left \in {Counters!Forever} \cup armed[p]..FailureTtl
    /\ ~stored => counted = {} /\ \A p \in Reports : reporting[p] \notin {"incr", "expire"}

\* INCR counts the report that was sent and leaves the times to live alone.
LEMMA CountKeepsInv ==
    ASSUME TypeOK, CountInv, NEW p \in Reports, reporting[p] = "incr", Count(p),
           reporting'[p] \notin {"before", "incr"}, \A q \in Reports \ {p} : reporting'[q] = reporting[q],
           UNCHANGED <<stored, reporter, armed>>
    PROVE  CountInv'
<1> DEFINE u == reporter[p]
<1>1. u \in Users /\ failures[u] \in FailureEntries /\ p \notin counted
      BY DEF TypeOK, FailureEntries, CountInv
<1>2. failures' = [failures EXCEPT ![u] = Counters!Incr(failures[u])] /\ counted' = counted \cup {p}
      BY DEF Count
<1>3. failures'[u] = Counters!Incr(failures[u])
      BY <1>1, <1>2 DEF TypeOK
<1>4. \A v \in Users \ {u} : failures'[v] = failures[v] /\ CountedOf(v)' = CountedOf(v)
      BY <1>2 DEF TypeOK, CountedOf
<1>5. CountedOf(u)' = CountedOf(u) \cup {p} /\ p \notin CountedOf(u)
      BY <1>1, <1>2 DEF CountedOf
<1>6. IsFiniteSet(CountedOf(u))
      BY ReportsAssumption, FS_Subset DEF CountedOf, TypeOK
<1>7. Cardinality(CountedOf(u)') = Cardinality(CountedOf(u)) + 1
      BY <1>5, <1>6, FS_AddElement
<1>8. failures'[u].val = Cardinality(CountedOf(u)')
  <2>1. CASE Counters!Exists(failures[u])
        BY <1>1, <1>3, <1>7, <2>1, CounterCommands DEF CountInv
  <2>2. CASE ~Counters!Exists(failures[u])
    <3>1. Cardinality(CountedOf(u)) = 0
          BY <1>1, <2>2, FS_EmptySet DEF CountInv
    <3> QED BY <1>1, <1>3, <1>7, <2>2, <3>1, CounterCommands
  <2> QED BY <2>1, <2>2
<1>9. ASSUME NEW v \in Users
      PROVE  /\ failures'[v].val = Cardinality(CountedOf(v)')
             /\ ~Counters!Exists(failures'[v]) => CountedOf(v)' = {}
  <2>1. CASE v = u
        BY <1>1, <1>3, <1>8, <2>1, CounterCommands
  <2>2. CASE v # u
        BY <1>4, <2>2 DEF CountInv
  <2> QED BY <2>1, <2>2
<1>10. ASSUME NEW q \in Reports, armed[q] > 0
       PROVE  /\ q \in counted'
              /\ failures'[reporter[q]].left \in {Counters!Forever} \cup armed[q]..FailureTtl
  <2>1. /\ q \in counted /\ reporter[q] \in Users
        /\ failures[reporter[q]].left \in {Counters!Forever} \cup armed[q]..FailureTtl
        BY <1>10 DEF CountInv, TypeOK
  <2>2. CASE reporter[q] = u
        BY <1>1, <1>2, <1>3, <2>1, <2>2, CounterCommands
  <2>3. CASE reporter[q] # u
        BY <1>2, <1>4, <2>1, <2>3
  <2> QED BY <2>2, <2>3
<1>11. \A q \in Reports : reporting'[q] \in {"before", "incr"} => q \notin counted'
       BY <1>2 DEF CountInv
<1>12. stored
       BY DEF CountInv
<1> QED BY <1>9, <1>10, <1>11, <1>12 DEF CountInv, CountedOf

\* EXPIRE arms the counter that exists and does nothing to a missing one.
LEMMA ExpireKeepsInv ==
    ASSUME TypeOK, CountInv, stored, NEW p \in Reports,
           reporting'[p] \notin {"before", "incr"}, \A q \in Reports \ {p} : reporting'[q] = reporting[q],
           failures' = [failures EXCEPT ![reporter[p]] = Counters!Expire(@, FailureTtl)],
           \A q \in Reports : armed'[q] > 0 => \/ armed[q] > 0 /\ armed'[q] = armed[q]
                                               \/ q = p /\ p \in counted /\ armed'[q] = FailureTtl,
           UNCHANGED <<stored, reporter, counted>>
    PROVE  CountInv'
<1> DEFINE u == reporter[p]
<1>1. u \in Users /\ failures[u] \in FailureEntries
      BY DEF TypeOK, FailureEntries
<1>2. failures'[u] = Counters!Expire(failures[u], FailureTtl)
      BY <1>1 DEF TypeOK
<1>3. \A v \in Users : v # u => failures'[v] = failures[v]
      BY DEF TypeOK
<1>4. CountedOf(u) = {} => Cardinality(CountedOf(u)) = 0
      BY FS_EmptySet
<1>5. ASSUME NEW v \in Users
      PROVE  /\ failures'[v].val = Cardinality(CountedOf(v))
             /\ ~Counters!Exists(failures'[v]) => CountedOf(v) = {}
      BY <1>1, <1>2, <1>3, <1>4, CounterCommands DEF CountInv
<1>6. ASSUME NEW q \in Reports, armed'[q] > 0
      PROVE  /\ q \in counted
             /\ failures'[reporter[q]].left \in {Counters!Forever} \cup armed'[q]..FailureTtl
  <2>1. q \in counted /\ reporter[q] \in Users /\ armed'[q] \in 0..FailureTtl
        BY <1>6, TtlAssumption DEF CountInv, TypeOK
  <2>2. CASE reporter[q] = u
    <3>1. Counters!Exists(failures[u])
          BY <1>1, <2>1, <2>2 DEF CountInv, CountedOf
    <3>2. failures'[u].left = FailureTtl
          BY <1>1, <1>2, <3>1, CounterCommands
    <3> QED BY <2>1, <2>2, <3>2, TtlAssumption
  <2>3. CASE reporter[q] # u
        BY <1>3, <1>6, <2>1, <2>3 DEF CountInv
  <2> QED BY <2>2, <2>3
<1>7. \A v \in Users : CountedOf(v)' = CountedOf(v)
      BY DEF CountedOf
<1>8. \A q \in Reports : reporting'[q] \in {"before", "incr"} => q \notin counted'
      BY DEF CountInv
<1> QED BY <1>5, <1>6, <1>7, <1>8 DEF CountInv

\* Reports are forgotten together with the counter that held them.
LEMMA ForgetKeepsInv ==
    ASSUME TypeOK, CountInv, Forget, UNCHANGED <<stored, reporting, reporter>>,
           \A u \in Users : \/ failures'[u] = Counters!Gone
                            \/ /\ failures'[u].val = failures[u].val
                               /\ Counters!Exists(failures'[u]) <=> Counters!Exists(failures[u]),
           \A p \in Reports : armed'[p] > 0 =>
               /\ armed[p] > 0 /\ Counters!Exists(failures'[reporter[p]])
               /\ failures'[reporter[p]].left \in {Counters!Forever} \cup armed'[p]..FailureTtl
    PROVE  CountInv'
<1>1. \A p \in counted : p \in Reports /\ reporter[p] \in Users
      BY DEF TypeOK
<1>2. ASSUME NEW u \in Users
      PROVE  /\ failures'[u].val = Cardinality(CountedOf(u)')
             /\ ~Counters!Exists(failures'[u]) => CountedOf(u)' = {}
  <2>1. CASE ~Counters!Exists(failures'[u])
    <3>1. CountedOf(u)' = {} /\ Cardinality(CountedOf(u)') = 0
          BY <2>1, FS_EmptySet DEF Forget, CountedOf
    <3>2. failures'[u].val = 0
      <4>1. CASE failures'[u] = Counters!Gone
            BY <4>1 DEF Counters!Gone
      <4>2. CASE /\ failures'[u].val = failures[u].val
                 /\ ~Counters!Exists(failures[u])
            BY <4>2, FS_EmptySet DEF CountInv
      <4> QED BY <2>1, <4>1, <4>2
    <3> QED BY <3>1, <3>2
  <2>2. CASE Counters!Exists(failures'[u])
    <3>1. CountedOf(u)' = CountedOf(u)
          BY <2>2 DEF Forget, CountedOf
    <3>2. failures'[u].val = failures[u].val
          BY <2>2 DEF Counters!Exists, Counters!Gone
    <3> QED BY <2>2, <3>1, <3>2 DEF CountInv
  <2> QED BY <2>1, <2>2
<1>3. \A p \in Reports : armed'[p] > 0 => p \in counted'
      BY DEF CountInv, Forget
<1>4. counted' \subseteq counted
      BY DEF Forget
<1> QED BY <1>2, <1>3, <1>4 DEF CountInv

\* The counters and the reports they hold agree in every reachable state.
THEOREM CountingCorrect == Spec => []CountInv
<1>1. Init => CountInv
  <2> SUFFICES ASSUME Init PROVE CountInv
      OBVIOUS
  <2>1. \A u \in Users : CountedOf(u) = {} /\ failures[u].val = 0
        BY DEF Init, CountedOf, Counters!Gone
  <2>2. \A p \in Reports : ~(armed[p] > 0)
        BY DEF Init
  <2> QED BY <2>1, <2>2, FS_EmptySet DEF Init, CountInv
<1>2. TypeOK /\ TypeOK' /\ CountInv /\ [Next]_memory => CountInv'
  <2> SUFFICES ASSUME TypeOK, TypeOK', CountInv, [Next]_memory PROVE CountInv'
      OBVIOUS
  <2>1. CASE UNCHANGED <<stored, failures, reporting, reporter, counted, armed>>
        BY <2>1 DEF CountInv, CountedOf
  <2>2. CASE Tick
    <3>1. ASSUME NEW u \in Users
          PROVE  /\ failures'[u].left = IF failures[u].left > 0 THEN failures[u].left - 1
                                                               ELSE failures[u].left
                 /\ \/ failures'[u] = Counters!Gone
                    \/ /\ failures'[u].val = failures[u].val
                       /\ Counters!Exists(failures'[u]) <=> Counters!Exists(failures[u])
      <4>1. failures[u] \in FailureEntries /\ failures'[u] = Counters!Elapse(failures[u])
            BY <2>2 DEF Tick, TypeOK, FailureEntries
      <4>2. failures[u].left = 1 => failures'[u] = Counters!Gone
            BY <4>1 DEF Counters!Elapse
      <4> QED BY <4>1, <4>2, CounterCommands
    <3>2. ASSUME NEW p \in Reports, armed'[p] > 0
          PROVE  /\ armed[p] > 0 /\ Counters!Exists(failures'[reporter[p]])
                 /\ failures'[reporter[p]].left \in {Counters!Forever} \cup armed'[p]..FailureTtl
      <4>1. armed[p] \in 0..FailureTtl /\ reporter[p] \in Users
            BY DEF TypeOK
      <4>2. armed[p] > 1 /\ armed'[p] = armed[p] - 1
            BY <2>2, <3>2, <4>1, TtlAssumption DEF Tick, Less
      <4>3. failures[reporter[p]].left \in {Counters!Forever} \cup armed[p]..FailureTtl
            BY <4>1, <4>2, TtlAssumption DEF CountInv
      <4>4. failures'[reporter[p]].left \in {Counters!Forever} \cup armed'[p]..FailureTtl
            BY <3>1, <4>1, <4>2, <4>3, TtlAssumption DEF Counters!Forever
      <4> QED BY <4>1, <4>2, <4>4, TtlAssumption DEF Counters!Exists, Counters!Forever
    <3> QED BY <2>2, <3>1, <3>2, ForgetKeepsInv DEF Tick
  <2>3. ASSUME NEW p \in Reports, Report(p) PROVE CountInv'
    <3>1. CASE Unreported(p)
          BY <3>1 DEF Unreported, Goto, TypeOK, CountInv, CountedOf, store, history
    <3>5. CASE Begin(p)
      <4>1. /\ reporting[p] = "before" /\ reporting'[p] = "incr" /\ stored
            /\ \A q \in Reports \ {p} : reporting'[q] = reporting[q]
            BY <3>5 DEF Begin, Goto, TypeOK
      <4>2. UNCHANGED <<stored, failures, reporter, counted, armed>>
            BY <3>5 DEF Begin, store, history
      <4>3. \A u \in Users : CountedOf(u)' = CountedOf(u)
            BY <4>2 DEF CountedOf
      <4> QED BY <4>1, <4>2, <4>3 DEF CountInv
    <3>2. CASE Incr(p)
          BY <3>2, CountKeepsInv DEF Incr, Goto, TypeOK
    <3>3. CASE Expire(p)
      <4>1. stored
            BY <3>3 DEF Expire, CountInv
      <4>2. \A q \in Reports : armed'[q] > 0 =>
                \/ armed[q] > 0 /\ armed'[q] = armed[q]
                \/ q = p /\ p \in counted /\ armed'[q] = FailureTtl
            BY <3>3 DEF Expire, TypeOK
      <4> QED BY <3>3, <4>1, <4>2, ExpireKeepsInv DEF Expire, Goto, TypeOK
    <3>4. CASE Fail(p)
      <4>1. CASE reporting[p] = "incr" /\ Count(p)
            BY <3>4, <4>1, CountKeepsInv DEF Fail, Goto, TypeOK
      <4>2. CASE /\ reporting[p] = "expire"
                 /\ failures' = [failures EXCEPT
                                   ![reporter[p]] = Counters!Expire(@, FailureTtl)]
                 /\ UNCHANGED counted
        <5>1. stored
              BY <4>2 DEF CountInv
        <5> QED BY <3>4, <4>2, <5>1, ExpireKeepsInv DEF Fail, Goto, TypeOK
      <4>3. CASE UNCHANGED <<failures, counted>>
        <5>1. \A u \in Users : CountedOf(u)' = CountedOf(u)
              BY <3>4, <4>3 DEF Fail, CountedOf
        <5>2. stored
              BY <3>4 DEF Fail, CountInv
        <5>3. \A q \in Reports : /\ reporting'[q] = "before" => reporting[q] = "before"
                                 /\ reporting'[q] = "incr" => reporting[q] = "incr"
              BY <3>4 DEF Fail, Goto, TypeOK
        <5> QED BY <3>4, <4>3, <5>1, <5>2, <5>3 DEF Fail, CountInv
      <4> QED BY <3>4, <4>1, <4>2, <4>3 DEF Fail
    <3> QED BY <2>3, <3>1, <3>2, <3>3, <3>4, <3>5 DEF Report, Continue
  <2>4. ASSUME NEW u \in Users, resetFailures(u) PROVE CountInv'
    <3>1. \A v \in Users : failures'[v] = IF v = u THEN Counters!Gone ELSE failures[v]
          BY <2>4 DEF resetFailures, TypeOK
    <3>2. ASSUME NEW p \in Reports, armed'[p] > 0
          PROVE  /\ armed[p] > 0 /\ Counters!Exists(failures'[reporter[p]])
                 /\ failures'[reporter[p]].left \in {Counters!Forever} \cup armed'[p]..FailureTtl
      <4>1. reporter[p] \in Users /\ reporter[p] # u /\ armed'[p] = armed[p]
            BY <2>4, <3>2 DEF resetFailures, TypeOK
      <4>2. failures'[reporter[p]] = failures[reporter[p]]
            BY <3>1, <4>1
      <4>3. /\ p \in counted
            /\ failures[reporter[p]].left \in {Counters!Forever} \cup armed[p]..FailureTtl
            BY <3>2, <4>1 DEF CountInv
      <4>4. Counters!Exists(failures[reporter[p]])
            BY <4>1, <4>3 DEF CountInv, CountedOf
      <4> QED BY <3>2, <4>1, <4>2, <4>3, <4>4
    <3> QED BY <2>4, <3>1, <3>2, ForgetKeepsInv DEF resetFailures
  <2> QED BY <2>1, <2>2, <2>3, <2>4
          DEF Next, Remember, memory, store, history, storeLastIp, markStepUpVerified, clearStepUp
<1> QED BY <1>1, <1>2, TypeCorrect, PTL DEF Spec

\* No failure whose EXPIRE took effect is missing from the count before its
\* time (RiskMemoryService.incrementFailures, getFailures).
THEOREM NoFailureLost == Spec => []FailuresRemembered
<1>1. TypeOK /\ CountInv => FailuresRemembered
  <2> SUFFICES ASSUME TypeOK, CountInv, NEW u \in Users
               PROVE  getFailures(u) >= Cardinality({p \in Reports : reporter[p] = u /\ armed[p] > 0})
      BY DEF FailuresRemembered
  <2> DEFINE due == {p \in Reports : reporter[p] = u /\ armed[p] > 0}
  <2>1. CASE stored
    <3>1. due \subseteq CountedOf(u)
          BY DEF CountInv, CountedOf
    <3>2. IsFiniteSet(CountedOf(u))
          BY ReportsAssumption, FS_Subset DEF CountedOf, TypeOK
    <3>3. Cardinality(due) <= Cardinality(CountedOf(u))
          BY <3>1, <3>2, FS_Subset
    <3>4. getFailures(u) = Cardinality(CountedOf(u))
          BY <2>1 DEF getFailures, CountInv
    <3>5. IsFiniteSet(due)
          BY <3>1, <3>2, FS_Subset
    <3>6. Cardinality(due) \in Nat /\ Cardinality(CountedOf(u)) \in Nat
          BY <3>2, <3>5, FS_CardinalityType
    <3> QED BY <3>3, <3>4, <3>6
  <2>2. CASE ~stored
    <3>1. due = {}
          BY <2>2 DEF CountInv
    <3>2. Cardinality(due) = 0
          BY <3>1, FS_EmptySet
    <3> QED BY <2>2, <3>2 DEF getFailures
  <2> QED BY <2>1, <2>2
<1> QED BY <1>1, TypeCorrect, CountingCorrect, PTL
-----------------------------------------------------------------------------
(***************************************************************************)
(* Step-up.  What the store holds of a context lives as long as its        *)
(* verification is to be trusted, and without a store nothing is trusted.  *)
(***************************************************************************)
StepUpInv ==
    \A u \in Users, k \in Contexts :
        /\ stepUp[u][k].left = verified[u][k]
        /\ ~stored => verified[u][k] = 0

\* A step-up is trusted in the context that completed it, while its window runs
\* (RiskMemoryService.markStepUpVerified, isStepUpValid, clearStepUp).
THEOREM StepUpTrusted == Spec => []StepUpBound
<1>1. Init => StepUpInv
      BY DEF Init, StepUpInv, Strings!Gone
<1>2. TypeOK /\ StepUpInv /\ [Next]_memory => StepUpInv'
  <2> SUFFICES ASSUME TypeOK, StepUpInv, [Next]_memory PROVE StepUpInv'
      OBVIOUS
  <2>1. CASE UNCHANGED <<stored, stepUp, verified>>
        BY <2>1 DEF StepUpInv
  <2>2. CASE Tick
    <3>1. ASSUME NEW u \in Users, NEW k \in Contexts
          PROVE  stepUp'[u][k].left = Less(stepUp[u][k].left)
      <4>1. stepUp[u][k] \in StepUpEntries
            BY DEF TypeOK, StepUpEntries
      <4> QED BY <2>2, <4>1, EntriesElapse DEF Tick
    <3> QED BY <2>2, <3>1 DEF Tick, StepUpInv, Less
  <2>3. ASSUME NEW u \in Users, NEW k \in Contexts, markStepUpVerified(u, k) PROVE StepUpInv'
    <3>1. buildStepUpKey(k) = k
          BY DEF buildStepUpKey, Contexts
    <3> QED BY <2>3, <3>1 DEF markStepUpVerified, StepUpInv, TypeOK, Strings!Set
  <2>4. ASSUME NEW u \in Users, NEW k \in Contexts, clearStepUp(u, k) PROVE StepUpInv'
    <3>1. buildStepUpKey(k) = k
          BY DEF buildStepUpKey, Contexts
    <3> QED BY <2>4, <3>1 DEF clearStepUp, StepUpInv, TypeOK, Strings!Gone
  <2> QED BY <2>1, <2>2, <2>3, <2>4
          DEF Next, Report, Continue, Remember, memory, store, history,
              Unreported, Begin, Incr, Expire, Fail, resetFailures, storeLastIp
<1>3. TypeOK /\ StepUpInv => StepUpBound
  <2> SUFFICES ASSUME TypeOK, StepUpInv, NEW u \in Users, NEW k \in Contexts
               PROVE  isStepUpValid(u, k) <=> verified[u][k] > 0
      BY DEF StepUpBound
  <2>1. buildStepUpKey(k) = k
        BY DEF buildStepUpKey, Contexts
  <2>2. verified[u][k] \in 0..StepUpTtl
        BY DEF TypeOK
  <2> QED BY <2>1, <2>2, TtlAssumption DEF isStepUpValid, StepUpInv, Strings!Exists
<1> QED BY <1>1, <1>2, <1>3, TypeCorrect, PTL DEF Spec
-----------------------------------------------------------------------------
(***************************************************************************)
(* The refinement.  INCR counts one failure; a tick, resetFailures and     *)
(* clearStepUp forget; EXPIRE changes nothing a reader sees.               *)
(***************************************************************************)
Trusted == {uk \in Users \X Contexts : Strings!Exists(stepUp[uk[1]][uk[2]])}

\* INCR is one more failure, and there is room for it.
LEMMA CountIsSeen ==
    ASSUME TypeOK, CountInv, NEW p \in Reports, reporting[p] = "incr", Count(p),
           NEW u, u = reporter[p], UNCHANGED <<lastIp, stepUp>>
    PROVE  Facts!CountFailure(u)
<1>1. u \in Users /\ failures[u] \in FailureEntries /\ p \notin counted
      BY DEF TypeOK, FailureEntries, CountInv
<1>2. failures[u].val < Cardinality(Reports)
  <2>1. CountedOf(u) \subseteq Reports \ {p}
        BY <1>1 DEF CountedOf, TypeOK
  <2>2. /\ IsFiniteSet(Reports \ {p})
        /\ Cardinality(Reports \ {p}) = Cardinality(Reports) - 1
        BY ReportsAssumption, FS_RemoveElement
  <2>3. Cardinality(CountedOf(u)) <= Cardinality(Reports \ {p}) /\ IsFiniteSet(CountedOf(u))
        BY <2>1, <2>2, FS_Subset
  <2>4. Cardinality(Reports) \in Nat /\ Cardinality(CountedOf(u)) \in Nat
        BY <2>3, ReportsAssumption, FS_CardinalityType
  <2> QED BY <1>1, <2>2, <2>3, <2>4 DEF CountInv
<1>3. failures'[u].val = failures[u].val + 1
  <2>1. failures'[u] = Counters!Incr(failures[u])
        BY <1>1 DEF Count, TypeOK
  <2>2. ~Counters!Exists(failures[u]) => failures[u].val = 0
        BY <1>1, FS_EmptySet DEF CountInv
  <2> QED BY <1>1, <2>1, <2>2, CounterCommands
<1>4. \A v \in Users : v # u => failures'[v] = failures[v]
      BY DEF Count, TypeOK
<1>5. [v \in Users |-> failures'[v].val] = [[v \in Users |-> failures[v].val] EXCEPT ![u] = @ + 1]
      BY <1>1, <1>3, <1>4
<1> QED BY <1>1, <1>2, <1>5 DEF Facts!CountFailure

\* EXPIRE leaves the count alone.
LEMMA ExpireIsUnseen ==
    ASSUME TypeOK, CountInv, NEW p \in Reports,
           failures' = [failures EXCEPT ![reporter[p]] = Counters!Expire(@, FailureTtl)],
           UNCHANGED <<lastIp, stepUp>>
    PROVE  UNCHANGED Facts!facts
<1>1. reporter[p] \in Users /\ failures[reporter[p]] \in FailureEntries
      BY DEF TypeOK, FailureEntries
<1>2. ~Counters!Exists(failures[reporter[p]]) => failures[reporter[p]].val = 0
      BY <1>1, FS_EmptySet DEF CountInv
<1>3. \A u \in Users : failures'[u].val = failures[u].val
      BY <1>1, <1>2, CounterCommands DEF TypeOK
<1> QED BY <1>3 DEF Facts!facts

\* Time makes some facts disappear.
LEMMA TickIsForgetting ==
    ASSUME TypeOK, Tick
    PROVE  Facts!Forget
<1> DEFINE F == {u \in Users : failures[u].left = 1}
           L == {u \in Users : lastIp[u].left = 1}
           T == {uk \in Trusted : stepUp[uk[1]][uk[2]].left = 1}
<1>1. \A u \in Users : failures'[u].val = IF u \in F THEN 0 ELSE failures[u].val
      BY CounterCommands DEF Tick, TypeOK, FailureEntries
<1>2. ASSUME NEW u \in Users
      PROVE  lastIp'[u].val = IF u \in L THEN Null ELSE lastIp[u].val
  <2>1. lastIp[u] \in IpEntries
        BY DEF TypeOK, IpEntries
  <2> QED BY <2>1, EntriesElapse DEF Tick
<1>3. ASSUME NEW u \in Users, NEW k \in Contexts
      PROVE  Strings!Exists(stepUp'[u][k]) <=>
                Strings!Exists(stepUp[u][k]) /\ stepUp[u][k].left # 1
  <2>1. stepUp[u][k] \in StepUpEntries
        BY DEF TypeOK, StepUpEntries
  <2>2. stepUp'[u][k].left = Less(stepUp[u][k].left)
        BY <2>1, EntriesElapse DEF Tick
  <2> QED BY <2>1, <2>2, TtlAssumption DEF StepUpEntries, Less, Strings!Exists
<1>4. {uk \in Users \X Contexts : Strings!Exists(stepUp'[uk[1]][uk[2]])} = Trusted \ T
      BY <1>3 DEF Trusted
<1>5. F \in SUBSET Users /\ L \in SUBSET Users /\ T \in SUBSET Trusted
      OBVIOUS
<1>6. [u \in Users |-> failures'[u].val]
        = [u \in Users |-> IF u \in F THEN 0 ELSE [v \in Users |-> failures[v].val][u]]
      BY <1>1
<1>7. [u \in Users |-> lastIp'[u].val]
        = [u \in Users |-> IF u \in L THEN Null ELSE [v \in Users |-> lastIp[v].val][u]]
      BY <1>2
<1> HIDE DEF F, L, T
<1> DEFINE Forgotten(G, M, S) ==
         /\ [u \in Users |-> failures'[u].val]
              = [u \in Users |-> IF u \in G THEN 0 ELSE [v \in Users |-> failures[v].val][u]]
         /\ [u \in Users |-> lastIp'[u].val]
              = [u \in Users |-> IF u \in M THEN Null ELSE [v \in Users |-> lastIp[v].val][u]]
         /\ {uk \in Users \X Contexts : Strings!Exists(stepUp'[uk[1]][uk[2]])} = Trusted \ S
<1>8. Forgotten(F, L, T)
      BY <1>4, <1>6, <1>7
<1> HIDE DEF Forgotten
<1>9. \E G, M \in SUBSET Users, S \in SUBSET Trusted : Forgotten(G, M, S)
      BY <1>5, <1>8
<1> QED BY <1>9 DEF Forgotten, Facts!Forget, Trusted

\* Deleting failures or a step-up forgets them and nothing else.
LEMMA DeletionIsForgetting ==
    ASSUME TypeOK, NEW u \in Users,
           resetFailures(u) \/ \E k \in Contexts : clearStepUp(u, k)
    PROVE  Facts!Forget
<1> DEFINE F == {v \in Users : failures'[v].val # failures[v].val}
           T == {uk \in Trusted : ~Strings!Exists(stepUp'[uk[1]][uk[2]])}
<1>1. \A v \in Users : failures'[v].val = IF v \in F THEN 0 ELSE failures[v].val
  <2>1. \A v \in Users : failures'[v] = failures[v] \/ failures'[v] = Counters!Gone
        BY DEF resetFailures, clearStepUp, TypeOK
  <2> QED BY <2>1 DEF Counters!Gone
<1>2. \A v \in Users, k \in Contexts :
         Strings!Exists(stepUp'[v][k]) => Strings!Exists(stepUp[v][k])
  <2>1. CASE resetFailures(u)
        BY <2>1 DEF resetFailures
  <2>2. ASSUME NEW k \in Contexts, clearStepUp(u, k)
        PROVE  \A v \in Users, c \in Contexts :
                  stepUp'[v][c] = stepUp[v][c] \/ stepUp'[v][c] = Strings!Gone
        BY <2>2 DEF clearStepUp, TypeOK
  <2> QED BY <2>1, <2>2 DEF Strings!Gone, Strings!Exists
<1>3. {uk \in Users \X Contexts : Strings!Exists(stepUp'[uk[1]][uk[2]])} = Trusted \ T
      BY <1>2 DEF Trusted
<1>4. UNCHANGED lastIp
      BY DEF resetFailures, clearStepUp
<1>5. F \in SUBSET Users /\ {} \in SUBSET Users /\ T \in SUBSET Trusted
      OBVIOUS
<1>6. [v \in Users |-> failures'[v].val]
        = [v \in Users |-> IF v \in F THEN 0 ELSE [w \in Users |-> failures[w].val][v]]
      BY <1>1
<1> HIDE DEF F, T
<1> DEFINE Forgotten(G, M, S) ==
         /\ [v \in Users |-> failures'[v].val]
              = [v \in Users |-> IF v \in G THEN 0 ELSE [w \in Users |-> failures[w].val][v]]
         /\ [v \in Users |-> lastIp'[v].val]
              = [v \in Users |-> IF v \in M THEN Null ELSE [w \in Users |-> lastIp[w].val][v]]
         /\ {uk \in Users \X Contexts : Strings!Exists(stepUp'[uk[1]][uk[2]])} = Trusted \ S
<1>7. Forgotten(F, {}, T)
      BY <1>3, <1>4, <1>6
<1> HIDE DEF Forgotten
<1>8. \E G, M \in SUBSET Users, S \in SUBSET Trusted : Forgotten(G, M, S)
      BY <1>5, <1>7
<1> QED BY <1>8 DEF Forgotten, Facts!Forget, Trusted

\* Every step a caller makes is a step of the facts or changes nothing of them.
LEMMA RememberIsSeen ==
    ASSUME TypeOK, NEW u \in Users, Remember(u)
    PROVE  Facts!Next
<1>1. CASE resetFailures(u) \/ \E k \in Contexts : clearStepUp(u, k)
      BY <1>1, DeletionIsForgetting DEF Facts!Next
<1>2. ASSUME NEW ip \in Ips, storeLastIp(u, ip) PROVE Facts!SeeIp(u, ip)
  <2>1. [v \in Users |-> lastIp'[v].val] = [[v \in Users |-> lastIp[v].val] EXCEPT ![u] = ip]
        BY <1>2 DEF storeLastIp, TypeOK, Strings!Set
  <2> QED BY <1>2, <2>1 DEF storeLastIp, Facts!SeeIp
<1>3. ASSUME NEW k \in Contexts, markStepUpVerified(u, k) PROVE Facts!Trust(u, k)
  <2>1. buildStepUpKey(k) = k
        BY DEF buildStepUpKey, Contexts
  <2>2. Strings!Exists(stepUp'[u][k])
        BY <1>3, <2>1, TtlAssumption DEF markStepUpVerified, TypeOK, Strings!Set, Strings!Exists
  <2>3. \A v \in Users, c \in Contexts :
           <<v, c>> # <<u, k>> => stepUp'[v][c] = stepUp[v][c]
        BY <1>3, <2>1 DEF markStepUpVerified, TypeOK
  <2>4. {uk \in Users \X Contexts : Strings!Exists(stepUp'[uk[1]][uk[2]])}
          = {uk \in Users \X Contexts : Strings!Exists(stepUp[uk[1]][uk[2]])} \cup {<<u, k>>}
        BY <2>2, <2>3
  <2> QED BY <1>3, <2>4 DEF markStepUpVerified, Facts!Trust
<1> QED BY <1>1, <1>2, <1>3 DEF Remember, Facts!Next

\* RiskMemoryService implements RiskFacts.
THEOREM FactsOnly == Spec => ImplementsFacts
<1>1. Init => Facts!Init
  <2> SUFFICES ASSUME Init PROVE Facts!Init
      OBVIOUS
  <2>1. {uk \in Users \X Contexts : Strings!Exists(stepUp[uk[1]][uk[2]])} = {}
        BY DEF Init, Strings!Exists, Strings!Gone
  <2>2. \A u \in Users : failures[u].val = 0 /\ lastIp[u].val = Null
        BY DEF Init, Counters!Gone, Strings!Gone
  <2> QED BY <2>1, <2>2 DEF Facts!Init
<1>2. TypeOK /\ CountInv /\ [Next]_memory => [Facts!Next]_Facts!facts
  <2> SUFFICES ASSUME TypeOK, CountInv, [Next]_memory PROVE [Facts!Next]_Facts!facts
      OBVIOUS
  <2>1. CASE UNCHANGED <<failures, lastIp, stepUp>>
        BY <2>1 DEF Facts!facts
  <2>2. CASE Tick
        BY <2>2, TickIsForgetting DEF Facts!Next
  <2>3. ASSUME NEW p \in Reports, Report(p) PROVE [Facts!Next]_Facts!facts
    <3>1. PICK u \in Users : u = reporter[p]
          BY DEF TypeOK
    <3>2. CASE reporting[p] = "incr" /\ Count(p) /\ UNCHANGED <<lastIp, stepUp>>
          BY <3>1, <3>2, CountIsSeen DEF Facts!Next
    <3>3. CASE /\ failures' = [failures EXCEPT ![reporter[p]] = Counters!Expire(@, FailureTtl)]
               /\ UNCHANGED <<lastIp, stepUp>>
          BY <3>3, ExpireIsUnseen
    <3>4. CASE UNCHANGED <<failures, lastIp, stepUp>>
          BY <2>1, <3>4
    <3> QED BY <2>3, <3>2, <3>3, <3>4 DEF Report, Continue, Unreported, Begin, Incr, Expire, Fail, store
  <2>4. ASSUME NEW u \in Users, Remember(u) PROVE [Facts!Next]_Facts!facts
        BY <2>4, RememberIsSeen
  <2> QED BY <2>1, <2>2, <2>3, <2>4 DEF Next, memory, store
<1> QED BY <1>1, <1>2, TypeCorrect, CountingCorrect, PTL DEF Spec, ImplementsFacts, Facts!Spec
-----------------------------------------------------------------------------
(***************************************************************************)
(* Expiry.  FailuresFade is about time and stays with TLC; the safety it   *)
(* rests on is that a counter without an expiry has a report that is about *)
(* to arm it or failed, that it counts no other reports, and that every    *)
(* report that completes arms it.                                          *)
(***************************************************************************)
PendingInv ==
    /\ \A u \in Users : failures[u].left = Counters!Forever =>
          \E p \in Reports : reporter[p] = u /\ reporting[p] \in {"expire", "failed"}
    /\ \A p \in counted : failures[reporter[p]].left = Counters!Forever =>
          reporting[p] \in {"expire", "failed"}
    /\ \A p \in Reports : reporting[p] = "failed" => Faulty

\* INCR adds a report that is pending or failed, and arms nothing.
LEMMA CountKeepsPending ==
    ASSUME TypeOK, CountInv, PendingInv, NEW p \in Reports, Count(p), UNCHANGED reporter,
           reporting'[p] \in {"expire", "failed"}, reporting'[p] = "failed" => Faulty,
           \A q \in Reports : q # p => reporting'[q] = reporting[q]
    PROVE  PendingInv'
<1> DEFINE u == reporter[p]
<1>1. u \in Users /\ failures[u] \in FailureEntries
      BY DEF TypeOK, FailureEntries
<1>2. /\ failures'[u] = Counters!Incr(failures[u]) /\ counted' = counted \cup {p}
      /\ \A v \in Users : v # u => failures'[v] = failures[v]
      BY <1>1 DEF Count, TypeOK
<1>3. ASSUME NEW v \in Users, failures'[v].left = Counters!Forever
      PROVE  \E q \in Reports : reporter'[q] = v /\ reporting'[q] \in {"expire", "failed"}
      BY <1>1, <1>2, <1>3 DEF PendingInv
<1>4. ASSUME NEW q \in counted', failures'[reporter'[q]].left = Counters!Forever
      PROVE  reporting'[q] \in {"expire", "failed"}
  <2>1. CASE q = p
        BY <2>1
  <2>2. CASE q # p
    <3>1. q \in counted /\ q \in Reports /\ reporter[q] \in Users
          BY <1>2, <2>2 DEF TypeOK
    <3>2. failures[reporter[q]].left = Counters!Forever
      <4>1. CASE reporter[q] = u
        <5>1. Counters!Exists(failures[u])
              BY <1>1, <3>1, <4>1 DEF CountInv, CountedOf
        <5> QED BY <1>1, <1>2, <1>4, <4>1, <5>1, CounterCommands
      <4>2. CASE reporter[q] # u
            BY <1>2, <1>4, <3>1, <4>2
      <4> QED BY <4>1, <4>2
    <3> QED BY <2>2, <3>1, <3>2 DEF PendingInv
  <2> QED BY <2>1, <2>2
<1> QED BY <1>3, <1>4 DEF PendingInv

\* EXPIRE leaves its counter armed or missing.
LEMMA ExpireKeepsPending ==
    ASSUME TypeOK, PendingInv, NEW p \in Reports, UNCHANGED <<reporter, counted>>,
           failures' = [failures EXCEPT ![reporter[p]] = Counters!Expire(@, FailureTtl)],
           reporting'[p] \in {"done", "failed"}, reporting'[p] = "failed" => Faulty,
           \A q \in Reports : q # p => reporting'[q] = reporting[q]
    PROVE  PendingInv'
<1> DEFINE u == reporter[p]
<1>1. u \in Users /\ failures[u] \in FailureEntries
      BY DEF TypeOK, FailureEntries
<1>2. /\ failures'[u] = Counters!Expire(failures[u], FailureTtl)
      /\ \A v \in Users : v # u => failures'[v] = failures[v]
      BY <1>1 DEF TypeOK
<1>3. failures'[u].left # Counters!Forever
      BY <1>1, <1>2, CounterCommands, TtlAssumption DEF Counters!Forever
<1>4. \A q \in counted : q \in Reports /\ reporter[q] \in Users
      BY DEF TypeOK
<1>5. \A q \in Reports : reporter[q] # u => reporting'[q] = reporting[q]
      OBVIOUS
<1>6. ASSUME NEW v \in Users, failures'[v].left = Counters!Forever
      PROVE  \E q \in Reports : reporter'[q] = v /\ reporting'[q] \in {"expire", "failed"}
      BY <1>2, <1>3, <1>5, <1>6 DEF PendingInv
<1>7. ASSUME NEW q \in counted', failures'[reporter'[q]].left = Counters!Forever
      PROVE  reporting'[q] \in {"expire", "failed"}
      BY <1>2, <1>3, <1>4, <1>5, <1>7 DEF PendingInv
<1> QED BY <1>6, <1>7 DEF PendingInv

\* A report's step leaves it pending or failed, or its counter armed.
LEMMA ReportKeepsPending ==
    ASSUME TypeOK, CountInv, PendingInv, NEW p \in Reports, Report(p)
    PROVE  PendingInv'
<1>1. /\ \A q \in Reports : q # p => reporting'[q] = reporting[q]
      /\ UNCHANGED reporter
      BY DEF Report, Continue, Unreported, Begin, Incr, Expire, Fail, Goto, TypeOK
<1>2. CASE Unreported(p) \/ Begin(p)
  <2>1. UNCHANGED <<failures, counted>> /\ reporting[p] = "before"
        BY <1>2 DEF Unreported, Begin, store, history
  <2>2. p \notin counted /\ reporting'[p] \in {"done", "incr"}
        BY <1>2, <2>1 DEF Unreported, Begin, Goto, TypeOK, CountInv
  <2>3. \A q \in counted : q \in Reports
        BY DEF TypeOK
  <2> QED BY <1>1, <2>1, <2>2, <2>3 DEF PendingInv
<1>3. CASE Incr(p)
  <2>1. Count(p) /\ reporting'[p] = "expire"
        BY <1>3 DEF Incr, Goto, TypeOK
  <2> QED BY <1>1, <2>1, CountKeepsPending
<1>4. CASE Expire(p)
  <2>1. /\ reporting'[p] = "done" /\ UNCHANGED counted
        /\ failures' = [failures EXCEPT ![reporter[p]] = Counters!Expire(@, FailureTtl)]
        BY <1>4 DEF Expire, Goto, TypeOK
  <2> QED BY <1>1, <2>1, ExpireKeepsPending
<1>5. CASE Fail(p)
  <2>1. reporting'[p] = "failed" /\ Faulty /\ reporting[p] \in {"incr", "expire"}
        BY <1>5 DEF Fail, Goto, TypeOK
  <2>2. CASE Count(p)
        BY <1>1, <2>1, <2>2, CountKeepsPending
  <2>3. CASE /\ failures' = [failures EXCEPT
                               ![reporter[p]] = Counters!Expire(@, FailureTtl)]
             /\ UNCHANGED counted
        BY <1>1, <2>1, <2>3, ExpireKeepsPending
  <2>4. CASE UNCHANGED <<failures, counted>>
    <3>1. \A q \in counted : q \in Reports
          BY DEF TypeOK
    <3> QED BY <1>1, <2>1, <2>4, <3>1 DEF PendingInv
  <2> QED BY <1>5, <2>2, <2>3, <2>4 DEF Fail
<1> QED BY <1>2, <1>3, <1>4, <1>5 DEF Report, Continue

\* A counter is without an expiry only between the two calls of some report
\* (RiskMemoryService.incrementFailures), or when a report failed; and then
\* all it counts are such reports, which is what FailuresFade calls orphaned
\* once the last of them is answered.
THEOREM PendingCorrect == Spec => []PendingInv
<1>1. Init => PendingInv
      BY DEF Init, PendingInv, Counters!Gone, Counters!Forever
<1>2. TypeOK /\ CountInv /\ PendingInv /\ [Next]_memory => PendingInv'
  <2> SUFFICES ASSUME TypeOK, CountInv, PendingInv, [Next]_memory PROVE PendingInv'
      OBVIOUS
  <2>1. CASE UNCHANGED memory
        BY <2>1 DEF PendingInv, memory, store, history
  <2>2. ASSUME UNCHANGED <<reporting, reporter>>, counted' \subseteq counted,
               \A v \in Users : failures'[v].left = Counters!Forever =>
                                 failures[v].left = Counters!Forever
        PROVE  PendingInv'
    <3>1. \A q \in counted : reporter[q] \in Users
          BY DEF TypeOK
    <3> QED BY <2>2, <3>1 DEF PendingInv
  <2>3. CASE Tick
    <3>1. ASSUME NEW u \in Users, failures'[u].left = Counters!Forever
          PROVE  failures[u].left = Counters!Forever
      <4>1. failures[u] \in FailureEntries /\ failures'[u] = Counters!Elapse(failures[u])
            BY <2>3 DEF Tick, TypeOK, FailureEntries
      <4>2. failures[u].left \in Nat \cup {-1}
            BY <4>1 DEF FailureEntries, Counters!Forever
      <4>3. failures'[u].left = IF failures[u].left > 0 THEN failures[u].left - 1
                                                         ELSE failures[u].left
            BY <4>1, CounterCommands
      <4> QED BY <3>1, <4>2, <4>3 DEF Counters!Forever
    <3> QED BY <2>2, <2>3, <3>1 DEF Tick, Forget
  <2>4. ASSUME NEW p \in Reports, Report(p) PROVE PendingInv'
        BY <2>4, ReportKeepsPending
  <2>5. ASSUME NEW u \in Users, Remember(u) PROVE PendingInv'
    <3>1. UNCHANGED <<reporting, reporter>> /\ counted' \subseteq counted
          BY <2>5 DEF Remember, resetFailures, storeLastIp, markStepUpVerified, clearStepUp,
                      Forget, history
    <3>2. \A v \in Users : failures'[v].left = Counters!Forever => failures[v].left = Counters!Forever
      <4>1. CASE resetFailures(u)
            BY <4>1 DEF resetFailures, TypeOK, Counters!Gone, Counters!Forever
      <4>2. CASE UNCHANGED failures
            BY <4>2
      <4> QED BY <2>5, <4>1, <4>2 DEF Remember, storeLastIp, markStepUpVerified, clearStepUp
    <3> QED BY <2>2, <3>1, <3>2
  <2> QED BY <2>1, <2>3, <2>4, <2>5 DEF Next
<1> QED BY <1>1, <1>2, TypeCorrect, CountingCorrect, PTL DEF Spec

\* A report that completes arms its user's counter, also one that an earlier
\* report's failed EXPIRE left without an expiry.
THEOREM NextReportHeals ==
    Spec => [][\A p \in Reports : reporting[p] = "expire" /\ reporting'[p] = "done" =>
                  failures'[reporter[p]].left \in {0, FailureTtl}]_memory
<1> DEFINE Heals == \A p \in Reports : reporting[p] = "expire" /\ reporting'[p] = "done" =>
                       failures'[reporter[p]].left \in {0, FailureTtl}
<1>1. TypeOK /\ [Next]_memory => [Heals]_memory
  <2> SUFFICES ASSUME TypeOK, Next, NEW p \in Reports, reporting[p] = "expire",
                      reporting'[p] = "done"
               PROVE  failures'[reporter[p]].left \in {0, FailureTtl}
      OBVIOUS
  <2>1. \E q \in Reports : Report(q)
        BY DEF Next, Tick, Remember, resetFailures, storeLastIp, markStepUpVerified, clearStepUp
  <2>2. Expire(p)
        BY <2>1 DEF Report, Continue, Unreported, Begin, Incr, Expire, Fail, Goto, TypeOK
  <2>3. /\ failures[reporter[p]] \in FailureEntries /\ UNCHANGED reporter
        /\ failures'[reporter[p]] = Counters!Expire(failures[reporter[p]], FailureTtl)
        BY <2>2 DEF Expire, TypeOK, FailureEntries
  <2> QED BY <2>3, CounterCommands
<1> QED BY <1>1, TypeCorrect, PTL DEF Spec
=============================================================================
