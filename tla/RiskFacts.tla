----------------------------- MODULE RiskFacts -----------------------------
(***************************************************************************)
(* What a reader of the risk memory can see of it, and how that changes:   *)
(* failures are counted one by one and forgotten all at once, the last     *)
(* address is replaced or forgotten, a context is trusted for a while.     *)
(***************************************************************************)
EXTENDS Integers

CONSTANTS
    Users, Ips, Contexts,
    NoIp,           \* no last address is known
    MaxFailures     \* bound: failures counted before they are forgotten

VARIABLES failures, lastIp, trusted

facts == <<failures, lastIp, trusted>>

Init ==
    /\ failures = [u \in Users |-> 0]
    /\ lastIp   = [u \in Users |-> NoIp]
    /\ trusted  = {}

CountFailure(u) ==
    /\ failures[u] < MaxFailures
    /\ failures' = [failures EXCEPT ![u] = @ + 1]
    /\ UNCHANGED <<lastIp, trusted>>

SeeIp(u, ip) ==
    /\ lastIp' = [lastIp EXCEPT ![u] = ip]
    /\ UNCHANGED <<failures, trusted>>

Trust(u, k) ==
    /\ trusted' = trusted \cup {<<u, k>>}
    /\ UNCHANGED <<failures, lastIp>>

\* Expiry, resetFailures and clearStepUp: any facts may be forgotten together.
Forget ==
    \E F, L \in SUBSET Users, T \in SUBSET trusted :
        /\ failures' = [u \in Users |-> IF u \in F THEN 0 ELSE failures[u]]
        /\ lastIp'   = [u \in Users |-> IF u \in L THEN NoIp ELSE lastIp[u]]
        /\ trusted'  = trusted \ T

Next ==
    \/ Forget
    \/ \E u \in Users :
          \/ CountFailure(u)
          \/ \E ip \in Ips : SeeIp(u, ip)
          \/ \E k \in Contexts : Trust(u, k)

Spec == Init /\ [][Next]_facts
=============================================================================
