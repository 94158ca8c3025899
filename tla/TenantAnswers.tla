--------------------------- MODULE TenantAnswers ---------------------------
(***************************************************************************)
(* What verify promises its callers, without a cache, keys or RPCs: a      *)
(* named user is accepted only if the tenant service would have allowed it *)
(* less than Bound ticks ago, an anonymous caller only if it does now; a   *)
(* refusal was true at some moment of the call; and a call fails without   *)
(* an answer only where the tenant service itself may fail.                *)
(***************************************************************************)
EXTENDS Integers

CONSTANTS
    Users, Tenants, Anonymous, Handlers,
    Bound,      \* ticks after which nobody is accepted any more
    Faulty      \* may the tenant service fail?

VARIABLES
    allowed,    \* the callers the tenant service allows into the tenants now
    age,        \* ticks since each pair was last allowed, up to Bound
    asking,     \* the question of each call in progress: none or one
    doubted,    \* was it one to refuse at some moment of the call?
    answer      \* what the last call of each handler was told

vars == <<allowed, age, asking, doubted, answer>>

Pairs     == Users \X Tenants
Questions == (Users \cup {Anonymous}) \X Tenants
Answers   == {"none", "accepted", "refused", "failed"}

Init ==
    /\ allowed \in SUBSET Questions
    /\ age     = [p \in Pairs |-> IF p \in allowed THEN 0 ELSE Bound]
    /\ asking  = [h \in Handlers |-> {}]
    /\ doubted = [h \in Handlers |-> FALSE]
    /\ answer  = [h \in Handlers |-> "none"]

Ask(h) ==
    /\ asking[h] = {}
    /\ \E q \in Questions :
          /\ asking'  = [asking EXCEPT ![h] = {q}]
          /\ doubted' = [doubted EXCEPT ![h] = q \notin allowed]
    /\ answer' = [answer EXCEPT ![h] = "none"]
    /\ UNCHANGED <<allowed, age>>

Answer(h, a) ==
    /\ asking[h] # {}
    /\ asking' = [asking EXCEPT ![h] = {}]
    /\ answer' = [answer EXCEPT ![h] = a]
    /\ UNCHANGED <<allowed, age, doubted>>

Accept(h) ==
    /\ \A q \in asking[h] : IF q \in Pairs THEN age[q] < Bound ELSE q \in allowed
    /\ Answer(h, "accepted")

Refuse(h) == doubted[h] /\ Answer(h, "refused")

Fail(h) == Faulty /\ Answer(h, "failed")

\* The tenant service changes its mind.
Change ==
    /\ allowed' \in SUBSET Questions
    /\ age'     = [p \in Pairs |-> IF p \in allowed' THEN 0 ELSE age[p]]
    /\ doubted' = [h \in Handlers |-> doubted[h] \/ \E q \in asking[h] : q \notin allowed']
    /\ UNCHANGED <<asking, answer>>

Tick ==
    /\ age' = [p \in Pairs |-> IF p \in allowed \/ age[p] = Bound THEN age[p] ELSE age[p] + 1]
    /\ UNCHANGED <<allowed, asking, doubted, answer>>

Next == Tick \/ Change \/ \E h \in Handlers : Ask(h) \/ Accept(h) \/ Refuse(h) \/ Fail(h)

Spec == Init /\ [][Next]_vars
=============================================================================
