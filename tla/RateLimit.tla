----------------------------- MODULE RateLimit -----------------------------
(***************************************************************************)
(* RateLimitGuard and RateLimitService (src/rate-limit): a fixed window    *)
(* per client address, kept as one counter in a shared store.  A request   *)
(* makes up to three store calls, each awaited: INCR, EXPIRE when it was   *)
(* the first to count, and TTL.  Requests of all service instances         *)
(* interleave between the calls, time passes, and a call may fail or the   *)
(* instance may stop with the call's effect applied or not.                *)
(***************************************************************************)
EXTENDS Integers, FiniteSets

CONSTANTS
    Requests,   \* the requests that ever arrive (each is one pass of the guard)
    Clients,    \* client addresses, the keys `rate-limit:${ip}`
    Limit,      \* options.rateLimit.defaultLimit
    Window,     \* options.rateLimit.defaultWindowMs, in ticks
    Second,     \* ticks per second
    Faulty      \* may store calls fail?

ASSUME LimitAssumption == Limit \in Nat
ASSUME TimeAssumption  == Window \in Nat \ {0} /\ Second \in Nat \ {0}
ASSUME FaultAssumption == Faulty \in BOOLEAN

VARIABLES
    options,    \* [enabled, store]: is the limiter on, is a store configured
    counter,    \* the store: client -> entry of ExpiringStore
    pc,         \* where each request's handler is
    client,     \* the address each request comes from
    current,    \* the local variable `current`, 0 before INCR answered
    answer,     \* what the guard did with the request
    wait,       \* ticks left of the retryAfterSeconds a refused request got
    told,       \* history: was that wait read from a running TTL?
    counted,    \* history: was the request counted in the window still open?
    age,        \* history: ticks since it was counted, up to Window
    since       \* history: ticks since a client's window opened, up to Window

handler == <<pc, client, current, answer, wait, told>>
history == <<counted, age, since>>
vars    == <<options, counter, handler, history>>

\* A counter that does not exist reads as zero.
Store == INSTANCE ExpiringStore WITH Nil <- 0

Locations == {"arriving", "incr", "expire", "ttl", "done"}
Answers   == {"none", "allowed", "refused", "exempt", "error"}
-----------------------------------------------------------------------------
\* Mutant: Math.floor(windowMs / 1000).
WindowSecondsFloor == Window \div Second

\* Math.ceil(windowMs / 1000)
WindowSeconds == (Window + Second - 1) \div Second

\* Mutants: the first hit is never recognised; every hit renews the expiry.
FirstHitFromZero(n) == n = 0
EveryHit(n) == n > 0

\* if (current === 1)
FirstHit(n) == n = 1

\* Mutants: one request more, one request less.
AllowedOneMore(n) == n <= Limit + 1
AllowedOneLess(n) == n < Limit

\* const allowed = current <= limit
Allowed(n) == n <= Limit

\* Mutants: no fallback for a counter without a TTL; a second too few.
RetryAfterTtl(ttl) == ttl
RetryAfterShort(ttl) == IF ttl > 0 THEN ttl - 1 ELSE WindowSeconds

\* retryAfterSeconds: ttl > 0 ? ttl : windowSeconds
RetryAfter(ttl) == IF ttl > 0 THEN ttl ELSE WindowSeconds

\* The requests counted in the window that client c has open.
InWindow(c) == {r \in Requests : counted[r] /\ client[r] = c}
-----------------------------------------------------------------------------
Init ==
    /\ options \in [enabled : BOOLEAN, store : BOOLEAN]
    /\ counter = [c \in Clients |-> Store!Gone]
    /\ pc      = [r \in Requests |-> "arriving"]
    /\ client \in [Requests -> Clients]
    /\ current = [r \in Requests |-> 0]
    /\ answer  = [r \in Requests |-> "none"]
    /\ wait    = [r \in Requests |-> 0]
    /\ told    = [r \in Requests |-> FALSE]
    /\ counted = [r \in Requests |-> FALSE]
    /\ age     = [r \in Requests |-> 0]
    /\ since   = [c \in Clients |-> 0]

Answer(r, a) ==
    /\ pc'     = [pc EXCEPT ![r] = "done"]
    /\ answer' = [answer EXCEPT ![r] = a]

\* The guard lets /health through without counting it.
Bypass(r) ==
    /\ pc[r] = "arriving"
    /\ Answer(r, "exempt")
    /\ UNCHANGED <<options, counter, client, current, wait, told, history>>

\* Rate limiting is switched off: every request is allowed.
Unlimited(r) ==
    /\ pc[r] = "arriving"
    /\ ~options.enabled
    /\ Answer(r, "allowed")
    /\ UNCHANGED <<options, counter, client, current, wait, told, history>>

\* Switched on without a store: isAllowed throws.
Misconfigured(r) ==
    /\ pc[r] = "arriving"
    /\ options.enabled
    /\ ~options.store
    /\ Answer(r, "error")
    /\ UNCHANGED <<options, counter, client, current, wait, told, history>>

\* The handler starts the INCR call.
Enter(r) ==
    /\ pc[r] = "arriving"
    /\ options.enabled
    /\ options.store
    /\ pc' = [pc EXCEPT ![r] = "incr"]
    /\ UNCHANGED <<options, counter, client, current, answer, wait, told, history>>

\* The server's side of INCR.
Count(r) ==
    /\ counter' = [counter EXCEPT ![client[r]] = Store!Incr(@)]
    /\ counted' = [counted EXCEPT ![r] = TRUE]
    /\ UNCHANGED <<age, since>>

\* INCR answers; the first hit goes on to arm the expiry.
Incr(r) ==
    /\ pc[r] = "incr"
    /\ Count(r)
    /\ current' = [current EXCEPT ![r] = counter'[client[r]].val]
    /\ pc' = [pc EXCEPT ![r] = IF FirstHit(current'[r]) THEN "expire" ELSE "ttl"]
    /\ UNCHANGED <<options, client, answer, wait, told>>

\* Mutant: the window is given in seconds where milliseconds are expected.
ArmMillis(c) ==
    counter' = [counter EXCEPT ![c] = Store!Expire(@, (WindowSeconds * Second) \div 1000)]

\* The server's side of EXPIRE: the window runs from here.
Arm(c) == counter' = [counter EXCEPT ![c] = Store!Expire(@, WindowSeconds * Second)]

Expire(r) ==
    /\ pc[r] = "expire"
    /\ Arm(client[r])
    /\ pc' = [pc EXCEPT ![r] = "ttl"]
    /\ UNCHANGED <<options, client, current, answer, wait, told, history>>

\* TTL answers and the guard decides, on the count it got from INCR.
Reply(r) ==
    /\ pc[r] = "ttl"
    /\ \E ttl \in Store!TtlReplies(counter[client[r]], Second) :
          IF Allowed(current[r])
            THEN Answer(r, "allowed") /\ UNCHANGED <<wait, told>>
            ELSE /\ Answer(r, "refused")
                 /\ wait' = [wait EXCEPT ![r] = RetryAfter(ttl) * Second]
                 /\ told' = [told EXCEPT ![r] = ttl > 0]
    /\ UNCHANGED <<options, counter, client, current, history>>

\* A store call rejects, or the instance stops during it.  The server may
\* have executed the call or not; the request ends with an error.
Fail(r) ==
    /\ Faulty
    /\ \/ pc[r] = "incr" /\ (Count(r) \/ UNCHANGED <<counter, history>>)
       \/ pc[r] = "expire" /\ (Arm(client[r]) \/ UNCHANGED counter) /\ UNCHANGED history
       \/ pc[r] = "ttl" /\ UNCHANGED <<counter, history>>
    /\ Answer(r, "error")
    /\ UNCHANGED <<options, client, current, wait, told>>

\* One tick of a history clock that stops at Window.
Older(n) == IF n < Window THEN n + 1 ELSE Window

\* One tick: expiries and promised waits run down; a counter that expires
\* closes its window.
Tick ==
    /\ counter' = [c \in Clients |-> Store!Elapse(counter[c])]
    /\ wait'    = [r \in Requests |-> IF wait[r] > 0 THEN wait[r] - 1 ELSE 0]
    /\ counted' = [r \in Requests |-> counted[r] /\ Store!Exists(counter'[client[r]])]
    /\ age'     = [r \in Requests |-> IF counted[r] \/ age[r] > 0 THEN Older(age[r]) ELSE 0]
    /\ since'   = [c \in Clients |-> IF Store!Exists(counter'[c]) THEN Older(since[c]) ELSE 0]
    /\ UNCHANGED <<options, pc, client, current, answer, told>>

Arrive(r)  == Bypass(r) \/ Unlimited(r) \/ Misconfigured(r) \/ Enter(r)
Advance(r) == Incr(r) \/ Expire(r) \/ Reply(r) \/ Fail(r)

Next == Tick \/ \E r \in Requests : Arrive(r) \/ Advance(r)

\* Nothing makes a request arrive, but a call that was made is answered or
\* rejected, and time passes.
Fairness == WF_vars(Tick) /\ \A r \in Requests : WF_vars(Advance(r))

Spec == Init /\ [][Next]_vars
FairSpec == Spec /\ Fairness
-----------------------------------------------------------------------------
(***************************************************************************)
(* Properties.                                                             *)
(***************************************************************************)
Entries == [val : Nat, left : Nat \cup {Store!Forever}]

\* Every variable stays in its set, and a counter exists exactly when it has
\* counted something (src/rate-limit/rate-limit.service.ts, isAllowed).
TypeOK ==
    /\ options \in [enabled : BOOLEAN, store : BOOLEAN]
    /\ counter \in [Clients -> Entries]
    /\ \A c \in Clients : Store!Exists(counter[c]) <=> counter[c].val > 0
    /\ pc      \in [Requests -> Locations]
    /\ client  \in [Requests -> Clients]
    /\ current \in [Requests -> Nat]
    /\ answer  \in [Requests -> Answers]
    /\ wait    \in [Requests -> Nat]
    /\ told    \in [Requests -> BOOLEAN]
    /\ counted \in [Requests -> BOOLEAN]
    /\ age     \in [Requests -> 0..Window]
    /\ since   \in [Clients -> 0..Window]

Granted == {r \in Requests : answer[r] = "allowed" /\ current[r] > 0}

\* However the handlers interleave and whatever store calls are lost, at most
\* Limit of the requests counted in one window of a client are allowed.
WindowBudget ==
    \A c \in Clients : Cardinality(InWindow(c) \cap Granted) <= Limit

\* In any stretch of Window ticks a client gets at most two windows' worth of
\* requests through: windows are never shorter than defaultWindowMs although
\* the store counts whole seconds (Math.ceil(windowMs / 1000)).
SlidingBudget ==
    \A c \in Clients :
        Cardinality({r \in Granted : client[r] = c /\ age[r] < Window}) <= 2 * Limit

\* A request is refused only when its window has counted more than Limit
\* requests: no interleaving refuses a client that stayed within its budget.
NoSpuriousRefusal ==
    \A r \in Requests :
        answer[r] = "refused" /\ counted[r] => Cardinality(InWindow(client[r])) > Limit

\* A counter without an expiry that no request is about to give one, left so by
\* a request of its window whose store calls failed.
Orphaned(c) ==
    /\ counter[c].left = Store!Forever
    /\ \E r \in InWindow(c) : answer[r] = "error"
    /\ \A r \in InWindow(c) : pc[r] # "expire"

\* A counter without an expiry always has one request in flight that is about
\* to give it its expiry, unless that request's store calls failed.
ArmedOrPending ==
    \A c \in Clients : counter[c].left = Store!Forever =>
        \/ Cardinality({r \in InWindow(c) : pc[r] = "expire"}) = 1
        \/ Orphaned(c)

\* retryAfterSeconds read from a running TTL is honest: when the promised wait
\* is over, less than a second of the window is left.
RetryAfterHonest ==
    \A r \in Requests :
        counted[r] /\ told[r] => counter[client[r]].left < wait[r] + Second

\* Requests never lengthen a window that is running: only a counter without an
\* expiry is given one, and time alone ends it.
WindowNeverExtended ==
    [][\A c \in Clients : counter[c].left > 0 =>
          counter'[c].left \in {counter[c].left, counter[c].left - 1}]_vars

\* The window a request was refused in ends, so that a client which waits is
\* served again, unless a failed store call kept the window from being armed.
RefusalEnds ==
    \A r \in Requests :
        answer[r] = "refused" /\ counted[r] ~> ~counted[r] \/ Orphaned(client[r])

\* "Too many requests. Please try again later." (rate-limit.guard.ts:39): the
\* window a request was refused in ends, whatever failed.
TryAgainLater ==
    \A r \in Requests : answer[r] = "refused" /\ counted[r] ~> ~counted[r]

(***************************************************************************)
(* The inductive strengthening of the safety properties.                   *)
(***************************************************************************)
\* Counting: the requests of an open window hold distinct counts up to the
\* counter's value, which is their number.
CountInv ==
    /\ \A r \in Requests :
          /\ pc[r] \in {"arriving", "incr"} => ~counted[r] /\ current[r] = 0
          /\ pc[r] \in {"expire", "ttl"} => current[r] > 0
          /\ pc[r] = "done" <=> answer[r] # "none"
          /\ counted[r] => current[r] <= counter[client[r]].val
          /\ answer[r] = "allowed" /\ current[r] > 0 => Allowed(current[r])
          /\ answer[r] = "refused" => ~Allowed(current[r]) /\ current[r] > 0
    /\ \A r, s \in Requests :
          /\ counted[r] /\ counted[s] /\ client[r] = client[s]
          /\ current[r] > 0 /\ current[r] = current[s]
          => r = s
    /\ \A c \in Clients :
          /\ IsFiniteSet(InWindow(c))
          /\ Cardinality(InWindow(c)) = counter[c].val

\* Arming: a request about to send EXPIRE is the first of a window that has no
\* expiry yet; an unarmed window has such a request or a failed one.
ArmInv ==
    /\ \A r \in Requests : pc[r] = "expire" =>
          counted[r] /\ current[r] = 1 /\ counter[client[r]].left = Store!Forever
    /\ \A c \in Clients : counter[c].left = Store!Forever =>
          \E r \in InWindow(c) : pc[r] = "expire" \/ answer[r] = "error"

\* Clocks: an armed window's remaining time completes the configured length,
\* and runs down together with the waits it was promised as.
ClockInv ==
    /\ \A c \in Clients :
          /\ counter[c].left > 0 => since[c] + counter[c].left >= Window
          /\ ~Store!Exists(counter[c]) => since[c] = 0
    /\ \A r \in Requests :
          /\ told[r] => answer[r] = "refused"
          /\ counted[r] /\ told[r] =>
                counter[client[r]].left > 0 /\ counter[client[r]].left < wait[r] + Second

(***************************************************************************)
(* Refinement.                                                             *)
(***************************************************************************)
\* The decision in terms of the abstract fixed window.
Verdict(r) == IF current[r] = 0 THEN "none"
              ELSE IF Allowed(current[r]) THEN "granted" ELSE "refused"

Abstract == INSTANCE FixedWindow WITH
    open    <- [c \in Clients |-> Store!Exists(counter[c])],
    taken   <- [c \in Clients |-> IF counter[c].val < Limit THEN counter[c].val ELSE Limit],
    verdict <- [r \in Requests |-> Verdict(r)]

\* The store-based limiter implements the abstract fixed window.
ImplementsFixedWindow == Abstract!Spec
=============================================================================
