--------------------------- MODULE ExpiringStore ---------------------------
(***************************************************************************)
(* What the services of this repository rely on in the Valkey/Redis server *)
(* behind their RateLimitStore, RiskMemoryStore and ValkeyService: single  *)
(* commands are atomic, a key may carry an expiry, INCR leaves the expiry  *)
(* alone, EXPIRE and SET .. EX renew it.  External code: every operator is *)
(* the effect of one command on one key.                                   *)
(*                                                                         *)
(* An entry says how long it still lives instead of when it dies, so a     *)
(* model in which time never ends keeps finitely many states.              *)
(***************************************************************************)
EXTENDS Integers

CONSTANT Nil    \* the value of a key that does not exist

Forever == -1   \* "left" of a key without an expiry

Gone == [val |-> Nil, left |-> 0]

Exists(e) == e.left # 0

\* SET key v EX ticks
Set(v, ticks) == [val |-> v, left |-> ticks]

\* INCR: a missing key counts from zero and gets no expiry.
Incr(e) == IF Exists(e) THEN [e EXCEPT !.val = @ + 1]
                        ELSE [val |-> 1, left |-> Forever]

\* EXPIRE: nothing happens to a missing key; zero deletes the key at once.
Expire(e, ticks) == IF Exists(e) /\ ticks > 0 THEN [e EXCEPT !.left = ticks]
                                              ELSE Gone

\* One tick of the server's clock.
Elapse(e) == CASE e.left > 1 -> [e EXCEPT !.left = @ - 1]
               [] e.left = 1 -> Gone
               [] OTHER      -> e

\* The answers TTL may give, in whole seconds of the given number of ticks:
\* servers round a part of a second either way.
TtlReplies(e, second) ==
    CASE e.left = 0       -> {-2}
      [] e.left = Forever -> {-1}
      [] OTHER -> {e.left \div second, (e.left + second - 1) \div second}
=============================================================================
