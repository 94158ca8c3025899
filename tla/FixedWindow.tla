---------------------------- MODULE FixedWindow ----------------------------
(***************************************************************************)
(* What the rate limiter promises a client, without a store: a window      *)
(* opens with the client's first request, the first Limit requests of a    *)
(* window are granted and the others refused, and a window stays open for  *)
(* at least Window ticks.  A request whose answer is lost uses up a place. *)
(***************************************************************************)
EXTENDS Integers

CONSTANTS Requests, Clients, Limit, Window

VARIABLES
    open,      \* has the client a window?
    taken,     \* places used in it, at most Limit
    since,     \* ticks since it opened, up to Window
    verdict    \* what was decided for each request

vars == <<open, taken, since, verdict>>

Init ==
    /\ open    = [c \in Clients |-> FALSE]
    /\ taken   = [c \in Clients |-> 0]
    /\ since   = [c \in Clients |-> 0]
    /\ verdict = [r \in Requests |-> "none"]

\* A client's request finds its window open or opens it.
Open(c) == open' = [open EXCEPT ![c] = TRUE] /\ UNCHANGED since

Take(c) == taken[c] < Limit /\ taken' = [taken EXCEPT ![c] = @ + 1]

Full(c) == taken[c] = Limit /\ UNCHANGED taken

Decide(r, v) == verdict[r] = "none" /\ verdict' = [verdict EXCEPT ![r] = v]

Grant(r, c)  == Open(c) /\ Take(c) /\ Decide(r, "granted")
Refuse(r, c) == Open(c) /\ Full(c) /\ Decide(r, "refused")
Lose(c)      == Open(c) /\ (Take(c) \/ Full(c)) /\ UNCHANGED verdict

\* Time passes, and windows that have been open long enough may close.
Pass ==
    \E closed \in SUBSET {c \in Clients : open[c] /\ since[c] + 1 >= Window} :
        /\ open'  = [c \in Clients |-> open[c] /\ c \notin closed]
        /\ taken' = [c \in Clients |-> IF c \in closed THEN 0 ELSE taken[c]]
        /\ since' = [c \in Clients |->
                        IF ~open[c] \/ c \in closed THEN 0
                        ELSE IF since[c] < Window THEN since[c] + 1 ELSE Window]
        /\ UNCHANGED verdict

Next ==
    \/ Pass
    \/ \E c \in Clients :
          \/ Lose(c)
          \/ \E r \in Requests : Grant(r, c) \/ Refuse(r, c)

Spec == Init /\ [][Next]_vars
=============================================================================
