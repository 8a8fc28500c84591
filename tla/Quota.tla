------------------------------- MODULE Quota -------------------------------
(***************************************************************************)
(* What a token bucket promises: every client has a level that rises with  *)
(* time to a ceiling, and a request passes exactly if it can be paid for.  *)
(* Nothing is stored or forgotten here.                                    *)
(***************************************************************************)
EXTENDS Integers

CONSTANTS Clients, Full, Cost, Refill

VARIABLES
    now,        \* the time
    level,      \* what each client may spend
    answer      \* what his last request was told

quotaVars == <<now, level, answer>>

AtMost(max, x) == IF x < max THEN x ELSE max

Init ==
    /\ now = 0
    /\ level = [c \in Clients |-> Full]
    /\ answer = [c \in Clients |-> "none"]

Ask(c) ==
    /\ \/ /\ level[c] >= Cost
          /\ level' = [level EXCEPT ![c] = @ - Cost]
          /\ answer' = [answer EXCEPT ![c] = "passed"]
       \/ /\ level[c] < Cost
          /\ answer' = [answer EXCEPT ![c] = "refused"]
          /\ UNCHANGED level
    /\ UNCHANGED now

Rise ==
    /\ now' = now + 1
    /\ level' = [c \in Clients |-> AtMost(Full, level[c] + Refill)]
    /\ UNCHANGED answer

Next == Rise \/ \E c \in Clients : Ask(c)

Spec == Init /\ [][Next]_quotaVars
=============================================================================
