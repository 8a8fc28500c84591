------------------------------- MODULE Relay -------------------------------
(***************************************************************************)
(* What `hookdrop listen` promises of the requests of its stream, without  *)
(* connections, channels and goroutines.  Requests come in a line which    *)
(* each joins at most once, and which is lost when a connection is.  What  *)
(* has been read from it is sent to the local target in that order, save   *)
(* for what is reported as dropped, until the command ends.                *)
(***************************************************************************)
EXTENDS Integers, SequencesExt

CONSTANTS
    Requests,
    Greeting        \* comes in the line too, and is no request

VARIABLES
    fresh,          \* requests that may yet join the line
    coming,         \* the line
    held,           \* what has been read and not been dealt with
    forwarded,      \* requests sent, in order
    dropped,        \* requests reported as dropped
    over            \* the command has ended

relayVars == <<fresh, coming, held, forwarded, dropped, over>>

RelayInit ==
    /\ fresh \subseteq Requests
    /\ coming = <<>>
    /\ held = <<>>
    /\ forwarded = <<>>
    /\ dropped = {}
    /\ over = FALSE

Join(r) ==
    /\ r \in fresh
    /\ fresh' = fresh \ {r}
    /\ coming' = Append(coming, r)
    /\ UNCHANGED <<held, forwarded, dropped, over>>

Greet ==
    /\ coming' = Append(coming, Greeting)
    /\ UNCHANGED <<fresh, held, forwarded, dropped, over>>

\* Requests are passed over, and the line may be lost. For good, either way.
Lose ==
    /\ fresh' \subseteq fresh
    /\ coming' \in {coming, <<>>}
    /\ UNCHANGED <<held, forwarded, dropped, over>>

Read ==
    /\ ~over /\ coming # <<>>
    /\ held' = Append(held, Head(coming))
    /\ coming' = Tail(coming)
    /\ UNCHANGED <<fresh, forwarded, dropped, over>>

\* The greeting is taken out; a request is only if that is reported.
TakeOut(i) ==
    /\ ~over
    /\ held' = RemoveAt(held, i)
    /\ dropped' = dropped \cup ({held[i]} \ {Greeting})
    /\ UNCHANGED <<fresh, coming, forwarded, over>>

Forward ==
    /\ ~over /\ held # <<>> /\ Head(held) # Greeting
    /\ forwarded' = Append(forwarded, Head(held))
    /\ held' = Tail(held)
    /\ UNCHANGED <<fresh, coming, dropped, over>>

Finish ==
    /\ over' = TRUE
    /\ fresh' \subseteq fresh
    /\ coming' = <<>>
    /\ UNCHANGED <<held, forwarded, dropped>>

RelayNext ==
    \/ \E r \in Requests : Join(r)
    \/ Greet \/ Lose \/ Read \/ Forward \/ Finish
    \/ \E i \in DOMAIN held : TakeOut(i)

RelaySpec == RelayInit /\ [][RelayNext]_relayVars
=============================================================================
