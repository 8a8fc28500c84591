------------------------------ MODULE Backend ------------------------------
(***************************************************************************)
(* What the account side of the API shares: a clock and the faults its     *)
(* goroutines meet.  Every SQL statement is a step of its own: the store   *)
(* has no transactions.                                                    *)
(***************************************************************************)
EXTENDS Integers, Sequences, FiniteSets

CONSTANTS
    MaxTime,    \* the clock stops here
    Faults      \* what may go wrong: see FaultKinds

FaultKinds == {"store", "mail"}

ASSUME BackendAssumption ==
    /\ MaxTime \in Nat
    /\ Faults \subseteq FaultKinds

VARIABLE now

\* time.Now() never runs backwards: Go compares the monotonic reading.
Tick == now < MaxTime /\ now' = now + 1

Never == -1
=============================================================================
