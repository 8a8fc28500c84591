----------------------------- MODULE MCListener -----------------------------
(***************************************************************************)
(* Instances of the live feed with one command line client.                *)
(***************************************************************************)
EXTENDS Listener, TLC

CONSTANTS r1, r2, s1

TwoRequests == {r1, r2}
OneStream == {s1}
TwoStreamOf == [r \in TwoRequests |-> s1]
=============================================================================
