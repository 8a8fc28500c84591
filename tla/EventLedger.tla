---------------------------- MODULE EventLedger ----------------------------
(***************************************************************************)
(* What the webhook path promises about one payload, without goroutines,   *)
(* tables or clocks: it is claimed before anything is done with it, it     *)
(* changes a subscription at most once and only under a claim, and once it *)
(* is settled or dropped nothing moves it again. A claim nobody acted on   *)
(* may be forgotten.                                                       *)
(***************************************************************************)
CONSTANT Payloads

VARIABLE stage

Stages == {"new", "claimed", "applied", "settled", "dropped"}

LedgerInit == stage = [k \in Payloads |-> "new"]

Claim(k) == stage[k] = "new" /\ stage' = [stage EXCEPT ![k] = "claimed"]

ApplyOnce(k) == stage[k] = "claimed" /\ stage' = [stage EXCEPT ![k] = "applied"]

Settle(k) == stage[k] = "applied" /\ stage' = [stage EXCEPT ![k] = "settled"]

\* Kept for the audit trail, stale, or of no known user.
Drop(k) ==
    stage[k] \in {"new", "claimed"} /\ stage' = [stage EXCEPT ![k] = "dropped"]

Forget(K) ==
    /\ \A k \in K : stage[k] = "claimed"
    /\ stage' = [k \in Payloads |-> IF k \in K THEN "new" ELSE stage[k]]

LedgerNext ==
    \/ \E k \in Payloads : Claim(k) \/ ApplyOnce(k) \/ Settle(k) \/ Drop(k)
    \/ \E K \in SUBSET Payloads : Forget(K)

LedgerSpec == LedgerInit /\ [][LedgerNext]_stage
=============================================================================
