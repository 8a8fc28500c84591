----------------------------- MODULE MCBilling -----------------------------
(***************************************************************************)
(* Instances of the whole billing subsystem: a Paystack customer who pays, *)
(* verifies the transaction, cancels, and whose subscription events arrive *)
(* meanwhile.                                                              *)
(***************************************************************************)
EXTENDS Billing, TLC

MCUsers == {"u1"}
MCReferences == {"T1", "T2"}
MCCodes == {"SUB_1"}
MCIds == {"C1"} \cup MCReferences \cup MCCodes

Body(name, sub, status, renewsAt, at) ==
    [provider |-> "paystack", name |-> name, user |-> "u1", customer |-> "C1",
     sub |-> sub, ours |-> TRUE, interval |-> "month", status |-> status,
     cancelled |-> FALSE, failed |-> TRUE, renewsAt |-> renewsAt,
     endsAt |-> NoDate, trialEndsAt |-> NoDate, at |-> at, sentOn |-> at]

Events ==
    ("create" :> Body("subscription.create", "SUB_1", "active", 3, 1)) @@
    ("disable" :> Body("subscription.disable", "SUB_1", "cancelled", 3, 2))

\* The charge behind the second transaction.
Charges == ("charge" :> Body("charge.success", NoId, "", NoDate, 2))

EventPayloads == DOMAIN Events
ChargePayloads == DOMAIN Charges

Tx(r, day) ==
    [owner |-> "u1", accepted |-> TRUE, customer |-> "C1", interval |-> "month",
     reusable |-> TRUE, paidOn |-> day]

FirstPayment == "T1" :> Tx("T1", 1)
TwoPayments == ("T1" :> Tx("T1", 1)) @@ ("T2" :> Tx("T2", 2))
FirstReference == {"T1"}

Requests == Permutations(Callers)
=============================================================================
