---------------------------- MODULE Cancellation ----------------------------
(***************************************************************************)
(* POST /billing/cancel: CancelSubscription reads the row, asks the        *)
(* provider to stop and writes the whole row back with                     *)
(* cancel_at_period_end set (internal/handler/billing.go).                 *)
(***************************************************************************)
EXTENDS BillingStore

CONSTANTS
    Cancellers,          \* cancel requests that can be in flight at once
    SubscriptionCodes    \* the ids that start with SUB_

ASSUME CancellationAssumption == SubscriptionCodes \subseteq Ids

VARIABLES
    cancel,     \* the request of each canceller
    stopped     \* subscription ids the provider has been told to stop

cancelVars == <<cancel, stopped>>

IdleCancel == [pc |-> "idle", user |-> NoUser, row |-> DefaultSubscription,
               since |-> NoDate]

CancelState ==
    [pc: {"idle", "provider", "write"}, user: Users \cup {NoUser},
     row: Subscription, since: Date]

CancellationTypeOK ==
    /\ cancel \in [Cancellers -> CancelState]
    /\ stopped \subseteq Ids \cup {NoId}

CancellationInit ==
    /\ cancel = [c \in Cancellers |-> IdleCancel]
    /\ stopped = {}

----------------------------------------------------------------------------
Cancelling(c) == cancel[c].pc # "idle"

\* A Paystack row can hold a transaction reference, which Paystack cannot
\* cancel: such a row is cancelled locally only.
Callable(row) == row.provider = "paystack" => row.sub \in SubscriptionCodes

CancelReply(c) == cancel' = [cancel EXCEPT ![c] = IdleCancel]

\* A free or missing subscription is refused and one already cancelled is
\* answered 200: neither changes anything.
StartCancel(c, u) ==
    LET row == GetSubscription(u) IN
    /\ ~Cancelling(c)
    /\ row.stored /\ row.plan # "free" /\ ~row.cancelAtEnd
    /\ cancel' = [cancel EXCEPT ![c] =
           [pc |-> IF Callable(row) THEN "provider" ELSE "write",
            user |-> u, row |-> row, since |-> today]]
    /\ UNCHANGED <<storeVars, stopped>>

\* Faulty variant: a failure of the provider is ignored.
CallProviderBestEffort(c) ==
    /\ cancel[c].pc = "provider"
    /\ \/ stopped' = stopped \cup {cancel[c].row.sub}
       \/ "provider" \in Faults /\ UNCHANGED stopped
    /\ cancel' = [cancel EXCEPT ![c].pc = "write"]
    /\ UNCHANGED storeVars

\* The API call. A failure is answered 502 and leaves the row untouched,
\* whether or not the request reached the provider. For Paystack two comments
\* beside the code still call it best-effort, which it is no more.
CallProvider(c) ==
    /\ cancel[c].pc = "provider"
    /\ \/ /\ stopped' = stopped \cup {cancel[c].row.sub}
          /\ cancel' = [cancel EXCEPT ![c].pc = "write"]
       \/ /\ "provider" \in Faults
          /\ stopped' \in {stopped, stopped \cup {cancel[c].row.sub}}
          /\ CancelReply(c)
    /\ UNCHANGED storeVars

\* Faulty variant: the status is cancelled at once, the plan is not.
WriteCancelledStatus(c) ==
    /\ cancel[c].pc = "write"
    /\ UpsertSubscription(cancel[c].user,
           [cancel[c].row EXCEPT !.cancelAtEnd = TRUE, !.status = "canceled"])
    /\ CancelReply(c)
    /\ UNCHANGED <<today, ledger, stopped>>

\* The row as it was read, every column of it.
WriteCancelled(c) ==
    /\ cancel[c].pc = "write"
    /\ UpsertSubscription(cancel[c].user, [cancel[c].row EXCEPT !.cancelAtEnd = TRUE])
    /\ CancelReply(c)
    /\ UNCHANGED <<today, ledger, stopped>>

CancelError(c) ==
    /\ "store" \in Faults /\ cancel[c].pc = "write"
    /\ CancelReply(c)
    /\ UNCHANGED <<storeVars, stopped>>

CancelStep(c) == CallProvider(c) \/ WriteCancelled(c)
=============================================================================
