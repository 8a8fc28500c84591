------------------------------ MODULE Billing ------------------------------
(***************************************************************************)
(* The billing subsystem: webhook deliveries, verify requests and cancel   *)
(* requests share the subscriptions table and the event ledger of one      *)
(* server and interleave statement by statement.                           *)
(***************************************************************************)
EXTENDS Webhook, Checkout, Cancellation

billingVars == <<storeVars, hookVars, checkoutVars, cancelVars>>

BillingTypeOK == TypeOK /\ CheckoutTypeOK /\ CancellationTypeOK

BillingInit == StoreInit /\ HookInit /\ CheckoutInit /\ CancellationInit

----------------------------------------------------------------------------
WebhookRequest == HookNext /\ UNCHANGED <<checkoutVars, cancelVars>>

VerifyRequest ==
    /\ \/ \E c \in Callers, u \in Users, r \in References : Submit(c, u, r)
       \/ \E c \in Callers : VerifyStep(c) \/ VerifyError(c)
    /\ UNCHANGED <<hookVars, cancelVars>>

CancelRequest ==
    /\ \/ \E c \in Cancellers, u \in Users : StartCancel(c, u)
       \/ \E c \in Cancellers : CancelStep(c) \/ CancelError(c)
    /\ UNCHANGED <<hookVars, checkoutVars>>

InFlight ==
    \/ \E h \in Handlers : Busy(h)
    \/ \E c \in Callers : Verifying(c)
    \/ \E c \in Cancellers : Cancelling(c)

\* The process dies with everything in flight and restarts on its database.
ServerCrash ==
    /\ "crash" \in Faults /\ InFlight
    /\ hook' = [h \in Handlers |-> IdleHook]
    /\ verify' = [c \in Callers |-> IdleVerify]
    /\ cancel' = [c \in Cancellers |-> IdleCancel]
    /\ UNCHANGED <<storeVars, acked, verdict, granted, told200, stopped>>

NextDay ==
    /\ Tick
    /\ \A c \in Callers : Verifying(c) => verify[c].since = today
    /\ \A c \in Cancellers : Cancelling(c) => cancel[c].since = today
    /\ UNCHANGED <<checkoutVars, cancelVars>>

Cleanup == Prune /\ UNCHANGED <<checkoutVars, cancelVars>>

BillingNext ==
    WebhookRequest \/ VerifyRequest \/ CancelRequest
    \/ ServerCrash \/ NextDay \/ Cleanup

BillingSpec == BillingInit /\ [][BillingNext]_billingVars

----------------------------------------------------------------------------
(* Properties *)

\* A transaction reference buys one period. It can buy another one only after
\* its claim has been pruned with the old events, never by a double submit, a
\* retry or a crash.
GrantsAreSpaced ==
    [][\A c \in Callers :
          LET day == granted[verify[c].ref] IN
          Grant(c) /\ day # NoDate => day + Retention <= today]_billingVars

\* The event of a payload cancels its subscription at the period's end.
EndsSubscription(k, id) ==
    /\ verdict[k] \in {"applied", "settled"}
    /\ HandleWebhook(Payload[k], 1).cancelAtEnd
    /\ HandleWebhook(Payload[k], 1).sub = id

\* A row that is shown as cancelled is one the provider will not renew: it was
\* told to stop, or it said so itself. Rows that hold a transaction reference
\* are the exception the code owns up to.
CancelledIsStopped ==
    \A u \in Users :
        subs[u].cancelAtEnd /\ Callable(subs[u])
        => \/ subs[u].sub \in stopped
           \/ \E k \in Payloads : EndsSubscription(k, subs[u].sub)

\* Somebody who is answered 200 for a reference he paid has been given the
\* period, or a request for the reference is still running.
AnsweredIsGranted ==
    \A r \in told200 :
        granted[r] # NoDate \/ \E c \in Callers : verify[c].ref = r

\* Once a customer has verified all he paid for, the event of a payment does
\* not take days of a running subscription away from him.
RenewalKeepsDays ==
    [][\A h \in Handlers :
          LET u == hook[h].user IN
          /\ Applies(h) /\ Payload[hook[h].key].name = "charge.success"
          /\ \A r \in References : Transaction[r].owner = u => granted[r] # NoDate
          => subs'[u].period >= subs[u].period]_billingVars
=============================================================================
