----------------------------- MODULE MCWebhook -----------------------------
(***************************************************************************)
(* Instances of the webhook path: one user and what a provider sends about *)
(* him. A cfg picks the scenario as the value of Payload.                  *)
(***************************************************************************)
EXTENDS Webhook, TLC

MCUsers == {"u1"}
MCIds == {"C1", "SUB_1", "7", "99"}

Body(provider, name, user, customer, sub, status, at) ==
    [provider |-> provider, name |-> name, user |-> user, customer |-> customer,
     sub |-> sub, ours |-> TRUE, interval |-> "month", status |-> status,
     cancelled |-> FALSE, failed |-> TRUE, renewsAt |-> NoDate,
     endsAt |-> NoDate, trialEndsAt |-> NoDate, at |-> at, sentOn |-> at]

Paystack(name, user, sub, status, at) ==
    Body("paystack", name, user, "C1", sub, status, at)

LemonSqueezy(name, user, status, at) ==
    Body("lemonsqueezy", name, user, "7", "99", status, at)

Created == [Paystack("subscription.create", "u1", "SUB_1", "active", 1)
               EXCEPT !.renewsAt = 3]

Disabled == [Paystack("subscription.disable", "u1", "SUB_1", "cancelled", 2)
                EXCEPT !.renewsAt = 3]

\* A Paystack subscription is created, fails to renew and is disabled. The
\* subscription events name the user; the invoice has to find him by customer.
Renewal ==
    ("create" :> Created) @@ ("disable" :> Disabled) @@
    ("failed" :> Paystack("invoice.payment_failed", NoUser, NoId, "", 2)) @@
    ("other" :> [Paystack("charge.success", NoUser, NoId, "", 2) EXCEPT !.ours = FALSE])

\* The charge of day 1 and the disabling of day 2.
ChargeAndDisable ==
    ("charge" :> Paystack("charge.success", "u1", NoId, "", 1)) @@
    ("disable" :> Disabled)

\* A Lemon Squeezy trial that is cancelled, in a payload without user_id, and
\* expires.
Trial ==
    ("created" :> [LemonSqueezy("subscription_created", "u1", "on_trial", 1)
                      EXCEPT !.renewsAt = 3, !.trialEndsAt = 3]) @@
    ("cancelled" :> [LemonSqueezy("subscription_cancelled", NoUser, "cancelled", 2)
                      EXCEPT !.endsAt = 3, !.trialEndsAt = 3, !.cancelled = TRUE]) @@
    ("expired" :> [LemonSqueezy("subscription_expired", "u1", "expired", 3)
                      EXCEPT !.endsAt = 3, !.cancelled = TRUE])

RenewalPayloads == DOMAIN Renewal
ChargeAndDisablePayloads == DOMAIN ChargeAndDisable
TrialPayloads == DOMAIN Trial

Goroutines == Permutations(Handlers)
=============================================================================
