----------------------------- MODULE Providers -----------------------------
(***************************************************************************)
(* What the two payment providers send and what HandleWebhook makes of it  *)
(* (internal/billing/paystack.go, internal/billing/lemonsqueezy.go).       *)
(*                                                                         *)
(* A payload is the record of the fields the parsers read. Signatures and  *)
(* malformed bodies are left out: both are answered 400 before anything is *)
(* stored. Currency and the stored interval are left out of the event: no  *)
(* property reads them.                                                    *)
(***************************************************************************)
EXTENDS Entitlements

CONSTANTS
    Users,        \* user ids
    Ids,          \* provider ids: customer codes, subscription codes, references
    MonthDays,    \* PaystackBillingPeriod("month")
    YearDays      \* PaystackBillingPeriod("year")

NoId == ""
NoUser == ""

ASSUME ProviderAssumption ==
    /\ NoId \notin Ids /\ NoUser \notin Users
    /\ MonthDays \in Nat \ {0} /\ YearDays \in Nat \ {0}

ProviderNames == {"paystack", "lemonsqueezy"}
Intervals == {"month", "year"}

\* The providers' status words, none and one the code has never heard of.
StatusWords ==
    {"active", "non-renewing", "attention", "cancelled", "completed",
     "on_trial", "past_due", "unpaid", "paused", "expired", "paid", "", "unknown"}

\* What is stored: a word the code does not know is stored as it came.
Statuses == StatusWords \cup {"trialing", "canceled"}

PayloadType ==
    [provider: ProviderNames, name: STRING, user: Users \cup {NoUser},
     customer: Ids \cup {NoId}, sub: Ids \cup {NoId},
     ours: BOOLEAN,          \* the plan code or variant is one of ours
     interval: Intervals,    \* of that plan
     status: StatusWords,    \* the provider's own status word
     cancelled: BOOLEAN,     \* Lemon Squeezy's flag
     failed: BOOLEAN,        \* the invoice reports a failed charge
     renewsAt: Date,         \* next_payment_date or renews_at
     endsAt: Date, trialEndsAt: Date,
     at: Date,               \* the provider's own timestamp, or NoDate
     sentOn: Date]           \* the day the provider first sends it

WebhookEventType ==
    [user: Users \cup {NoUser}, customer: Ids \cup {NoId}, sub: Ids \cup {NoId},
     plan: Plans, status: Statuses, period: Date, trial: Date,
     cancelAtEnd: BOOLEAN, at: Date]

PaystackBillingPeriod(interval) ==
    IF interval = "year" THEN YearDays ELSE MonthDays

----------------------------------------------------------------------------
\* Paystack

PaystackSubscriptionEvents ==
    {"subscription.create", "subscription.not_renew", "subscription.disable"}

PaystackInvoiceEvents == {"invoice.payment_failed", "invoice.update"}

normalisePaystackStatus(s) ==
    IF s = "non-renewing" THEN "active"
    ELSE IF s \in {"attention", "cancelled", "completed"} THEN "canceled" ELSE s

planFromCode(p) == IF p.ours THEN "pro" ELSE "free"

\* HandleWebhook returns a nil event for everything else: one-off charges,
\* plans that are not ours, invoices that did not fail.
PaystackActs(p) ==
    \/ p.name \in PaystackSubscriptionEvents
    \/ p.name = "charge.success" /\ p.ours
    \/ p.name \in PaystackInvoiceEvents /\ p.ours
       /\ (p.name = "invoice.payment_failed" \/ p.failed)

\* subscription.*: the only Paystack events that name the subscription.
PaystackSubscriptionEvent(p) ==
    [user |-> p.user, customer |-> p.customer, sub |-> p.sub,
     plan |-> planFromCode(p), status |-> normalisePaystackStatus(p.status),
     period |-> p.renewsAt, trial |-> NoDate,
     cancelAtEnd |-> p.name \in {"subscription.not_renew", "subscription.disable"},
     at |-> p.at]

\* charge.success: the period is one interval from the payment, which is dated
\* today when the payload carries no paid_at.
PaystackChargeEvent(p, today) ==
    LET paidAt == IF p.at = NoDate THEN today ELSE p.at
    IN  [user |-> p.user, customer |-> p.customer, sub |-> NoId,
         plan |-> "pro", status |-> "active",
         period |-> paidAt + PaystackBillingPeriod(p.interval), trial |-> NoDate,
         cancelAtEnd |-> FALSE, at |-> paidAt]

\* A failed renewal: no user, no subscription code and no period.
PaystackInvoiceEvent(p) ==
    [user |-> NoUser, customer |-> p.customer, sub |-> NoId,
     plan |-> "pro", status |-> "past_due",
     period |-> NoDate, trial |-> NoDate, cancelAtEnd |-> FALSE, at |-> p.at]

----------------------------------------------------------------------------
\* Lemon Squeezy

LemonSqueezyActs(p) ==
    p.name \in {"subscription_created", "subscription_updated",
                "subscription_cancelled", "subscription_resumed",
                "subscription_expired", "subscription_paused",
                "subscription_unpaused"}

normaliseLSStatus(s, cancelled, trialEnd, today) ==
    IF s = "expired" THEN "canceled"
    ELSE IF s \in {"past_due", "unpaid", "paused"} THEN "past_due"
    ELSE IF s = "on_trial" \/ (s = "cancelled" /\ today < trialEnd) THEN "trialing"
    ELSE IF s \in {"active", "cancelled"} \/ cancelled THEN "active" ELSE s

\* ends_at is the date access stops and wins over renews_at.
LemonSqueezyEvent(p, today) ==
    [user |-> p.user, customer |-> p.customer, sub |-> p.sub,
     plan |-> planFromCode(p),
     status |-> normaliseLSStatus(p.status, p.cancelled, p.trialEndsAt, today),
     period |-> IF p.endsAt # NoDate THEN p.endsAt ELSE p.renewsAt,
     trial |-> p.trialEndsAt, cancelAtEnd |-> p.cancelled, at |-> p.at]

----------------------------------------------------------------------------
Acts(p) ==
    IF p.provider = "paystack" THEN PaystackActs(p) ELSE LemonSqueezyActs(p)

HandleWebhook(p, today) ==
    IF p.provider = "lemonsqueezy" THEN LemonSqueezyEvent(p, today)
    ELSE IF p.name = "charge.success" THEN PaystackChargeEvent(p, today)
    ELSE IF p.name \in PaystackInvoiceEvents THEN PaystackInvoiceEvent(p)
    ELSE PaystackSubscriptionEvent(p)
=============================================================================
