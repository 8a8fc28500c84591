---------------------------- MODULE BillingStore ----------------------------
(***************************************************************************)
(* The two billing tables and the statements on them                       *)
(* (internal/store/store.go).                                              *)
(*                                                                         *)
(* Every operator below is one SQL statement and therefore atomic; no      *)
(* handler runs two of them in one transaction. subscriptions has one row  *)
(* per user, billing_events one row per event key.                         *)
(***************************************************************************)
EXTENDS Providers

CONSTANTS
    Payloads,        \* webhook bodies; the key of one is the hash of its bytes
    Payload,         \* what each of them says
    References,      \* Paystack transaction references, all of them in Ids
    Retention,       \* BillingEventRetention, in days
    MaxDay,          \* the last day of the instance
    Faults           \* what may go wrong: a subset of FaultKinds

NoKey == ""

\* store: a statement fails.  lost: a 200 does not reach the caller.
\* provider: a call of the provider's API fails.
\* crash: the server dies and restarts with its database.
FaultKinds == {"store", "lost", "provider", "crash"}

\* VerifyPaystack claims a reference under a key of its own in the same table.
EventKeys == Payloads \cup References

ASSUME StoreAssumption ==
    /\ Payload \in [Payloads -> PayloadType]
    /\ References \subseteq Ids /\ Payloads \cap References = {}
    /\ NoKey \notin EventKeys
    /\ Retention \in Nat /\ MaxDay \in Nat \ {0}
    /\ Faults \subseteq FaultKinds

VARIABLES
    today,    \* the server's clock
    subs,     \* the subscriptions table
    ledger    \* the billing_events table

storeVars == <<today, subs, ledger>>

Subscription ==
    [stored: BOOLEAN,        \* FALSE: the user has no row (models.Subscription.ID = "")
     plan: Plans, provider: ProviderNames \cup {NoId},
     customer: Ids \cup {NoId}, sub: Ids \cup {NoId},
     status: Statuses, period: Date, trial: Date,
     cancelAtEnd: BOOLEAN, renews: BOOLEAN]

\* What GetSubscription returns for a user without a row.
DefaultSubscription ==
    [stored |-> FALSE, plan |-> "free", provider |-> NoId, customer |-> NoId,
     sub |-> NoId, status |-> "active", period |-> NoDate, trial |-> NoDate,
     cancelAtEnd |-> FALSE, renews |-> TRUE]

LedgerRow ==
    [recorded: BOOLEAN, processed: BOOLEAN, user: Users \cup {NoUser},
     provider: ProviderNames, object: Ids \cup {NoId}, at: Date, created: Date]

NoLedgerRow ==
    [recorded |-> FALSE, processed |-> FALSE, user |-> NoUser,
     provider |-> "paystack", object |-> NoId, at |-> NoDate, created |-> NoDate]

StoreTypeOK ==
    /\ today \in Date
    /\ subs \in [Users -> Subscription]
    /\ ledger \in [EventKeys -> LedgerRow]

StoreInit ==
    /\ today = 1
    /\ subs = [u \in Users |-> DefaultSubscription]
    /\ ledger = [k \in EventKeys |-> NoLedgerRow]

----------------------------------------------------------------------------
\* subscriptions

Passed(date) == date # NoDate /\ today > date

\* The read-time checks of GetSubscription: nothing is written.
PeriodChecked(row) ==
    IF row.cancelAtEnd /\ Passed(row.period)
    THEN [row EXCEPT !.plan = "free", !.status = "canceled"] ELSE row

TrialChecked(row) ==
    IF row.status = "trialing" /\ Passed(row.trial)
    THEN [row EXCEPT !.plan = "free", !.status = "past_due"] ELSE row

GetSubscription(u) == TrialChecked(PeriodChecked(subs[u]))

\* The users whose row carries a provider id. provider_sub_id and
\* provider_customer_id are not unique, and the query takes any one row.
UsersByProviderSubID(id) ==
    {u \in Users : id # NoId /\ subs[u].stored /\ subs[u].sub = id}

UsersByProviderCustomerID(id) ==
    {u \in Users : id # NoId /\ subs[u].stored /\ subs[u].customer = id}

UpsertSubscription(u, row) ==
    subs' = [subs EXCEPT ![u] = [row EXCEPT !.stored = TRUE]]

----------------------------------------------------------------------------
\* billing_events

Recorded(k) == ledger[k].recorded

\* Faulty variants, used only to check that the properties can fail: an insert
\* that overwrites, one that marks the event at once.
RecordOverwriting(k, user, provider, object, at) ==
    ledger' = [ledger EXCEPT ![k] =
        [recorded |-> TRUE, processed |-> FALSE, user |-> user,
         provider |-> provider, object |-> object, at |-> at, created |-> today]]

RecordAsProcessed(k, user, provider, object, at) ==
    /\ ~Recorded(k)
    /\ ledger' = [ledger EXCEPT ![k] =
           [recorded |-> TRUE, processed |-> TRUE, user |-> user,
            provider |-> provider, object |-> object, at |-> at, created |-> today]]

\* The unique index on event_key: an insert of a recorded key fails.
RecordBillingEvent(k, user, provider, object, at) ==
    /\ ~Recorded(k)
    /\ ledger' = [ledger EXCEPT ![k] =
           [recorded |-> TRUE, processed |-> FALSE, user |-> user,
            provider |-> provider, object |-> object, at |-> at, created |-> today]]

\* An update of a key that is no longer there changes nothing.
MarkBillingEventProcessed(k, user) ==
    ledger' = IF Recorded(k)
              THEN [ledger EXCEPT ![k].processed = TRUE, ![k].user = user]
              ELSE ledger

\* Faulty variant: the comparison is the wrong way round.
OlderProcessed(provider, object, at) ==
    \E k \in EventKeys :
        /\ object # NoId
        /\ ledger[k].processed /\ ledger[k].at # NoDate
        /\ ledger[k].provider = provider /\ ledger[k].object = object
        /\ ledger[k].at < at

\* Whether an event processed for the object is newer than at, which is what
\* the webhook asks of LatestProcessedEventAt.
NewerProcessed(provider, object, at) ==
    \E k \in EventKeys :
        /\ object # NoId
        /\ ledger[k].processed /\ ledger[k].at # NoDate
        /\ ledger[k].provider = provider /\ ledger[k].object = object
        /\ at < ledger[k].at

\* Faulty variant: the cleanup forgets about the retention.
DeleteAllPastEvents ==
    /\ \E k \in EventKeys : Recorded(k) /\ ledger[k].created < today
    /\ ledger' = [k \in EventKeys |->
           IF Recorded(k) /\ ledger[k].created < today
           THEN NoLedgerRow ELSE ledger[k]]
    /\ UNCHANGED <<today, subs>>

\* The hourly cleanup.
DeleteOldBillingEvents ==
    /\ \E k \in EventKeys : Recorded(k) /\ ledger[k].created + Retention < today
    /\ ledger' = [k \in EventKeys |->
           IF Recorded(k) /\ ledger[k].created + Retention < today
           THEN NoLedgerRow ELSE ledger[k]]
    /\ UNCHANGED <<today, subs>>
=============================================================================
