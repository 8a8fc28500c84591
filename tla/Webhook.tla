------------------------------ MODULE Webhook ------------------------------
(***************************************************************************)
(* The inbound webhook path shared by both providers: handleWebhook,       *)
(* processWebhookEvent and resolveWebhookUser (internal/handler/billing.go)*)
(*                                                                         *)
(* net/http serves every delivery in a goroutine of its own, so deliveries *)
(* interleave between any two store statements. A handler here is one such *)
(* goroutine; each action is one statement and the Go code up to the next. *)
(***************************************************************************)
EXTENDS BillingStore

CONSTANTS
    Handlers,       \* goroutines: how many deliveries can be in flight at once
    RetryWindow     \* days during which a provider retries a payload

ASSUME WebhookAssumption == RetryWindow \in Nat

\* "Far beyond either provider's retry window".
ASSUME RetentionAssumption == RetryWindow < Retention

VARIABLES
    hook,      \* the delivery each goroutine is handling
    acked,     \* payloads whose provider has seen a 2xx
    verdict    \* history: what the server decided to do with a payload

hookVars == <<hook, acked, verdict>>
vars == <<storeVars, hookVars>>

----------------------------------------------------------------------------
\* applied: the row is written.  settled: and the delivery is answered 200.
Verdicts == {"none", "ignored", "stale", "unresolved", "applied", "settled"}

\* The statement a goroutine runs next.
Steps == {"record", "order", "bySub", "byCustomer", "period", "trial",
          "renewal", "upsert", "mark"}

NoEvent ==
    [user |-> NoUser, customer |-> NoId, sub |-> NoId, plan |-> "free",
     status |-> "", period |-> NoDate, trial |-> NoDate,
     cancelAtEnd |-> FALSE, at |-> NoDate]

IdleHook ==
    [pc |-> "idle", key |-> NoKey, event |-> NoEvent, user |-> NoUser,
     period |-> NoDate, trial |-> NoDate, sub |-> NoId, renews |-> TRUE,
     since |-> NoDate, after |-> {}]

HookState ==
    [pc: Steps \cup {"idle"}, key: Payloads \cup {NoKey},
     event: WebhookEventType, user: Users \cup {NoUser},
     period: Date, trial: Date, sub: Ids \cup {NoId}, renews: BOOLEAN,
     since: Date,                  \* the day the delivery arrived
     after: SUBSET Payloads]       \* history: the payloads settled by then

TypeOK ==
    /\ StoreTypeOK
    /\ hook \in [Handlers -> HookState]
    /\ acked \subseteq Payloads
    /\ verdict \in [Payloads -> Verdicts]

HookInit ==
    /\ hook = [h \in Handlers |-> IdleHook]
    /\ acked = {}
    /\ verdict = [k \in Payloads |-> "none"]

----------------------------------------------------------------------------
Busy(h) == hook[h].pc # "idle"

\* The ordering check is scoped by subscription, else by customer.
ObjectOf(event) == IF event.sub = NoId THEN event.customer ELSE event.sub

\* Which statement follows: a lookup is skipped where the event carries the
\* value itself.
AfterPeriod(event) == IF event.trial = NoDate THEN "trial" ELSE "renewal"
\* Faulty variant: the stored period is not carried over.
AfterUserNoPeriod(event) == AfterPeriod(event)

AfterUser(event) == IF event.period = NoDate THEN "period" ELSE AfterPeriod(event)
AfterOrder(event) == IF event.user = NoUser THEN "bySub" ELSE AfterUser(event)

Goto(h, step) == hook' = [hook EXCEPT ![h].pc = step]

Reply200(h) ==
    /\ hook' = [hook EXCEPT ![h] = IdleHook]
    /\ \/ acked' = acked \cup {hook[h].key}
       \/ "lost" \in Faults /\ acked' = acked

Reply500(h) ==
    /\ hook' = [hook EXCEPT ![h] = IdleHook]
    /\ UNCHANGED acked

Decide(h, what) == verdict' = [verdict EXCEPT ![hook[h].key] = what]

\* A provider sends a payload, and sends it again until it has seen a 2xx or
\* its retry window is over. Nothing orders one payload after another.
Deliver(h, k) ==
    /\ ~Busy(h)
    /\ k \notin acked
    /\ today \in Payload[k].sentOn .. Payload[k].sentOn + RetryWindow
    /\ LET event == IF Acts(Payload[k]) THEN HandleWebhook(Payload[k], today)
                    ELSE NoEvent
       IN  hook' = [hook EXCEPT ![h] =
               [IdleHook EXCEPT !.pc = "record", !.key = k, !.event = event,
                                !.user = event.user, !.period = event.period,
                                !.trial = event.trial, !.since = today,
                                !.after = {j \in Payloads : verdict[j] = "settled"}]]
    /\ UNCHANGED <<storeVars, acked, verdict>>

\* The claim, before any processing. A key that is already there is answered
\* 200; so is a payload that is only kept for the audit trail.
Record(h) ==
    LET k == hook[h].key  event == hook[h].event IN
    /\ hook[h].pc = "record"
    /\ \/ /\ Recorded(k)
          /\ Reply200(h)
          /\ UNCHANGED <<ledger, verdict>>
       \/ /\ RecordBillingEvent(k, event.user, Payload[k].provider,
                                ObjectOf(event), event.at)
          /\ IF Acts(Payload[k])
             THEN /\ Goto(h, IF event.at # NoDate THEN "order" ELSE AfterOrder(event))
                  /\ UNCHANGED <<acked, verdict>>
             ELSE Reply200(h) /\ Decide(h, "ignored")
    /\ UNCHANGED <<today, subs>>

\* The out-of-order guard. A stale event stays unprocessed on purpose.
CheckOrder(h) ==
    LET k == hook[h].key  event == hook[h].event IN
    /\ hook[h].pc = "order"
    /\ IF NewerProcessed(Payload[k].provider, ObjectOf(event), event.at)
       THEN Reply200(h) /\ Decide(h, "stale")
       ELSE Goto(h, AfterOrder(event)) /\ UNCHANGED <<acked, verdict>>
    /\ UNCHANGED storeVars

\* Faulty variant: an event of an unknown subscription is swallowed.
ResolveBySubOnly(h) ==
    LET found == UsersByProviderSubID(hook[h].event.sub) IN
    /\ hook[h].pc = "bySub"
    /\ \/ found = {} /\ Reply200(h)
       \/ /\ \E u \in found :
                hook' = [hook EXCEPT ![h].user = u,
                                     ![h].pc = AfterUser(hook[h].event)]
          /\ UNCHANGED acked
    /\ UNCHANGED <<storeVars, verdict>>

\* resolveWebhookUser, for a payload without user_id: the subscription id
\* first, then the customer id.
ResolveBySub(h) ==
    LET found == UsersByProviderSubID(hook[h].event.sub) IN
    /\ hook[h].pc = "bySub"
    /\ \/ /\ found = {}
          /\ Goto(h, "byCustomer")
       \/ \E u \in found :
             hook' = [hook EXCEPT ![h].user = u,
                                  ![h].pc = AfterUser(hook[h].event)]
    /\ UNCHANGED <<storeVars, acked, verdict>>

\* Nobody has that customer id either: the event fails and is answered 500.
ResolveByCustomer(h) ==
    LET found == UsersByProviderCustomerID(hook[h].event.customer) IN
    /\ hook[h].pc = "byCustomer"
    /\ \/ /\ found = {}
          /\ Reply500(h)
          /\ Decide(h, "unresolved")
       \/ /\ \E u \in found :
                hook' = [hook EXCEPT ![h].user = u,
                                     ![h].pc = AfterUser(hook[h].event)]
          /\ UNCHANGED <<acked, verdict>>
    /\ UNCHANGED storeVars

\* An event that moves no period keeps the stored one. An error of this read
\* is not an error of the handler: the period stays nil.
ReadPeriod(h) ==
    /\ hook[h].pc = "period"
    /\ \E period \in {GetSubscription(hook[h].user).period}
                     \cup (IF "store" \in Faults THEN {NoDate} ELSE {}) :
          hook' = [hook EXCEPT ![h].period = period,
                               ![h].pc = AfterPeriod(hook[h].event)]
    /\ UNCHANGED <<storeVars, acked, verdict>>

ReadTrial(h) ==
    /\ hook[h].pc = "trial"
    /\ hook' = [hook EXCEPT ![h].trial = GetSubscription(hook[h].user).trial,
                            ![h].pc = "renewal"]
    /\ UNCHANGED <<storeVars, acked, verdict>>

\* auto_renews and, for an event that names no subscription, the stored
\* subscription id are carried over; an error of this read is ignored too.
ReadRenewal(h) ==
    LET named == hook[h].event.sub
        row == GetSubscription(hook[h].user)
    IN
    /\ hook[h].pc = "renewal"
    /\ \/ hook' = [hook EXCEPT ![h].pc = "upsert", ![h].renews = row.renews,
                               ![h].sub = IF named = NoId THEN row.sub ELSE named]
       \/ /\ "store" \in Faults
          /\ hook' = [hook EXCEPT ![h].pc = "upsert", ![h].renews = TRUE,
                                  ![h].sub = named]
    /\ UNCHANGED <<storeVars, acked, verdict>>

\* Faulty variants: the plan of the event whatever its status, a blank plan.
WebhookRowAnyStatus(x) ==
    [stored |-> TRUE, plan |-> x.event.plan,
     provider |-> Payload[x.key].provider, customer |-> x.event.customer,
     sub |-> x.sub, status |-> x.event.status, period |-> x.period,
     trial |-> x.trial, cancelAtEnd |-> x.event.cancelAtEnd, renews |-> x.renews]

WebhookRowBlankPlan(x) ==
    [WebhookRowAnyStatus(x) EXCEPT
        !.plan = IF IsEntitledStatus(x.event.status) THEN x.event.plan ELSE ""]

\* The row the webhook writes: every column, the plan derived from the status.
WebhookRow(x) ==
    [stored |-> TRUE,
     plan |-> IF IsEntitledStatus(x.event.status) THEN x.event.plan ELSE "free",
     provider |-> Payload[x.key].provider, customer |-> x.event.customer,
     sub |-> x.sub, status |-> x.event.status, period |-> x.period,
     trial |-> x.trial, cancelAtEnd |-> x.event.cancelAtEnd, renews |-> x.renews]

Apply(h) ==
    /\ hook[h].pc = "upsert"
    /\ UpsertSubscription(hook[h].user, WebhookRow(hook[h]))
    /\ Decide(h, "applied")
    /\ Goto(h, "mark")
    /\ UNCHANGED <<today, ledger, acked>>

\* A failure to mark is only logged. The user written is the payload's, which
\* may be empty, and not the resolved one.
Mark(h) ==
    /\ hook[h].pc = "mark"
    /\ \/ MarkBillingEventProcessed(hook[h].key, hook[h].event.user)
       \/ "store" \in Faults /\ UNCHANGED ledger
    /\ Reply200(h)
    /\ Decide(h, "settled")
    /\ UNCHANGED <<today, subs>>

\* A failed statement of the others ends the request with a 500.
StoreError(h) ==
    /\ "store" \in Faults
    /\ hook[h].pc \in {"record", "order", "bySub", "byCustomer", "trial", "upsert"}
    /\ Reply500(h)
    /\ UNCHANGED <<storeVars, verdict>>

Crash ==
    /\ "crash" \in Faults
    /\ \E h \in Handlers : Busy(h)
    /\ hook' = [h \in Handlers |-> IdleHook]
    /\ UNCHANGED <<storeVars, acked, verdict>>

HookStep(h) ==
    \/ Record(h) \/ CheckOrder(h)
    \/ ResolveBySub(h) \/ ResolveByCustomer(h)
    \/ ReadPeriod(h) \/ ReadTrial(h) \/ ReadRenewal(h)
    \/ Apply(h) \/ Mark(h)

\* A request takes seconds: at most one midnight passes while it is in flight.
Tick ==
    /\ today < MaxDay
    /\ \A h \in Handlers : Busy(h) => hook[h].since = today
    /\ today' = today + 1
    /\ UNCHANGED <<subs, ledger, hookVars>>

Prune == DeleteOldBillingEvents /\ UNCHANGED hookVars

Init == StoreInit /\ HookInit

HookNext ==
    \/ \E h \in Handlers, k \in Payloads : Deliver(h, k)
    \/ \E h \in Handlers : HookStep(h) \/ StoreError(h)

Next == HookNext \/ Crash \/ Tick \/ Prune

\* A goroutine that has been given a request runs to its end.
Spec == Init /\ [][Next]_vars /\ \A h \in Handlers : WF_vars(HookStep(h))

----------------------------------------------------------------------------
(* Properties *)

\* A goroutine writes the row for the payload it is handling.
Applies(h) == hook[h].pc = "upsert" /\ hook'[h].pc = "mark"

\* However often a provider repeats a payload, in however many goroutines and
\* across crashes and cleanups of the ledger, it changes a subscription at most
\* once: RecordBillingEvent absorbs the retries.
AppliedOnce ==
    [][\A h \in Handlers : Applies(h) => verdict[hook[h].key] = "none"]_vars

\* processed = 1 in the ledger means "applied to the subscription".
ProcessedWasApplied ==
    \A k \in Payloads : ledger[k].processed => verdict[k] = "settled"

\* No row grants Pro under a status that is not entitled to it, whatever mix
\* of events, retries and crashes wrote it.
EntitledPlan ==
    \A u \in Users : subs[u].plan = "pro" => IsEntitledStatus(subs[u].status)

\* The expiry gate is never switched off: a stored subscription has a period,
\* although failed renewals carry none and the upsert writes every column.
PeriodKnown == \A u \in Users : subs[u].stored => subs[u].period # NoDate

\* A payload names its object whatever the day it arrives.
ObjectOfPayload(k) == ObjectOf(HandleWebhook(Payload[k], 1))

\* Payloads that name no object have no order between them.
SameObject(j, k) ==
    /\ Payload[j].provider = Payload[k].provider
    /\ ObjectOfPayload(j) = ObjectOfPayload(k) /\ ObjectOfPayload(k) # NoId

Newer(j, k) == NoDate < Payload[k].at /\ Payload[k].at < Payload[j].at

\* A payload delivered after a newer one of the same object was settled is
\* never applied over it, whatever else is in flight.
NoReplayOverSettled ==
    [][\A h \in Handlers : Applies(h) =>
          \A j \in hook[h].after :
              SameObject(j, hook[h].key) => ~Newer(j, hook[h].key)]_vars

\* The same for one customer of a provider, whichever of its ids a payload
\* happens to name.
NoReplayOverSettledCustomer ==
    [][\A h \in Handlers : Applies(h) =>
          \A j \in hook[h].after :
              /\ Payload[j].provider = Payload[hook[h].key].provider
              /\ Payload[j].customer = Payload[hook[h].key].customer
              => ~Newer(j, hook[h].key)]_vars

\* A provider that has been told 200 will not send the payload again, so by
\* then, or in a request still running, the payload has been dealt with.
AckedWasHandled ==
    \A k \in acked :
        \/ verdict[k] \in {"ignored", "stale", "applied", "settled"}
        \/ \E h \in Handlers : hook[h].key = k

\* Without failures every claimed payload is decided: applied, stale, kept for
\* the audit trail or of an unknown user.
ClaimIsDecided ==
    \A k \in Payloads : Recorded(k) ~> (verdict[k] # "none" \/ ~Recorded(k))

\* The detailed path implements the ledger's promise.
Stage ==
    [k \in Payloads |->
        IF verdict[k] \in {"ignored", "stale", "unresolved"} THEN "dropped"
        ELSE IF verdict[k] # "none" THEN verdict[k]
        ELSE IF Recorded(k) THEN "claimed" ELSE "new"]

Promise == INSTANCE EventLedger WITH stage <- Stage

ImplementsLedger == Promise!LedgerSpec
=============================================================================
