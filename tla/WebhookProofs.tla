--------------------------- MODULE WebhookProofs ---------------------------
(***************************************************************************)
(* Theorems about the webhook path for every value of the constants: any   *)
(* number of goroutines, payloads and users, any clock, any failures.      *)
(***************************************************************************)
EXTENDS Webhook, TLAPS

(* Types of what the parsers, the reads and the writes produce *)

LEMMA PaystackStatusType ==
    ASSUME NEW s \in StatusWords PROVE normalisePaystackStatus(s) \in Statuses
  BY DEF normalisePaystackStatus, StatusWords, Statuses

LEMMA LSStatusType ==
    ASSUME NEW s \in StatusWords, NEW c \in BOOLEAN, NEW t \in Date, NEW d \in Date
    PROVE  normaliseLSStatus(s, c, t, d) \in Statuses
  BY DEF normaliseLSStatus, StatusWords, Statuses

\* Whatever a provider sends, the event made of it is well typed.
LEMMA HandleWebhookType ==
    ASSUME NEW p \in PayloadType, NEW d \in Date
    PROVE  HandleWebhook(p, d) \in WebhookEventType
  <1> USE DEF PayloadType, WebhookEventType, Plans, planFromCode, Date, NoDate
  <1>1. PaystackChargeEvent(p, d) \in WebhookEventType
    <2>1. PaystackBillingPeriod(p.interval) \in Nat
      BY ProviderAssumption DEF PaystackBillingPeriod
    <2>2. (IF p.at = NoDate THEN d ELSE p.at) \in Nat
      OBVIOUS
    <2>3. "active" \in Statuses BY DEF Statuses, StatusWords
    <2> DEFINE paidAt == IF p.at = NoDate THEN d ELSE p.at
    <2>4. paidAt + PaystackBillingPeriod(p.interval) \in Nat BY <2>1, <2>2
    <2> HIDE DEF paidAt
    <2>5. PaystackChargeEvent(p, d) =
             [user |-> p.user, customer |-> p.customer, sub |-> NoId,
              plan |-> "pro", status |-> "active",
              period |-> paidAt + PaystackBillingPeriod(p.interval),
              trial |-> NoDate, cancelAtEnd |-> FALSE, at |-> paidAt]
      BY DEF PaystackChargeEvent, paidAt
    <2>6. paidAt \in Nat BY <2>2 DEF paidAt
    <2> QED BY <2>3, <2>4, <2>5, <2>6
  <1>2. PaystackInvoiceEvent(p) \in WebhookEventType
    BY DEF PaystackInvoiceEvent, Statuses, StatusWords
  <1>3. PaystackSubscriptionEvent(p) \in WebhookEventType
    BY PaystackStatusType DEF PaystackSubscriptionEvent
  <1>4. LemonSqueezyEvent(p, d) \in WebhookEventType
    BY LSStatusType DEF LemonSqueezyEvent
  <1> QED BY <1>1, <1>2, <1>3, <1>4 DEF HandleWebhook

LEMMA NoEventType == NoEvent \in WebhookEventType
  BY DEF NoEvent, WebhookEventType, Plans, Statuses, StatusWords, Date, NoDate

LEMMA IdleHookType == IdleHook \in HookState
  BY NoEventType DEF IdleHook, HookState, NoEvent, WebhookEventType, Date, NoDate

\* The read-time checks leave a row a row.
LEMMA GetSubscriptionType ==
    ASSUME StoreTypeOK, NEW u \in Users PROVE GetSubscription(u) \in Subscription
  <1>1. subs[u] \in Subscription BY DEF StoreTypeOK
  <1>2. PeriodChecked(subs[u]) \in Subscription
    BY <1>1 DEF PeriodChecked, Subscription, Plans, Statuses
  <1>3. ASSUME NEW row \in Subscription PROVE TrialChecked(row) \in Subscription
    BY DEF TrialChecked, Subscription, Plans, Statuses, StatusWords
  <1> QED BY <1>2, <1>3 DEF GetSubscription

LEMMA UpsertType ==
    ASSUME StoreTypeOK, NEW u \in Users, NEW row \in Subscription,
           UpsertSubscription(u, row)
    PROVE  subs' \in [Users -> Subscription]
  <1>1. [row EXCEPT !.stored = TRUE] \in Subscription BY DEF Subscription
  <1> QED BY <1>1 DEF StoreTypeOK, UpsertSubscription

LEMMA NoLedgerRowType == NoLedgerRow \in LedgerRow
  BY DEF NoLedgerRow, LedgerRow, ProviderNames, Date, NoDate

LEMMA RecordType ==
    ASSUME StoreTypeOK, NEW k \in EventKeys, NEW user \in Users \cup {NoUser},
           NEW provider \in ProviderNames, NEW object \in Ids \cup {NoId},
           NEW at \in Date, RecordBillingEvent(k, user, provider, object, at)
    PROVE  ledger' \in [EventKeys -> LedgerRow]
  BY DEF StoreTypeOK, RecordBillingEvent, LedgerRow

LEMMA MarkType ==
    ASSUME StoreTypeOK, NEW k \in EventKeys, NEW user \in Users \cup {NoUser},
           MarkBillingEventProcessed(k, user)
    PROVE  ledger' \in [EventKeys -> LedgerRow]
  <1>1. ledger \in [EventKeys -> LedgerRow] BY DEF StoreTypeOK
  <1>2. PICK row : row = [ledger[k] EXCEPT !.processed = TRUE, !.user = user] OBVIOUS
  <1>3. row \in LedgerRow BY <1>1, <1>2 DEF LedgerRow
  <1>4. ledger' \in {ledger, [ledger EXCEPT ![k] = row]}
    BY <1>1, <1>2 DEF MarkBillingEventProcessed
  <1> QED BY <1>1, <1>3, <1>4

LEMMA PruneType ==
    ASSUME StoreTypeOK, DeleteOldBillingEvents
    PROVE  ledger' \in [EventKeys -> LedgerRow]
  BY NoLedgerRowType DEF StoreTypeOK, DeleteOldBillingEvents

----------------------------------------------------------------------------
(* Type correctness *)

LEMMA KeyTypes ==
    /\ Payloads \subseteq EventKeys
    /\ NoKey \notin Payloads
    /\ \A k \in Payloads :
          Payload[k] \in PayloadType /\ Payload[k].provider \in ProviderNames
  BY StoreAssumption DEF EventKeys, PayloadType

LEMMA ObjectType ==
    ASSUME NEW e \in WebhookEventType PROVE ObjectOf(e) \in Ids \cup {NoId}
  BY DEF ObjectOf, WebhookEventType

\* The statement that follows is one a goroutine knows.
LEMMA AfterType ==
    ASSUME NEW e
    PROVE  /\ AfterPeriod(e) \in Steps /\ AfterUser(e) \in Steps
           /\ AfterOrder(e) \in Steps
  BY DEF AfterPeriod, AfterUser, AfterOrder, Steps

LEMMA GotoType ==
    ASSUME hook \in [Handlers -> HookState], NEW h \in Handlers,
           NEW step \in Steps, Goto(h, step)
    PROVE  hook' \in [Handlers -> HookState]
  BY DEF Goto, HookState

LEMMA ReplyType ==
    ASSUME TypeOK, NEW h \in Handlers, hook[h].key \in Payloads,
           Reply200(h) \/ Reply500(h)
    PROVE  hook' \in [Handlers -> HookState] /\ acked' \subseteq Payloads
  BY IdleHookType DEF TypeOK, Reply200, Reply500

LEMMA DecideType ==
    ASSUME TypeOK, NEW h \in Handlers, NEW what \in Verdicts, Decide(h, what)
    PROVE  verdict' \in [Payloads -> Verdicts]
  BY DEF TypeOK, Decide

\* The row a goroutine writes.
LEMMA WebhookRowType ==
    ASSUME NEW x \in HookState, x.key \in Payloads
    PROVE  WebhookRow(x) \in Subscription
  <1>1. x.event \in WebhookEventType /\ Payload[x.key].provider \in ProviderNames
    BY KeyTypes DEF HookState
  <1> QED BY <1>1 DEF WebhookRow, Subscription, WebhookEventType, HookState, Plans

\* A busy goroutine handles a payload. The user it will write is the
\* payload's until the lookups, and one of the users after them.
BusyKey == \A h \in Handlers : Busy(h) => hook[h].key \in Payloads

KnowsUser(h) == hook[h].pc \in {"period", "trial", "renewal", "upsert", "mark"}

UserFound ==
    \A h \in Handlers :
        /\ hook[h].pc \in {"record", "order"} => hook[h].user = hook[h].event.user
        /\ KnowsUser(h) => hook[h].user \in Users

TypeInv == TypeOK /\ BusyKey /\ UserFound

\* What every step of a goroutine starts from.
LEMMA HookFacts ==
    ASSUME TypeInv, NEW h \in Handlers
    PROVE  /\ StoreTypeOK /\ hook \in [Handlers -> HookState] /\ hook[h] \in HookState
           /\ hook[h].event \in WebhookEventType
           /\ Busy(h) => hook[h].key \in Payloads /\ hook[h].key \in EventKeys
           /\ KnowsUser(h) => hook[h].user \in Users
           /\ AfterPeriod(hook[h].event) \in Steps
           /\ AfterUser(hook[h].event) \in {"period", "trial", "renewal"}
           /\ AfterOrder(hook[h].event) \in {"bySub", "period", "trial", "renewal"}
           /\ AfterOrder(hook[h].event) = "bySub" <=> hook[h].event.user = NoUser
  BY KeyTypes, AfterType
     DEF TypeInv, TypeOK, HookState, BusyKey, UserFound, KnowsUser,
         AfterPeriod, AfterUser, AfterOrder

\* One goroutine moves; the others keep their key and their user.
LEMMA OneMoves ==
    ASSUME TypeInv, NEW h \in Handlers, NEW x \in HookState,
           hook' = [hook EXCEPT ![h] = x],
           x.pc # "idle" => x.key \in Payloads,
           x.pc \in {"record", "order"} => x.user = x.event.user,
           x.pc \in {"period", "trial", "renewal", "upsert", "mark"} => x.user \in Users
    PROVE  hook' \in [Handlers -> HookState] /\ BusyKey' /\ UserFound'
  BY DEF TypeInv, TypeOK, BusyKey, Busy, UserFound, KnowsUser

LEMMA IdleMoves ==
    ASSUME TypeInv, NEW h \in Handlers, hook' = [hook EXCEPT ![h] = IdleHook]
    PROVE  hook' \in [Handlers -> HookState] /\ BusyKey' /\ UserFound'
  BY OneMoves, IdleHookType DEF IdleHook

LEMMA DeliverType ==
    ASSUME TypeInv, NEW h \in Handlers, NEW k \in Payloads, Deliver(h, k)
    PROVE  TypeInv'
  <1> DEFINE event == IF Acts(Payload[k]) THEN HandleWebhook(Payload[k], today)
                      ELSE NoEvent
             x == [IdleHook EXCEPT !.pc = "record", !.key = k, !.event = event,
                       !.user = event.user, !.period = event.period,
                       !.trial = event.trial, !.since = today,
                       !.after = {j \in Payloads : verdict[j] = "settled"}]
  <1>1. event \in WebhookEventType
    BY HandleWebhookType, NoEventType, KeyTypes DEF TypeInv, TypeOK, StoreTypeOK
  <1>2. event.user \in Users \cup {NoUser} /\ event.period \in Date /\ event.trial \in Date
    BY <1>1 DEF WebhookEventType
  <1>3. hook' = [hook EXCEPT ![h] = x] BY DEF Deliver
  <1> HIDE DEF event
  <1>4. x \in HookState /\ x.pc = "record" /\ x.key = k /\ x.user = x.event.user
    BY <1>1, <1>2, IdleHookType DEF HookState, IdleHook, Steps, TypeInv, TypeOK, StoreTypeOK
  <1> HIDE DEF x
  <1>5. hook' \in [Handlers -> HookState] /\ BusyKey' /\ UserFound'
    BY <1>3, <1>4, OneMoves
  <1> QED BY <1>5 DEF TypeInv, TypeOK, StoreTypeOK, Deliver, storeVars

\* A goroutine goes on, with everything else it holds.
LEMMA StepMoves ==
    ASSUME TypeInv, NEW h \in Handlers, Busy(h),
           NEW step \in Steps, Goto(h, step),
           step \notin {"record", "order"},
           step \in {"period", "trial", "renewal", "upsert", "mark"}
               => hook[h].user \in Users
    PROVE  hook' \in [Handlers -> HookState] /\ BusyKey' /\ UserFound'
  <1> DEFINE x == [hook[h] EXCEPT !.pc = step]
  <1>1. hook' = [hook EXCEPT ![h] = x] BY DEF Goto
  <1>2. x \in HookState /\ x.pc = step /\ x.key = hook[h].key /\ x.user = hook[h].user
    BY HookFacts DEF HookState
  <1> HIDE DEF x
  <1> QED BY <1>1, <1>2, OneMoves, HookFacts

\* A lookup has found the user.
LEMMA UserMoves ==
    ASSUME TypeInv, NEW h \in Handlers, Busy(h), NEW u \in Users,
           hook' = [hook EXCEPT ![h].user = u, ![h].pc = AfterUser(hook[h].event)]
    PROVE  hook' \in [Handlers -> HookState] /\ BusyKey' /\ UserFound'
  <1> DEFINE x == [hook[h] EXCEPT !.user = u, !.pc = AfterUser(hook[h].event)]
  <1>1. hook' = [hook EXCEPT ![h] = x] BY HookFacts
  <1>2. /\ x \in HookState /\ x.pc \in {"period", "trial", "renewal"}
        /\ x.key = hook[h].key /\ x.user = u
    BY HookFacts DEF HookState, Steps
  <1> HIDE DEF x
  <1> QED BY <1>1, <1>2, OneMoves, HookFacts

LEMMA RecordStepType ==
    ASSUME TypeInv, NEW h \in Handlers, Record(h) PROVE TypeInv'
  <1> DEFINE k == hook[h].key
             event == hook[h].event
  <1>1. /\ Busy(h) /\ k \in Payloads /\ k \in EventKeys
        /\ event \in WebhookEventType /\ hook[h].user = event.user
    BY HookFacts DEF Record, Busy, TypeInv, UserFound
  <1>2. /\ event.user \in Users \cup {NoUser} /\ event.at \in Date
        /\ ObjectOf(event) \in Ids \cup {NoId}
        /\ Payload[k].provider \in ProviderNames
    BY <1>1, ObjectType, KeyTypes DEF WebhookEventType
  <1>3. today' = today /\ subs' = subs BY DEF Record
  <1>4. CASE Recorded(k) /\ Reply200(h) /\ UNCHANGED <<ledger, verdict>>
    <2>1. hook' \in [Handlers -> HookState] /\ BusyKey' /\ UserFound'
      BY <1>4, IdleMoves DEF Reply200
    <2>2. acked' \subseteq Payloads BY <1>4, <1>1, ReplyType DEF TypeInv
    <2> QED BY <1>3, <1>4, <2>1, <2>2 DEF TypeInv, TypeOK, StoreTypeOK
  <1>5. ASSUME RecordBillingEvent(k, event.user, Payload[k].provider,
                                  ObjectOf(event), event.at)
        PROVE  ledger' \in [EventKeys -> LedgerRow]
    BY <1>5, <1>1, <1>2, RecordType, HookFacts
  <1>6. CASE /\ RecordBillingEvent(k, event.user, Payload[k].provider,
                                   ObjectOf(event), event.at)
             /\ Reply200(h) /\ Decide(h, "ignored")
    <2>1. hook' \in [Handlers -> HookState] /\ BusyKey' /\ UserFound'
      BY <1>6, IdleMoves DEF Reply200
    <2>2. acked' \subseteq Payloads BY <1>6, <1>1, ReplyType DEF TypeInv
    <2>3. verdict' \in [Payloads -> Verdicts] BY <1>6, DecideType DEF TypeInv, Verdicts
    <2> QED BY <1>3, <1>5, <1>6, <2>1, <2>2, <2>3 DEF TypeInv, TypeOK, StoreTypeOK
  <1>7. CASE /\ RecordBillingEvent(k, event.user, Payload[k].provider,
                                   ObjectOf(event), event.at)
             /\ Goto(h, IF event.at # NoDate THEN "order" ELSE AfterOrder(event))
             /\ UNCHANGED <<acked, verdict>>
    <2> DEFINE moved == hook' \in [Handlers -> HookState] /\ BusyKey' /\ UserFound'
    <2>1. ASSUME event.at # NoDate PROVE moved
      <3> DEFINE x == [hook[h] EXCEPT !.pc = "order"]
      <3>1. hook' = [hook EXCEPT ![h] = x] BY <1>7, <2>1 DEF Goto
      <3>2. /\ x \in HookState /\ x.pc = "order" /\ x.key = k
            /\ x.user = hook[h].user /\ x.event = event
        BY HookFacts DEF HookState, Steps
      <3> HIDE DEF x
      <3> QED BY <1>1, <3>1, <3>2, OneMoves
    <2>2. ASSUME event.at = NoDate PROVE moved
      <3>1. Goto(h, AfterOrder(event)) BY <1>7, <2>2
      <3>2. AfterOrder(event) # "bySub" => hook[h].user \in Users
        BY <1>1, <1>2, HookFacts
      <3> QED BY <3>1, <3>2, <1>1, StepMoves, HookFacts DEF Steps
    <2>3. moved BY <2>1, <2>2
    <2> QED BY <1>3, <1>5, <1>7, <2>3 DEF TypeInv, TypeOK, StoreTypeOK
  <1> QED BY <1>4, <1>6, <1>7 DEF Record

LEMMA CheckOrderType ==
    ASSUME TypeInv, NEW h \in Handlers, CheckOrder(h) PROVE TypeInv'
  <1> DEFINE event == hook[h].event
  <1>1. /\ Busy(h) /\ hook[h].key \in Payloads
        /\ event.user \in Users \cup {NoUser} /\ hook[h].user = event.user
    BY HookFacts DEF CheckOrder, Busy, TypeInv, UserFound, WebhookEventType
  <1>2. CASE Reply200(h) /\ Decide(h, "stale")
    <2>1. hook' \in [Handlers -> HookState] /\ BusyKey' /\ UserFound'
      BY <1>2, IdleMoves DEF Reply200
    <2>2. acked' \subseteq Payloads BY <1>2, <1>1, ReplyType DEF TypeInv
    <2>3. verdict' \in [Payloads -> Verdicts] BY <1>2, DecideType DEF TypeInv, Verdicts
    <2> QED BY <2>1, <2>2, <2>3 DEF TypeInv, TypeOK, StoreTypeOK, CheckOrder, storeVars
  <1>3. CASE Goto(h, AfterOrder(event)) /\ UNCHANGED <<acked, verdict>>
    <2>1. AfterOrder(event) # "bySub" => hook[h].user \in Users
      BY <1>1, HookFacts
    <2>2. hook' \in [Handlers -> HookState] /\ BusyKey' /\ UserFound'
      BY <1>1, <1>3, <2>1, StepMoves, HookFacts DEF Steps
    <2> QED BY <1>3, <2>2 DEF TypeInv, TypeOK, StoreTypeOK, CheckOrder, storeVars
  <1> QED BY <1>2, <1>3 DEF CheckOrder

LEMMA ResolveType ==
    ASSUME TypeInv, NEW h \in Handlers, ResolveBySub(h) \/ ResolveByCustomer(h)
    PROVE  TypeInv'
  <1>1. Busy(h) /\ hook[h].key \in Payloads
    BY HookFacts DEF ResolveBySub, ResolveByCustomer, Busy
  <1>2. UNCHANGED storeVars BY DEF ResolveBySub, ResolveByCustomer
  <1>3. CASE Goto(h, "byCustomer") /\ UNCHANGED <<acked, verdict>>
    <2>1. hook' \in [Handlers -> HookState] /\ BusyKey' /\ UserFound'
      BY <1>1, <1>3, StepMoves DEF Steps
    <2> QED BY <1>2, <1>3, <2>1 DEF TypeInv, TypeOK, StoreTypeOK, storeVars
  <1>4. CASE Reply500(h) /\ Decide(h, "unresolved")
    <2>1. hook' \in [Handlers -> HookState] /\ BusyKey' /\ UserFound'
      BY <1>4, IdleMoves DEF Reply500
    <2>2. acked' \subseteq Payloads BY <1>4 DEF Reply500, TypeInv, TypeOK
    <2>3. verdict' \in [Payloads -> Verdicts] BY <1>4, DecideType DEF TypeInv, Verdicts
    <2> QED BY <1>2, <2>1, <2>2, <2>3 DEF TypeInv, TypeOK, StoreTypeOK, storeVars
  <1>5. CASE /\ \E u \in Users :
                   hook' = [hook EXCEPT ![h].user = u,
                                        ![h].pc = AfterUser(hook[h].event)]
             /\ UNCHANGED <<acked, verdict>>
    <2>1. hook' \in [Handlers -> HookState] /\ BusyKey' /\ UserFound'
      BY <1>1, <1>5, UserMoves
    <2> QED BY <1>2, <1>5, <2>1 DEF TypeInv, TypeOK, StoreTypeOK, storeVars
  <1> QED
    BY <1>3, <1>4, <1>5
       DEF ResolveBySub, ResolveByCustomer, UsersByProviderSubID,
           UsersByProviderCustomerID

LEMMA ReadType ==
    ASSUME TypeInv, NEW h \in Handlers,
           ReadPeriod(h) \/ ReadTrial(h) \/ ReadRenewal(h)
    PROVE  TypeInv'
  <1> DEFINE row == GetSubscription(hook[h].user)
  <1>1. /\ Busy(h) /\ hook[h].key \in Payloads /\ hook[h].user \in Users
        /\ hook[h].event.sub \in Ids \cup {NoId}
    BY HookFacts DEF ReadPeriod, ReadTrial, ReadRenewal, Busy, KnowsUser, WebhookEventType
  <1>2. /\ row.period \in Date /\ row.trial \in Date /\ row.renews \in BOOLEAN
        /\ row.sub \in Ids \cup {NoId}
    BY <1>1, HookFacts, GetSubscriptionType DEF Subscription
  <1> HIDE DEF row
  <1>3. ASSUME NEW x \in HookState, hook' = [hook EXCEPT ![h] = x],
               x.pc \in {"period", "trial", "renewal", "upsert", "mark"},
               x.key = hook[h].key, x.user = hook[h].user
        PROVE  hook' \in [Handlers -> HookState] /\ BusyKey' /\ UserFound'
    BY <1>1, <1>3, OneMoves
  <1>4. CASE ReadPeriod(h)
    <2>1. PICK d \in Date : hook' = [hook EXCEPT ![h].period = d,
                                                 ![h].pc = AfterPeriod(hook[h].event)]
      BY <1>4, <1>2 DEF ReadPeriod, row, Date, NoDate
    <2>2. PICK next \in {"trial", "renewal"} : next = AfterPeriod(hook[h].event)
      BY DEF AfterPeriod
    <2>3. PICK x : x = [hook[h] EXCEPT !.period = d, !.pc = next] OBVIOUS
    <2>4. hook' = [hook EXCEPT ![h] = x] BY <2>1, <2>2, <2>3, HookFacts
    <2>5. x \in HookState
      <3>1. next \in Steps \cup {"idle"} BY DEF Steps
      <3> QED BY <2>3, <3>1, HookFacts DEF HookState
    <2>6. x.pc \in {"trial", "renewal"} /\ x.key = hook[h].key /\ x.user = hook[h].user
      <3>1. hook[h] \in HookState BY HookFacts
      <3> QED BY <2>3, <3>1 DEF HookState
    <2> QED BY <1>3, <1>4, <2>4, <2>5, <2>6
            DEF ReadPeriod, TypeInv, TypeOK, StoreTypeOK, storeVars
  <1>5. CASE ReadTrial(h)
    <2> DEFINE x == [hook[h] EXCEPT !.trial = row.trial, !.pc = "renewal"]
    <2>1. hook' = [hook EXCEPT ![h] = x] BY <1>5 DEF ReadTrial, row
    <2>2. /\ x \in HookState /\ x.pc = "renewal"
          /\ x.key = hook[h].key /\ x.user = hook[h].user
      BY <1>2, HookFacts DEF HookState, Steps
    <2> HIDE DEF x
    <2> QED BY <1>3, <1>5, <2>1, <2>2
            DEF ReadTrial, TypeInv, TypeOK, StoreTypeOK, storeVars
  <1>6. CASE ReadRenewal(h)
    <2>1. PICK id \in Ids \cup {NoId}, b \in BOOLEAN :
             hook' = [hook EXCEPT ![h].pc = "upsert", ![h].renews = b, ![h].sub = id]
      BY <1>6, <1>1, <1>2 DEF ReadRenewal, row
    <2> DEFINE x == [hook[h] EXCEPT !.pc = "upsert", !.renews = b, !.sub = id]
    <2>2. hook' = [hook EXCEPT ![h] = x] BY <2>1, HookFacts
    <2>3. /\ x \in HookState /\ x.pc = "upsert"
          /\ x.key = hook[h].key /\ x.user = hook[h].user
      BY HookFacts DEF HookState, Steps
    <2> HIDE DEF x
    <2> QED BY <1>3, <1>6, <2>2, <2>3
            DEF ReadRenewal, TypeInv, TypeOK, StoreTypeOK, storeVars
  <1> QED BY <1>4, <1>5, <1>6

LEMMA ApplyType ==
    ASSUME TypeInv, NEW h \in Handlers, Apply(h) PROVE TypeInv'
  <1>1. Busy(h) /\ hook[h].key \in Payloads /\ hook[h].user \in Users
    BY HookFacts DEF Apply, Busy, KnowsUser
  <1>2. WebhookRow(hook[h]) \in Subscription BY <1>1, WebhookRowType, HookFacts
  <1>3. subs' \in [Users -> Subscription] BY <1>1, <1>2, UpsertType, HookFacts DEF Apply
  <1>4. verdict' \in [Payloads -> Verdicts]
    BY DecideType DEF Apply, TypeInv, Verdicts
  <1>5. hook' \in [Handlers -> HookState] /\ BusyKey' /\ UserFound'
    BY <1>1, StepMoves DEF Apply, Steps
  <1> QED BY <1>3, <1>4, <1>5 DEF Apply, TypeInv, TypeOK, StoreTypeOK

LEMMA MarkStepType ==
    ASSUME TypeInv, NEW h \in Handlers, Mark(h) PROVE TypeInv'
  <1>1. /\ Busy(h) /\ hook[h].key \in Payloads /\ hook[h].key \in EventKeys
        /\ hook[h].event.user \in Users \cup {NoUser}
    BY HookFacts DEF Mark, Busy, WebhookEventType
  <1>2. ledger' \in [EventKeys -> LedgerRow]
    BY <1>1, MarkType, HookFacts DEF Mark, StoreTypeOK
  <1>3. hook' \in [Handlers -> HookState] /\ BusyKey' /\ UserFound'
    BY IdleMoves DEF Mark, Reply200
  <1>4. acked' \subseteq Payloads BY <1>1, ReplyType DEF Mark, TypeInv
  <1>5. verdict' \in [Payloads -> Verdicts] BY DecideType DEF Mark, TypeInv, Verdicts
  <1> QED BY <1>2, <1>3, <1>4, <1>5 DEF Mark, TypeInv, TypeOK, StoreTypeOK

LEMMA StoreErrorType ==
    ASSUME TypeInv, NEW h \in Handlers, StoreError(h) PROVE TypeInv'
  <1>1. hook' \in [Handlers -> HookState] /\ BusyKey' /\ UserFound'
    BY IdleMoves DEF StoreError, Reply500
  <1> QED
    BY <1>1 DEF StoreError, Reply500, TypeInv, TypeOK, StoreTypeOK, storeVars

\* A request of the webhook path keeps the types.
LEMMA HookNextType == ASSUME TypeInv, HookNext PROVE TypeInv'
  <1>1. ASSUME NEW h \in Handlers, HookStep(h) PROVE TypeInv'
    BY <1>1, RecordStepType, CheckOrderType, ResolveType, ReadType, ApplyType,
       MarkStepType DEF HookStep
  <1> QED BY <1>1, DeliverType, StoreErrorType DEF HookNext

LEMMA CrashType ==
    ASSUME TypeInv, hook' = [h \in Handlers |-> IdleHook],
           UNCHANGED <<storeVars, acked, verdict>>
    PROVE  TypeInv'
  BY IdleHookType
     DEF TypeInv, TypeOK, StoreTypeOK, storeVars, BusyKey, Busy, UserFound,
         KnowsUser, IdleHook

LEMMA TickType == ASSUME TypeInv, Tick PROVE TypeInv'
  <1>1. today' \in Date BY DEF Tick, TypeInv, TypeOK, StoreTypeOK, Date
  <1> QED
    BY <1>1 DEF Tick, TypeInv, TypeOK, StoreTypeOK, hookVars, BusyKey, Busy,
                UserFound, KnowsUser

LEMMA PruneStepType == ASSUME TypeInv, Prune PROVE TypeInv'
  <1>1. ledger' \in [EventKeys -> LedgerRow]
    BY PruneType DEF Prune, TypeInv, TypeOK
  <1> QED
    BY <1>1 DEF Prune, DeleteOldBillingEvents, TypeInv, TypeOK, StoreTypeOK,
                hookVars, BusyKey, Busy, UserFound, KnowsUser

LEMMA StutterType == ASSUME TypeInv, UNCHANGED vars PROVE TypeInv'
  BY DEF TypeInv, TypeOK, StoreTypeOK, vars, storeVars, hookVars, BusyKey, Busy,
         UserFound, KnowsUser

LEMMA InitType == ASSUME StoreInit, HookInit PROVE TypeInv
  <1>1. DefaultSubscription \in Subscription
    BY DEF DefaultSubscription, Subscription, Plans, Statuses, StatusWords, Date, NoDate
  <1>2. StoreTypeOK
    BY <1>1, NoLedgerRowType DEF StoreInit, StoreTypeOK, Date
  <1>3. TypeOK
    BY <1>2, IdleHookType DEF HookInit, TypeOK, Verdicts
  <1> QED
    BY <1>3 DEF TypeInv, HookInit, BusyKey, Busy, UserFound, KnowsUser, IdleHook

\* Every state of the webhook path is well typed: nothing the providers send, no
\* lookup and no interleaving puts a value into a table that its column does not
\* allow. A goroutine that is past its lookups has a user to write.
THEOREM TypeCorrect == Spec => []TypeOK
  <1>1. Init => TypeInv BY InitType DEF Init
  <1>2. TypeInv /\ [Next]_vars => TypeInv'
    <2>1. ASSUME TypeInv, Crash PROVE TypeInv' BY <2>1, CrashType DEF Crash
    <2> QED BY <2>1, HookNextType, TickType, PruneStepType, StutterType DEF Next
  <1>3. TypeInv => TypeOK BY DEF TypeInv
  <1> QED BY <1>1, <1>2, <1>3, PTL DEF Spec

----------------------------------------------------------------------------
(* The inductive invariant of the claim *)

\* A goroutine that has claimed its payload and not finished with it.
Claimed(h) == hook[h].pc \notin {"idle", "record"}

\* A claim is in the ledger, belongs to one goroutine and is undecided until
\* that goroutine writes the row.
ClaimOwned ==
    \A h \in Handlers : Claimed(h) =>
        /\ Recorded(hook[h].key)
        /\ verdict[hook[h].key] = IF hook[h].pc = "mark" THEN "applied" ELSE "none"

OneOwner ==
    \A g, h \in Handlers :
        Claimed(g) /\ Claimed(h) /\ hook[g].key = hook[h].key => g = h

\* A request is at most a day old and arrived in its payload's retry window.
InWindow ==
    \A h \in Handlers : Busy(h) =>
        /\ Payload[hook[h].key].sentOn <= hook[h].since
        /\ hook[h].since <= Payload[hook[h].key].sentOn + RetryWindow
        /\ hook[h].since <= today /\ today <= hook[h].since + 1
        /\ Claimed(h) => hook[h].since <= ledger[hook[h].key].created

RecordedSince ==
    \A k \in Payloads : Recorded(k) => Payload[k].sentOn <= ledger[k].created

\* What is decided is still in the ledger, or nobody sends it any more.
DecidedIsKept ==
    \A k \in Payloads :
        verdict[k] # "none" => Recorded(k) \/ Payload[k].sentOn + RetryWindow + 1 < today

\* Why AppliedOnce and ProcessedWasApplied hold.
ClaimRules ==
    /\ ClaimOwned /\ OneOwner /\ InWindow /\ RecordedSince
    /\ DecidedIsKept /\ ProcessedWasApplied

ClaimInv == TypeInv /\ ClaimRules

\* A goroutine goes on under its claim.
LEMMA ClaimGoesOn ==
    ASSUME ClaimInv, NEW h \in Handlers, NEW x \in HookState,
           hook' = [hook EXCEPT ![h] = x], Claimed(h), hook[h].pc # "mark",
           x.pc \notin {"idle", "record", "mark"},
           x.key = hook[h].key, x.since = hook[h].since,
           UNCHANGED <<today, ledger, verdict>>
    PROVE  ClaimRules'
  <1> USE DEF ClaimInv, TypeInv, TypeOK, ClaimRules, Claimed, Busy, Recorded
  <1>1. ClaimOwned' BY DEF ClaimOwned
  <1>2. OneOwner' BY DEF OneOwner
  <1>3. InWindow' BY DEF InWindow
  <1>4. RecordedSince' /\ DecidedIsKept' /\ ProcessedWasApplied'
    BY DEF RecordedSince, DecidedIsKept, ProcessedWasApplied
  <1> QED BY <1>1, <1>2, <1>3, <1>4

\* A goroutine drops its request and changes nothing that counts.
LEMMA RequestEnds ==
    ASSUME ClaimInv, NEW h \in Handlers, hook' = [hook EXCEPT ![h] = IdleHook],
           UNCHANGED <<today, ledger, verdict>>
    PROVE  ClaimRules'
  <1> USE DEF ClaimInv, TypeInv, TypeOK, ClaimRules, Claimed, Busy, Recorded, IdleHook
  <1>1. ClaimOwned' BY DEF ClaimOwned
  <1>2. OneOwner' BY DEF OneOwner
  <1>3. InWindow' BY DEF InWindow
  <1>4. RecordedSince' /\ DecidedIsKept' /\ ProcessedWasApplied'
    BY DEF RecordedSince, DecidedIsKept, ProcessedWasApplied
  <1> QED BY <1>1, <1>2, <1>3, <1>4

\* The owner of a claim decides that nothing is to be done, and ends.
LEMMA ClaimDropped ==
    ASSUME ClaimInv, NEW h \in Handlers, hook' = [hook EXCEPT ![h] = IdleHook],
           Claimed(h), hook[h].pc # "mark",
           NEW what \in {"stale", "unresolved"}, Decide(h, what),
           UNCHANGED <<today, ledger>>
    PROVE  ClaimRules'
  <1> USE DEF ClaimInv, TypeInv, TypeOK, ClaimRules, Claimed, Busy, Recorded,
              IdleHook, Decide
  <1>1. hook[h].key \in Payloads BY DEF BusyKey
  <1>2. ClaimOwned' BY DEF ClaimOwned, OneOwner, BusyKey
  <1>3. OneOwner' BY DEF OneOwner
  <1>4. InWindow' BY DEF InWindow
  <1>5. RecordedSince' BY DEF RecordedSince
  <1>6. DecidedIsKept' BY <1>1 DEF DecidedIsKept, ClaimOwned
  <1>7. ProcessedWasApplied' BY <1>1 DEF ProcessedWasApplied, ClaimOwned
  <1> QED BY <1>2, <1>3, <1>4, <1>5, <1>6, <1>7

LEMMA DeliverClaim ==
    ASSUME ClaimInv, NEW h \in Handlers, NEW k \in Payloads, Deliver(h, k)
    PROVE  ClaimRules'
  <1> USE DEF ClaimInv, TypeInv, TypeOK, ClaimRules, Claimed, Busy, Recorded, storeVars
  <1>1. /\ hook' = [hook EXCEPT ![h] = hook'[h]]
        /\ hook'[h].pc = "record" /\ hook'[h].key = k /\ hook'[h].since = today
        /\ Payload[k].sentOn <= today /\ today <= Payload[k].sentOn + RetryWindow
        /\ UNCHANGED <<today, ledger, verdict>>
    BY StoreAssumption, WebhookAssumption DEF Deliver, IdleHook, StoreTypeOK, PayloadType, Date
  <1>2. ClaimOwned' BY <1>1 DEF ClaimOwned
  <1>3. OneOwner' BY <1>1 DEF OneOwner
  <1>4. InWindow'
    BY <1>1 DEF InWindow, StoreTypeOK, Date
  <1>5. RecordedSince' /\ DecidedIsKept' /\ ProcessedWasApplied'
    BY <1>1 DEF RecordedSince, DecidedIsKept, ProcessedWasApplied
  <1> QED BY <1>2, <1>3, <1>4, <1>5

\* The claim succeeds only for a payload nothing was ever decided about.
LEMMA ClaimIsNew ==
    ASSUME ClaimInv, NEW h \in Handlers, hook[h].pc = "record",
           ~Recorded(hook[h].key)
    PROVE  /\ hook[h].key \in Payloads /\ verdict[hook[h].key] = "none"
           /\ \A g \in Handlers : Claimed(g) => hook[g].key # hook[h].key
  <1>1. Busy(h) /\ hook[h].key \in Payloads
    BY HookFacts DEF ClaimInv, Busy
  <1>2. today <= Payload[hook[h].key].sentOn + RetryWindow + 1
    <2>1. /\ hook[h].since <= Payload[hook[h].key].sentOn + RetryWindow
          /\ today <= hook[h].since + 1
      BY <1>1 DEF ClaimInv, ClaimRules, InWindow
    <2>2. /\ hook[h].since \in Nat /\ today \in Nat
          /\ Payload[hook[h].key].sentOn \in Nat /\ RetryWindow \in Nat
      BY <1>1, KeyTypes, WebhookAssumption, HookFacts
         DEF ClaimInv, HookState, PayloadType, StoreTypeOK, Date
    <2> QED BY <2>1, <2>2
  <1>3. verdict[hook[h].key] = "none"
    <2>1. /\ today \in Nat /\ Payload[hook[h].key].sentOn \in Nat
          /\ RetryWindow \in Nat
      BY <1>1, KeyTypes, WebhookAssumption, HookFacts
         DEF ClaimInv, PayloadType, StoreTypeOK, Date
    <2> QED BY <1>1, <1>2, <2>1 DEF ClaimInv, ClaimRules, DecidedIsKept
  <1> QED BY <1>1, <1>3 DEF ClaimInv, ClaimRules, ClaimOwned

LEMMA RecordClaim ==
    ASSUME ClaimInv, NEW h \in Handlers, Record(h) PROVE ClaimRules'
  <1> DEFINE k == hook[h].key
             event == hook[h].event
  <1> USE DEF ClaimInv
  <1>1. CASE Recorded(k) /\ Reply200(h) /\ UNCHANGED <<ledger, verdict>>
    BY <1>1, RequestEnds DEF Record, Reply200
  <1>2. CASE /\ RecordBillingEvent(k, event.user, Payload[k].provider,
                                   ObjectOf(event), event.at)
             /\ IF Acts(Payload[k])
                THEN /\ Goto(h, IF event.at # NoDate THEN "order" ELSE AfterOrder(event))
                     /\ UNCHANGED <<acked, verdict>>
                ELSE Reply200(h) /\ Decide(h, "ignored")
    <2>1. /\ hook[h].pc = "record" /\ ~Recorded(k) /\ k \in Payloads
          /\ verdict[k] = "none"
          /\ \A g \in Handlers : Claimed(g) => hook[g].key # k
      BY <1>2, ClaimIsNew DEF Record, RecordBillingEvent
    <2>2. /\ today' = today
          /\ \A j \in EventKeys \ {k} : ledger'[j] = ledger[j]
          /\ ledger'[k].recorded /\ ~ledger'[k].processed /\ ledger'[k].created = today
      BY <1>2, <2>1, KeyTypes DEF Record, RecordBillingEvent, TypeInv, TypeOK, StoreTypeOK
    <2>3. /\ \A g \in Handlers \ {h} : hook'[g] = hook[g]
          /\ \/ hook'[h].pc = "idle" /\ verdict'[k] = "ignored"
             \/ /\ hook'[h].pc \notin {"idle", "record", "mark"}
                /\ hook'[h].key = k /\ hook'[h].since = hook[h].since
                /\ verdict'[k] = "none"
      <3>1. CASE Reply200(h) /\ Decide(h, "ignored")
        BY <3>1, <2>1 DEF Reply200, Decide, IdleHook, TypeInv, TypeOK
      <3>2. CASE /\ Goto(h, IF event.at # NoDate THEN "order" ELSE AfterOrder(event))
                 /\ UNCHANGED <<acked, verdict>>
        <4>1. hook[h] \in HookState /\ hook \in [Handlers -> HookState]
          BY HookFacts
        <4>2. AfterOrder(event) \notin {"idle", "record", "mark"}
          BY HookFacts
        <4> QED BY <3>2, <4>1, <4>2, <2>1 DEF Goto, HookState
      <3> QED BY <1>2, <3>1, <3>2
    <2>4. \A j \in Payloads \ {k} : verdict'[j] = verdict[j]
      BY <1>2, <2>1 DEF Decide, TypeInv, TypeOK
    <2>5. Busy(h) /\ Payload[k].sentOn <= today
      <3>1. Busy(h) BY <2>1 DEF Busy
      <3>2. /\ today \in Nat /\ Payload[k].sentOn \in Nat /\ hook[h].since \in Nat
        BY <2>1, KeyTypes, HookFacts DEF PayloadType, StoreTypeOK, HookState, Date
      <3> QED BY <3>1, <3>2 DEF ClaimRules, InWindow
    <2> USE DEF ClaimRules, Recorded
    <2>6. ClaimOwned'
      BY <2>1, <2>2, <2>3, <2>4, KeyTypes
         DEF ClaimOwned, Claimed, TypeInv, BusyKey, Busy
    <2>7. OneOwner' BY <2>1, <2>3 DEF OneOwner, Claimed
    <2>8. InWindow'
      <3> SUFFICES ASSUME NEW g \in Handlers, Busy(g)'
                   PROVE  (/\ Payload[hook[g].key].sentOn <= hook[g].since
                           /\ hook[g].since <= Payload[hook[g].key].sentOn + RetryWindow
                           /\ hook[g].since <= today /\ today <= hook[g].since + 1
                           /\ Claimed(g) => hook[g].since <= ledger[hook[g].key].created)'
        BY DEF InWindow
      <3>1. CASE g = h
        BY <3>1, <2>1, <2>2, <2>3, <2>5 DEF InWindow, Busy
      <3>2. CASE g # h
        BY <3>2, <2>1, <2>2, <2>3, KeyTypes DEF InWindow, Busy, Claimed, TypeInv, BusyKey
      <3> QED BY <3>1, <3>2
    <2>9. RecordedSince' BY <2>1, <2>2, <2>5, KeyTypes DEF RecordedSince
    <2>10. DecidedIsKept' BY <2>1, <2>2, <2>4, KeyTypes DEF DecidedIsKept
    <2>11. ProcessedWasApplied'
      BY <2>1, <2>2, <2>4, KeyTypes DEF ProcessedWasApplied
    <2> QED BY <2>6, <2>7, <2>8, <2>9, <2>10, <2>11
  <1> QED BY <1>1, <1>2 DEF Record

LEMMA CheckOrderClaim ==
    ASSUME ClaimInv, NEW h \in Handlers, CheckOrder(h) PROVE ClaimRules'
  <1>1. Claimed(h) /\ hook[h].pc = "order" /\ UNCHANGED <<today, ledger>>
    BY DEF CheckOrder, Claimed, storeVars
  <1>2. CASE Reply200(h) /\ Decide(h, "stale")
    BY <1>1, <1>2, ClaimDropped DEF Reply200
  <1>3. CASE Goto(h, AfterOrder(hook[h].event)) /\ UNCHANGED <<acked, verdict>>
    <2> DEFINE x == [hook[h] EXCEPT !.pc = AfterOrder(hook[h].event)]
    <2>1. /\ x \in HookState /\ x.key = hook[h].key /\ x.since = hook[h].since
          /\ x.pc \notin {"idle", "record", "mark"}
      BY HookFacts DEF ClaimInv, HookState, Steps
    <2>2. hook' = [hook EXCEPT ![h] = x] BY <1>3 DEF Goto
    <2> HIDE DEF x
    <2> QED BY <1>1, <1>3, <2>1, <2>2, ClaimGoesOn
  <1> QED BY <1>2, <1>3 DEF CheckOrder

LEMMA ResolveClaim ==
    ASSUME ClaimInv, NEW h \in Handlers, ResolveBySub(h) \/ ResolveByCustomer(h)
    PROVE  ClaimRules'
  <1>1. /\ Claimed(h) /\ hook[h].pc # "mark" /\ UNCHANGED <<today, ledger>>
    BY DEF ResolveBySub, ResolveByCustomer, Claimed, storeVars
  <1>2. CASE Reply500(h) /\ Decide(h, "unresolved")
    BY <1>1, <1>2, ClaimDropped DEF Reply500
  <1>3. CASE Goto(h, "byCustomer") /\ UNCHANGED verdict
    <2> DEFINE x == [hook[h] EXCEPT !.pc = "byCustomer"]
    <2>1. /\ x \in HookState /\ x.key = hook[h].key /\ x.since = hook[h].since
          /\ x.pc \notin {"idle", "record", "mark"}
      BY HookFacts DEF ClaimInv, HookState, Steps
    <2>2. hook' = [hook EXCEPT ![h] = x] BY <1>3 DEF Goto
    <2> HIDE DEF x
    <2> QED BY <1>1, <1>3, <2>1, <2>2, ClaimGoesOn
  <1>4. CASE /\ \E u \in Users :
                   hook' = [hook EXCEPT ![h].user = u,
                                        ![h].pc = AfterUser(hook[h].event)]
             /\ UNCHANGED verdict
    <2>1. PICK u \in Users : hook' = [hook EXCEPT ![h].user = u,
                                          ![h].pc = AfterUser(hook[h].event)]
      BY <1>4
    <2> DEFINE x == [hook[h] EXCEPT !.user = u, !.pc = AfterUser(hook[h].event)]
    <2>2. /\ x \in HookState /\ x.key = hook[h].key /\ x.since = hook[h].since
          /\ x.pc \notin {"idle", "record", "mark"}
      BY HookFacts DEF ClaimInv, HookState, Steps
    <2>3. hook' = [hook EXCEPT ![h] = x] BY <2>1, HookFacts DEF ClaimInv
    <2> HIDE DEF x
    <2> QED BY <1>1, <1>4, <2>2, <2>3, ClaimGoesOn
  <1> QED
    BY <1>2, <1>3, <1>4
       DEF ResolveBySub, ResolveByCustomer, UsersByProviderSubID,
           UsersByProviderCustomerID

LEMMA ReadClaim ==
    ASSUME ClaimInv, NEW h \in Handlers,
           ReadPeriod(h) \/ ReadTrial(h) \/ ReadRenewal(h)
    PROVE  ClaimRules'
  <1>1. /\ Claimed(h) /\ hook[h].pc # "mark" /\ UNCHANGED <<today, ledger, verdict>>
    BY DEF ReadPeriod, ReadTrial, ReadRenewal, Claimed, storeVars
  <1>2. TypeInv' BY ReadType DEF ClaimInv
  <1>3. /\ hook' = [hook EXCEPT ![h] = hook'[h]]
        /\ hook'[h] \in HookState
        /\ hook'[h].key = hook[h].key /\ hook'[h].since = hook[h].since
        /\ hook'[h].pc \notin {"idle", "record", "mark"}
    <2>1. hook \in [Handlers -> HookState] /\ hook' \in [Handlers -> HookState]
      BY <1>2 DEF ClaimInv, TypeInv, TypeOK
    <2>2. hook[h] \in HookState /\ hook'[h] \in HookState BY <2>1
    <2>3. AfterPeriod(hook[h].event) \in {"trial", "renewal"} BY DEF AfterPeriod
    <2>4. CASE ReadPeriod(h)
      <3>1. PICK d : hook' = [hook EXCEPT ![h].period = d,
                                          ![h].pc = AfterPeriod(hook[h].event)]
        BY <2>4 DEF ReadPeriod
      <3> QED BY <2>1, <2>2, <2>3, <3>1 DEF HookState
    <2>5. CASE ReadTrial(h) BY <2>1, <2>2, <2>5 DEF ReadTrial, HookState
    <2>6. CASE ReadRenewal(h) BY <2>1, <2>2, <2>6 DEF ReadRenewal, HookState
    <2> QED BY <2>4, <2>5, <2>6
  <1> QED BY <1>1, <1>3, ClaimGoesOn

LEMMA ApplyClaim ==
    ASSUME ClaimInv, NEW h \in Handlers, Apply(h) PROVE ClaimRules'
  <1> DEFINE k == hook[h].key
  <1>1. /\ hook[h].pc = "upsert" /\ Claimed(h) /\ k \in Payloads
        /\ Recorded(k) /\ verdict[k] = "none"
    <2>1. hook[h].pc = "upsert" /\ Claimed(h) /\ Busy(h)
      BY DEF Apply, Claimed, Busy
    <2> QED BY <2>1, HookFacts DEF ClaimInv, ClaimRules, ClaimOwned
  <1>2. /\ hook'[h].pc = "mark" /\ hook'[h].key = k /\ hook'[h].since = hook[h].since
        /\ \A g \in Handlers \ {h} : hook'[g] = hook[g]
    BY HookFacts DEF Apply, Goto, ClaimInv, HookState
  <1>3. /\ UNCHANGED <<today, ledger>>
        /\ verdict'[k] = "applied"
        /\ \A j \in Payloads \ {k} : verdict'[j] = verdict[j]
    BY <1>1 DEF Apply, Decide, ClaimInv, TypeInv, TypeOK
  <1> USE DEF ClaimInv, ClaimRules, Recorded, Claimed, Busy, TypeInv
  <1>4. ClaimOwned' BY <1>1, <1>2, <1>3 DEF ClaimOwned, OneOwner, BusyKey
  <1>5. OneOwner' BY <1>1, <1>2 DEF OneOwner
  <1>6. InWindow' BY <1>1, <1>2, <1>3 DEF InWindow
  <1>7. RecordedSince' BY <1>3 DEF RecordedSince
  <1>8. DecidedIsKept' BY <1>1, <1>3 DEF DecidedIsKept
  <1>9. ProcessedWasApplied' BY <1>1, <1>3 DEF ProcessedWasApplied
  <1> QED BY <1>4, <1>5, <1>6, <1>7, <1>8, <1>9

LEMMA MarkClaim ==
    ASSUME ClaimInv, NEW h \in Handlers, Mark(h) PROVE ClaimRules'
  <1> DEFINE k == hook[h].key
  <1>1. /\ hook[h].pc = "mark" /\ Claimed(h) /\ k \in Payloads /\ k \in EventKeys
        /\ Recorded(k)
    <2>1. hook[h].pc = "mark" /\ Claimed(h) /\ Busy(h)
      BY DEF Mark, Claimed, Busy
    <2> QED BY <2>1, HookFacts DEF ClaimInv, ClaimRules, ClaimOwned
  <1>2. hook'[h].pc = "idle" /\ \A g \in Handlers \ {h} : hook'[g] = hook[g]
    BY HookFacts DEF Mark, Reply200, IdleHook, ClaimInv
  <1>3. /\ today' = today
        /\ verdict'[k] = "settled"
        /\ \A j \in Payloads \ {k} : verdict'[j] = verdict[j]
    BY <1>1 DEF Mark, Decide, ClaimInv, TypeInv, TypeOK
  <1>4. /\ \A j \in EventKeys \ {k} : ledger'[j] = ledger[j]
        /\ ledger'[k].recorded = ledger[k].recorded
        /\ ledger'[k].created = ledger[k].created
    <2>1. ledger \in [EventKeys -> LedgerRow] /\ ledger[k] \in LedgerRow
      BY <1>1 DEF ClaimInv, TypeInv, TypeOK, StoreTypeOK
    <2>2. CASE UNCHANGED ledger BY <2>2
    <2>3. CASE MarkBillingEventProcessed(k, hook[h].event.user)
      BY <1>1, <2>1, <2>3 DEF MarkBillingEventProcessed, LedgerRow
    <2> QED BY <2>2, <2>3 DEF Mark
  <1> USE KeyTypes DEF ClaimInv, ClaimRules, Recorded, Claimed, Busy, TypeInv
  <1>5. ClaimOwned' BY <1>1, <1>2, <1>3, <1>4 DEF ClaimOwned, OneOwner, BusyKey
  <1>6. OneOwner' BY <1>1, <1>2 DEF OneOwner
  <1>7. InWindow' BY <1>2, <1>3, <1>4 DEF InWindow, BusyKey
  <1>8. RecordedSince' BY <1>1, <1>4 DEF RecordedSince
  <1>9. DecidedIsKept' BY <1>1, <1>3, <1>4 DEF DecidedIsKept
  <1>10. ProcessedWasApplied' BY <1>1, <1>3, <1>4 DEF ProcessedWasApplied
  <1> QED BY <1>5, <1>6, <1>7, <1>8, <1>9, <1>10

LEMMA StoreErrorClaim ==
    ASSUME ClaimInv, NEW h \in Handlers, StoreError(h) PROVE ClaimRules'
  BY RequestEnds DEF StoreError, Reply500, storeVars

\* A request of the webhook path keeps the claims in order.
LEMMA HookNextClaim == ASSUME ClaimInv, HookNext PROVE ClaimInv'
  <1>1. ASSUME NEW h \in Handlers, HookStep(h) PROVE ClaimRules'
    BY <1>1, RecordClaim, CheckOrderClaim, ResolveClaim, ReadClaim, ApplyClaim,
       MarkClaim DEF HookStep
  <1>2. ClaimRules' BY <1>1, DeliverClaim, StoreErrorClaim DEF HookNext
  <1> QED BY <1>2, HookNextType DEF ClaimInv

LEMMA CrashClaim ==
    ASSUME ClaimInv, hook' = [h \in Handlers |-> IdleHook],
           UNCHANGED <<storeVars, acked, verdict>>
    PROVE  ClaimInv'
  <1>1. TypeInv' BY CrashType DEF ClaimInv
  <1>2. \A h \in Handlers : ~Busy(h)' /\ ~Claimed(h)' BY DEF Busy, Claimed, IdleHook
  <1>3. ClaimOwned' /\ OneOwner' /\ InWindow'
    BY <1>2 DEF ClaimOwned, OneOwner, InWindow
  <1>4. RecordedSince' /\ DecidedIsKept' /\ ProcessedWasApplied'
    BY DEF ClaimInv, ClaimRules, RecordedSince, DecidedIsKept, ProcessedWasApplied,
           Recorded, storeVars
  <1> QED BY <1>1, <1>3, <1>4 DEF ClaimInv, ClaimRules

LEMMA TickClaim == ASSUME ClaimInv, Tick PROVE ClaimInv'
  <1>1. TypeInv' BY TickType DEF ClaimInv
  <1>2. today \in Nat /\ today' = today + 1 /\ UNCHANGED <<ledger, hook, verdict>>
    BY DEF Tick, ClaimInv, TypeInv, TypeOK, StoreTypeOK, hookVars, Date
  <1> USE DEF ClaimInv, ClaimRules, Claimed, Busy, Recorded
  <1>3. ClaimOwned' BY <1>2 DEF ClaimOwned
  <1>4. OneOwner' BY <1>2 DEF OneOwner
  <1>5. InWindow' BY <1>2 DEF InWindow, Tick
  <1>6. RecordedSince' BY <1>2 DEF RecordedSince
  <1>7. DecidedIsKept'
    <2>1. \A k \in Payloads : Payload[k].sentOn \in Nat
      BY KeyTypes DEF PayloadType, Date
    <2> QED BY <1>2, <2>1, WebhookAssumption DEF DecidedIsKept
  <1>8. ProcessedWasApplied' BY <1>2 DEF ProcessedWasApplied
  <1> QED BY <1>1, <1>3, <1>4, <1>5, <1>6, <1>7, <1>8

\* The cleanup never reaches the claim of a request still running, nor a payload
\* its provider may still send.
LEMMA PruneClaim == ASSUME ClaimInv, Prune PROVE ClaimInv'
  <1>1. TypeInv' BY PruneStepType DEF ClaimInv
  <1>2. /\ UNCHANGED <<today, hook, verdict>>
        /\ \A k \in EventKeys :
              \/ ledger'[k] = ledger[k]
              \/ /\ ledger[k].created + Retention < today
                 /\ ledger'[k] = NoLedgerRow
    BY DEF Prune, DeleteOldBillingEvents, hookVars
  <1>3. /\ today \in Nat /\ Retention \in Nat /\ RetryWindow \in Nat
        /\ RetryWindow < Retention
        /\ \A k \in EventKeys : ledger[k].created \in Nat
        /\ \A k \in Payloads : Payload[k].sentOn \in Nat
        /\ \A h \in Handlers : hook[h].since \in Nat
    BY KeyTypes, StoreAssumption, WebhookAssumption, RetentionAssumption
       DEF ClaimInv, TypeInv, TypeOK, StoreTypeOK, LedgerRow, HookState,
           PayloadType, Date
  <1> USE DEF ClaimInv, ClaimRules, Claimed, Busy, Recorded
  <1>4. ASSUME NEW h \in Handlers, Claimed(h)
        PROVE  hook[h].key \in Payloads /\ ledger'[hook[h].key] = ledger[hook[h].key]
    <2>1. /\ hook[h].key \in Payloads /\ hook[h].key \in EventKeys
      BY <1>4, HookFacts
    <2>2. /\ today <= hook[h].since + 1 /\ hook[h].since <= ledger[hook[h].key].created
      BY <1>4 DEF InWindow
    <2> QED BY <1>2, <1>3, <2>1, <2>2
  <1>5. ClaimOwned' BY <1>2, <1>4 DEF ClaimOwned
  <1>6. OneOwner' BY <1>2 DEF OneOwner
  <1>7. InWindow' BY <1>2, <1>4 DEF InWindow
  <1>8. RecordedSince' BY <1>2, KeyTypes DEF RecordedSince, NoLedgerRow
  <1>9. DecidedIsKept'
    <2> SUFFICES ASSUME NEW k \in Payloads, verdict'[k] # "none", ~Recorded(k)'
                 PROVE  Payload[k].sentOn + RetryWindow + 1 < today'
      BY DEF DecidedIsKept
    <2>1. CASE ~Recorded(k) BY <1>2, <2>1 DEF DecidedIsKept
    <2>2. CASE Recorded(k)
      <3>1. ledger[k].created + Retention < today /\ Payload[k].sentOn <= ledger[k].created
        BY <1>2, <2>2, KeyTypes DEF RecordedSince
      <3> QED BY <1>2, <1>3, <3>1, KeyTypes
    <2> QED BY <2>1, <2>2
  <1>10. ProcessedWasApplied' BY <1>2, KeyTypes DEF ProcessedWasApplied, NoLedgerRow
  <1> QED BY <1>1, <1>5, <1>6, <1>7, <1>8, <1>9, <1>10

LEMMA StutterClaim == ASSUME ClaimInv, UNCHANGED vars PROVE ClaimInv'
  <1>1. TypeInv' BY StutterType DEF ClaimInv
  <1> QED
    BY <1>1 DEF ClaimInv, ClaimRules, ClaimOwned, OneOwner, InWindow, RecordedSince,
                DecidedIsKept, ProcessedWasApplied, Claimed, Busy, Recorded,
                vars, storeVars, hookVars

LEMMA InitClaim == ASSUME StoreInit, HookInit PROVE ClaimInv
  <1>1. TypeInv BY InitType
  <1>2. \A h \in Handlers : ~Busy(h) /\ ~Claimed(h)
    BY DEF HookInit, Busy, Claimed, IdleHook
  <1>3. ClaimOwned /\ OneOwner /\ InWindow BY <1>2 DEF ClaimOwned, OneOwner, InWindow
  <1>4. RecordedSince /\ DecidedIsKept /\ ProcessedWasApplied
    BY KeyTypes DEF StoreInit, HookInit, NoLedgerRow, Recorded, RecordedSince,
                    DecidedIsKept, ProcessedWasApplied
  <1> QED BY <1>1, <1>3, <1>4 DEF ClaimInv, ClaimRules

THEOREM ClaimInvariant == Spec => []ClaimInv
  <1>1. Init => ClaimInv BY InitClaim DEF Init
  <1>2. ClaimInv /\ [Next]_vars => ClaimInv'
    <2>1. ASSUME ClaimInv, Crash PROVE ClaimInv' BY <2>1, CrashClaim DEF Crash
    <2> QED BY <2>1, HookNextClaim, TickClaim, PruneClaim, StutterClaim DEF Next
  <1> QED BY <1>1, <1>2, PTL DEF Spec

----------------------------------------------------------------------------
(* What follows *)

\* An event the ledger calls processed has been applied to a subscription, and
\* its delivery answered, whatever was retried, pruned or lost in a crash.
THEOREM ProcessedIsApplied == Spec => []ProcessedWasApplied
  <1>1. ClaimInv => ProcessedWasApplied BY DEF ClaimInv, ClaimRules
  <1> QED BY <1>1, ClaimInvariant, PTL

\* The goroutine about to write owns a claim nobody has acted on.
LEMMA AppliesOnce ==
    ASSUME ClaimInv, NEW h \in Handlers, Applies(h)
    PROVE  verdict[hook[h].key] = "none"
  BY DEF ClaimInv, ClaimRules, ClaimOwned, Claimed, Applies

\* A payload changes a subscription at most once, however many goroutines and
\* days its deliveries are spread over, because the cleanup keeps a claim longer
\* than the provider retries.
THEOREM AtMostOnce == Spec => AppliedOnce
  <1>1. ClaimInv /\ [Next]_vars =>
           [\A h \in Handlers : Applies(h) => verdict[hook[h].key] = "none"]_vars
    BY AppliesOnce
  <1> QED BY <1>1, ClaimInvariant, PTL DEF Spec, AppliedOnce

----------------------------------------------------------------------------
(* The order of deliveries *)

\* What the theorem asks of the providers: of two payloads about one object the
\* newer one is not sent first.
SentInOrder ==
    \A j, k \in Payloads :
        SameObject(j, k) /\ Newer(j, k) => Payload[k].sentOn <= Payload[j].sentOn

\* What a goroutine knows about its payload: the event is about the payload's
\* object and of its date, only payloads that are acted on get past the claim, and
\* behind the ordering check nothing newer was settled when the delivery arrived.
HookOrder(x) ==
    /\ x.pc # "idle" /\ Acts(Payload[x.key]) =>
          /\ ObjectOf(x.event) = ObjectOfPayload(x.key)
          /\ Payload[x.key].at # NoDate => x.event.at = Payload[x.key].at
    /\ x.pc \notin {"idle", "record"} => Acts(Payload[x.key])
    /\ x.pc \notin {"idle", "record", "order"} =>
          \A j \in x.after : SameObject(j, x.key) => ~Newer(j, x.key)

\* The ledger's columns are the payload's.
RowOrder ==
    \A k \in Payloads : Recorded(k) /\ Acts(Payload[k]) =>
        /\ ledger[k].provider = Payload[k].provider
        /\ ledger[k].object = ObjectOfPayload(k)
        /\ Payload[k].at # NoDate => ledger[k].at = Payload[k].at

\* A settled payload counts for the ordering check until nobody sends an older
\* one any more.
SettledCounts ==
    \A k \in Payloads : verdict[k] = "settled" =>
        /\ Acts(Payload[k])
        /\ \/ Recorded(k) /\ ledger[k].processed
           \/ Payload[k].sentOn + Retention < today

AfterSettled ==
    \A h \in Handlers : \A j \in hook[h].after : verdict[j] = "settled"

OrderRules ==
    /\ \A h \in Handlers : HookOrder(hook[h])
    /\ RowOrder /\ SettledCounts /\ AfterSettled

OrderInv == ClaimInv /\ OrderRules

\* Neither object nor date of an event depends on the day it arrives, unless the
\* payload has no date and the day stands in for it.
LEMMA OrderOfAnyDay ==
    ASSUME NEW k \in Payloads, NEW d
    PROVE  /\ ObjectOf(HandleWebhook(Payload[k], d)) = ObjectOfPayload(k)
           /\ Payload[k].at # NoDate =>
                 HandleWebhook(Payload[k], d).at = Payload[k].at
  <1>1. CASE Payload[k].provider = "lemonsqueezy"
    BY <1>1 DEF ObjectOfPayload, ObjectOf, HandleWebhook, LemonSqueezyEvent
  <1>2. CASE Payload[k].provider # "lemonsqueezy"
    BY <1>2 DEF ObjectOfPayload, ObjectOf, HandleWebhook, PaystackChargeEvent,
                PaystackInvoiceEvent, PaystackSubscriptionEvent
  <1> QED BY <1>1, <1>2

\* One goroutine moves, and the rest keeps its order.
LEMMA OrderMoves ==
    ASSUME OrderInv, NEW h \in Handlers, NEW x \in HookState,
           hook' = [hook EXCEPT ![h] = x],
           HookOrder(x), \A j \in x.after : verdict[j] = "settled",
           \A j \in Payloads : verdict[j] = "settled" => verdict'[j] = "settled",
           RowOrder', SettledCounts'
    PROVE  OrderRules'
  <1>1. \A g \in Handlers : hook'[g] = IF g = h THEN x ELSE hook[g]
    BY DEF OrderInv, ClaimInv, TypeInv, TypeOK
  <1>2. ASSUME NEW g \in Handlers PROVE HookOrder(hook[g])'
    <2>1. HookOrder(hook'[g]) BY <1>1 DEF OrderInv, OrderRules
    <2> QED BY <2>1 DEF HookOrder, SameObject, Newer, ObjectOfPayload
  <1>3. AfterSettled'
    <2> SUFFICES ASSUME NEW g \in Handlers, NEW j \in hook'[g].after
                 PROVE  verdict'[j] = "settled"
      BY DEF AfterSettled
    <2>1. verdict[j] = "settled" BY <1>1 DEF OrderInv, OrderRules, AfterSettled
    <2>2. j \in Payloads
      BY <1>1 DEF OrderInv, ClaimInv, TypeInv, TypeOK, HookState
    <2> QED BY <2>1, <2>2
  <1> QED BY <1>2, <1>3 DEF OrderRules

LEMMA IdleOrder == HookOrder(IdleHook) /\ IdleHook.after = {}
  BY DEF HookOrder, IdleHook

LEMMA DeliverOrder ==
    ASSUME OrderInv, NEW h \in Handlers, NEW k \in Payloads, Deliver(h, k)
    PROVE  OrderRules'
  <1> DEFINE x == hook'[h]
             event == IF Acts(Payload[k]) THEN HandleWebhook(Payload[k], today)
                      ELSE NoEvent
  <1>1. hook' \in [Handlers -> HookState]
    BY DeliverType DEF OrderInv, ClaimInv, TypeInv, TypeOK
  <1>2. /\ hook' = [hook EXCEPT ![h] = x]
        /\ x.pc = "record" /\ x.key = k /\ x.event = event
        /\ x.after = {j \in Payloads : verdict[j] = "settled"}
    BY DEF Deliver, IdleHook, OrderInv, ClaimInv, TypeInv, TypeOK
  <1>3. Acts(Payload[k]) => /\ ObjectOf(event) = ObjectOfPayload(k)
                            /\ Payload[k].at # NoDate => event.at = Payload[k].at
    BY OrderOfAnyDay
  <1> HIDE DEF event
  <1>4. HookOrder(x) BY <1>2, <1>3 DEF HookOrder
  <1>5. /\ UNCHANGED <<today, ledger, verdict>>
        /\ RowOrder' /\ SettledCounts'
    BY DEF Deliver, storeVars, OrderInv, OrderRules, RowOrder, SettledCounts, Recorded,
           ObjectOfPayload
  <1>6. x \in HookState BY <1>1
  <1> HIDE DEF x
  <1> QED BY <1>2, <1>4, <1>5, <1>6, OrderMoves

\* A goroutine gives up, or goes on behind the ordering check, and no table and
\* no decision changes.
LEMMA StepOrder ==
    ASSUME OrderInv, NEW h \in Handlers, NEW x \in HookState,
           hook' = [hook EXCEPT ![h] = x], UNCHANGED <<today, ledger, verdict>>,
           \/ x = IdleHook
           \/ /\ hook[h].pc \notin {"idle", "record", "order"}
              /\ x.key = hook[h].key /\ x.event = hook[h].event
              /\ x.after = hook[h].after
    PROVE  OrderRules'
  <1>1. HookOrder(x) /\ \A j \in x.after : verdict[j] = "settled"
    <2>1. CASE x = IdleHook BY <2>1, IdleOrder
    <2>2. CASE x # IdleHook
      BY <2>2 DEF HookOrder, OrderInv, OrderRules, AfterSettled
    <2> QED BY <2>1, <2>2
  <1>2. RowOrder' /\ SettledCounts'
    BY DEF OrderInv, OrderRules, RowOrder, SettledCounts, Recorded, ObjectOfPayload
  <1> QED BY <1>1, <1>2, OrderMoves

\* The owner of a claim decides about its payload.
LEMMA DecideOrder ==
    ASSUME OrderInv, NEW h \in Handlers, Claimed(h), NEW what,
           what \notin {"none", "settled"}, hook[h].pc # "mark", Decide(h, what),
           UNCHANGED <<today, ledger>>
    PROVE  /\ \A j \in Payloads : verdict[j] = "settled" => verdict'[j] = "settled"
           /\ RowOrder' /\ SettledCounts'
  <1>1. hook[h].key \in Payloads /\ verdict[hook[h].key] = "none"
    BY HookFacts DEF OrderInv, ClaimInv, ClaimRules, ClaimOwned, Claimed, Busy
  <1>2. /\ verdict'[hook[h].key] = what
        /\ \A j \in Payloads \ {hook[h].key} : verdict'[j] = verdict[j]
    BY <1>1 DEF Decide, OrderInv, ClaimInv, TypeInv, TypeOK
  <1> QED BY <1>1, <1>2
          DEF OrderInv, OrderRules, RowOrder, SettledCounts, Recorded, ObjectOfPayload

LEMMA RecordOrder ==
    ASSUME OrderInv, NEW h \in Handlers, Record(h) PROVE OrderRules'
  <1> DEFINE k == hook[h].key
             event == hook[h].event
  <1> USE DEF OrderInv, ClaimInv
  <1>1. CASE Recorded(k) /\ Reply200(h) /\ UNCHANGED <<ledger, verdict>>
    BY <1>1, StepOrder, IdleHookType DEF Record, Reply200
  <1>2. CASE /\ RecordBillingEvent(k, event.user, Payload[k].provider,
                                   ObjectOf(event), event.at)
             /\ IF Acts(Payload[k])
                THEN /\ Goto(h, IF event.at # NoDate THEN "order" ELSE AfterOrder(event))
                     /\ UNCHANGED <<acked, verdict>>
                ELSE Reply200(h) /\ Decide(h, "ignored")
    <2>1. /\ hook[h].pc = "record" /\ ~Recorded(k) /\ k \in Payloads
          /\ verdict[k] = "none"
      BY <1>2, ClaimIsNew DEF Record, RecordBillingEvent
    <2>2. /\ today' = today
          /\ \A j \in EventKeys \ {k} : ledger'[j] = ledger[j]
          /\ ledger'[k].provider = Payload[k].provider
          /\ ledger'[k].object = ObjectOf(event) /\ ledger'[k].at = event.at
      BY <1>2, <2>1, KeyTypes DEF Record, RecordBillingEvent, TypeInv, TypeOK, StoreTypeOK
    <2>3. Acts(Payload[k]) => /\ ObjectOf(event) = ObjectOfPayload(k)
                              /\ Payload[k].at # NoDate => event.at = Payload[k].at
      BY <2>1 DEF OrderRules, HookOrder
    <2>4. \A j \in Payloads \ {k} : verdict'[j] = verdict[j]
      BY <1>2, <2>1 DEF Decide, TypeInv, TypeOK
    <2>5. verdict'[k] # "settled" BY <1>2, <2>1 DEF Decide, TypeInv, TypeOK
    <2>6. RowOrder'
      BY <2>1, <2>2, <2>3, KeyTypes DEF OrderRules, RowOrder, Recorded, ObjectOfPayload
    <2>7. SettledCounts'
      BY <2>1, <2>2, <2>4, <2>5, KeyTypes DEF OrderRules, SettledCounts, Recorded
    <2>8. PICK x \in HookState :
             /\ hook' = [hook EXCEPT ![h] = x]
             /\ HookOrder(x) /\ \A j \in x.after : verdict[j] = "settled"
      <3>1. CASE ~Acts(Payload[k])
        BY <1>2, <3>1, IdleHookType, IdleOrder DEF Reply200
      <3>2. CASE Acts(Payload[k])
        <4> DEFINE y == hook'[h]
        <4>1. hook' \in [Handlers -> HookState]
          BY RecordStepType DEF TypeInv, TypeOK
        <4>2. y \in HookState BY <4>1
        <4>3. /\ hook' = [hook EXCEPT ![h] = y]
              /\ y.pc = IF event.at # NoDate THEN "order" ELSE AfterOrder(event)
              /\ y.key = k /\ y.event = event /\ y.after = hook[h].after
          BY <1>2, <3>2, HookFacts DEF Goto, HookState
        <4>4. AfterOrder(event) \notin {"idle", "record", "order"} BY HookFacts
        <4>5. event.at = NoDate => \A j \in Payloads : ~Newer(j, k)
          BY <2>3, <3>2 DEF Newer, NoDate
        <4>6. y.after \subseteq Payloads BY <4>2 DEF HookState
        <4> HIDE DEF y
        <4>7. HookOrder(y) BY <2>3, <3>2, <4>3, <4>4, <4>5, <4>6 DEF HookOrder
        <4> QED BY <4>2, <4>3, <4>7 DEF OrderRules, AfterSettled
      <3> QED BY <3>1, <3>2
    <2> HIDE DEF OrderInv
    <2> QED BY <2>1, <2>4, <2>6, <2>7, <2>8, OrderMoves
  <1> QED BY <1>1, <1>2 DEF Record

\* Behind the check: a newer payload that was settled is still in the ledger, as
\* the delivery is inside the window of an older one, so the check found it.
LEMMA CheckOrderOrder ==
    ASSUME SentInOrder, OrderInv, NEW h \in Handlers, CheckOrder(h)
    PROVE  OrderRules'
  <1> DEFINE k == hook[h].key
             event == hook[h].event
  <1> USE DEF OrderInv, ClaimInv
  <1>1. /\ hook[h].pc = "order" /\ Busy(h) /\ Claimed(h) /\ k \in Payloads
        /\ UNCHANGED <<today, ledger>>
    <2>1. hook[h].pc = "order" /\ Busy(h) /\ Claimed(h)
      BY DEF CheckOrder, Busy, Claimed
    <2> QED BY <2>1, HookFacts DEF CheckOrder, storeVars
  <1>2. CASE Reply200(h) /\ Decide(h, "stale")
    <2>1. hook' = [hook EXCEPT ![h] = IdleHook] BY <1>2 DEF Reply200
    <2>2. HookOrder(IdleHook) /\ \A j \in IdleHook.after : verdict[j] = "settled"
      BY IdleOrder
    <2>3. /\ \A j \in Payloads : verdict[j] = "settled" => verdict'[j] = "settled"
          /\ RowOrder' /\ SettledCounts'
      BY <1>1, <1>2, DecideOrder
    <2> HIDE DEF OrderInv
    <2> QED BY <2>1, <2>2, <2>3, OrderMoves, IdleHookType
  <1>3. CASE /\ ~NewerProcessed(Payload[k].provider, ObjectOf(event), event.at)
             /\ Goto(h, AfterOrder(event)) /\ UNCHANGED verdict
    <2> DEFINE x == [hook[h] EXCEPT !.pc = AfterOrder(event)]
    <2>1. hook' = [hook EXCEPT ![h] = x] BY <1>3 DEF Goto
    <2>2. /\ x \in HookState /\ x.pc = AfterOrder(event)
          /\ x.pc \notin {"idle", "record", "order"}
          /\ x.key = k /\ x.event = event /\ x.after = hook[h].after
      BY HookFacts DEF HookState, Steps
    <2>3. Acts(Payload[k]) /\ ObjectOf(event) = ObjectOfPayload(k)
          /\ (Payload[k].at # NoDate => event.at = Payload[k].at)
      BY <1>1 DEF OrderRules, HookOrder, Busy, Claimed
    <2>4. ASSUME NEW j \in x.after, SameObject(j, k), Newer(j, k) PROVE FALSE
      <3>1. /\ j \in Payloads /\ j \in EventKeys /\ verdict[j] = "settled"
        BY <2>2, <2>4, KeyTypes DEF HookState, OrderRules, AfterSettled
      <3>2. Acts(Payload[j])
            /\ ((Recorded(j) /\ ledger[j].processed)
                \/ Payload[j].sentOn + Retention < today)
        BY <3>1 DEF OrderRules, SettledCounts
      <3>3. /\ today \in Nat /\ hook[h].since \in Nat
            /\ Payload[j].sentOn \in Nat /\ Payload[k].sentOn \in Nat
            /\ Payload[j].at \in Nat /\ Payload[k].at \in Nat
            /\ Retention \in Nat /\ RetryWindow \in Nat /\ RetryWindow < Retention
        BY <1>1, <3>1, KeyTypes, HookFacts, StoreAssumption, WebhookAssumption,
           RetentionAssumption DEF HookState, StoreTypeOK, PayloadType, Date
      <3>4. /\ today <= hook[h].since + 1
            /\ hook[h].since <= Payload[k].sentOn + RetryWindow
            /\ Payload[k].sentOn <= Payload[j].sentOn
        BY <1>1, <2>4, <3>1 DEF ClaimRules, InWindow, SentInOrder
      <3>5. Recorded(j) /\ ledger[j].processed BY <3>2, <3>3, <3>4
      <3>6. /\ ledger[j].provider = Payload[k].provider
            /\ ledger[j].object = ObjectOf(event) /\ ObjectOf(event) # NoId
            /\ Payload[j].at # NoDate => ledger[j].at = Payload[j].at
        BY <2>3, <2>4, <3>1, <3>2, <3>5 DEF SameObject, OrderRules, RowOrder
      <3>7. /\ ledger[j].at = Payload[j].at /\ ledger[j].at # NoDate
            /\ event.at < ledger[j].at
        BY <2>3, <2>4, <3>3, <3>6 DEF Newer, NoDate
      <3>8. NewerProcessed(Payload[k].provider, ObjectOf(event), event.at)
        BY <3>1, <3>5, <3>6, <3>7 DEF NewerProcessed
      <3> QED BY <1>3, <3>8
    <2> HIDE DEF x
    <2>5. HookOrder(x) BY <2>2, <2>3, <2>4 DEF HookOrder
    <2>6. \A j \in x.after : verdict[j] = "settled"
      BY <2>2 DEF OrderRules, AfterSettled
    <2>7. RowOrder' /\ SettledCounts'
      BY <1>1, <1>3 DEF OrderRules, RowOrder, SettledCounts, Recorded, ObjectOfPayload
    <2> HIDE DEF OrderInv
    <2> QED BY <1>3, <2>1, <2>2, <2>5, <2>6, <2>7, OrderMoves
  <1> QED BY <1>2, <1>3 DEF CheckOrder

LEMMA ResolveOrder ==
    ASSUME OrderInv, NEW h \in Handlers, ResolveBySub(h) \/ ResolveByCustomer(h)
    PROVE  OrderRules'
  <1> DEFINE x == hook'[h]
  <1>0. /\ hook[h].pc \in {"bySub", "byCustomer"} /\ UNCHANGED <<today, ledger>>
        /\ Claimed(h) /\ Busy(h) /\ TypeInv /\ TypeInv'
    BY ResolveType DEF ResolveBySub, ResolveByCustomer, storeVars, Claimed, Busy,
                       OrderInv, ClaimInv
  <1>1. hook \in [Handlers -> HookState] /\ hook' \in [Handlers -> HookState]
    BY <1>0 DEF TypeInv, TypeOK
  <1>2. x \in HookState BY <1>1
  <1>3. CASE Reply500(h) /\ Decide(h, "unresolved")
    <2>1. hook' = [hook EXCEPT ![h] = IdleHook] BY <1>3 DEF Reply500
    <2>2. HookOrder(IdleHook) /\ \A j \in IdleHook.after : verdict[j] = "settled"
      BY IdleOrder
    <2>3. /\ \A j \in Payloads : verdict[j] = "settled" => verdict'[j] = "settled"
          /\ RowOrder' /\ SettledCounts'
      BY <1>0, <1>3, DecideOrder
    <2> QED BY <2>1, <2>2, <2>3, OrderMoves, IdleHookType
  <1>4. CASE /\ \/ Goto(h, "byCustomer")
                \/ \E u \in Users :
                      hook' = [hook EXCEPT ![h].user = u,
                                           ![h].pc = AfterUser(hook[h].event)]
             /\ UNCHANGED verdict
    <2>1. /\ hook' = [hook EXCEPT ![h] = x]
          /\ x.key = hook[h].key /\ x.event = hook[h].event /\ x.after = hook[h].after
      <3>1. CASE Goto(h, "byCustomer") BY <1>1, <3>1 DEF Goto, HookState
      <3>2. ASSUME NEW u \in Users,
                   hook' = [hook EXCEPT ![h].user = u,
                                        ![h].pc = AfterUser(hook[h].event)]
            PROVE  /\ hook' = [hook EXCEPT ![h] = x] /\ x.key = hook[h].key
                   /\ x.event = hook[h].event /\ x.after = hook[h].after
        <4> DEFINE y == [hook[h] EXCEPT !.user = u, !.pc = AfterUser(hook[h].event)]
        <4>1. hook' = [hook EXCEPT ![h] = y] BY <1>1, <3>2
        <4>2. /\ y.key = hook[h].key /\ y.event = hook[h].event
              /\ y.after = hook[h].after
          BY <1>1 DEF HookState
        <4> HIDE DEF y
        <4> QED BY <1>1, <4>1, <4>2
      <3> QED BY <1>4, <3>1, <3>2
    <2> HIDE DEF x
    <2> QED BY <1>0, <1>2, <1>4, <2>1, StepOrder
  <1> QED
    BY <1>3, <1>4 DEF ResolveBySub, ResolveByCustomer, UsersByProviderSubID,
                      UsersByProviderCustomerID

LEMMA ReadOrder ==
    ASSUME OrderInv, NEW h \in Handlers,
           ReadPeriod(h) \/ ReadTrial(h) \/ ReadRenewal(h)
    PROVE  OrderRules'
  <1> DEFINE x == hook'[h]
  <1>1. hook \in [Handlers -> HookState] /\ hook' \in [Handlers -> HookState]
    BY ReadType DEF OrderInv, ClaimInv, TypeInv, TypeOK
  <1>2. x \in HookState BY <1>1
  <1>3. /\ hook' = [hook EXCEPT ![h] = x]
        /\ x.key = hook[h].key /\ x.event = hook[h].event /\ x.after = hook[h].after
    <2>1. ASSUME NEW d, hook' = [hook EXCEPT ![h].period = d,
                                             ![h].pc = AfterPeriod(hook[h].event)]
          PROVE  /\ hook' = [hook EXCEPT ![h] = x] /\ x.key = hook[h].key
                 /\ x.event = hook[h].event /\ x.after = hook[h].after
      <3> DEFINE y == [hook[h] EXCEPT !.period = d, !.pc = AfterPeriod(hook[h].event)]
      <3>1. hook' = [hook EXCEPT ![h] = y] BY <1>1, <2>1
      <3>2. /\ y.key = hook[h].key /\ y.event = hook[h].event
            /\ y.after = hook[h].after
        BY <1>1 DEF HookState
      <3> HIDE DEF y
      <3> QED BY <1>1, <3>1, <3>2
    <2>2. CASE ReadPeriod(h) BY <2>1, <2>2 DEF ReadPeriod
    <2>3. CASE ReadTrial(h) BY <1>1, <2>3 DEF ReadTrial, HookState
    <2>4. CASE ReadRenewal(h) BY <1>1, <2>4 DEF ReadRenewal, HookState
    <2> QED BY <2>2, <2>3, <2>4
  <1>4. /\ hook[h].pc \notin {"idle", "record", "order"}
        /\ UNCHANGED <<today, ledger, verdict>>
    BY DEF ReadPeriod, ReadTrial, ReadRenewal, storeVars
  <1> HIDE DEF x
  <1> QED BY <1>2, <1>3, <1>4, StepOrder

LEMMA ApplyOrder ==
    ASSUME OrderInv, NEW h \in Handlers, Apply(h) PROVE OrderRules'
  <1> DEFINE x == [hook[h] EXCEPT !.pc = "mark"]
  <1>1. /\ hook[h].pc = "upsert" /\ Claimed(h)
        /\ hook' = [hook EXCEPT ![h] = x] /\ UNCHANGED <<today, ledger>>
    BY DEF Apply, Goto, Claimed
  <1>2. /\ x \in HookState /\ x.pc = "mark" /\ x.key = hook[h].key
        /\ x.event = hook[h].event /\ x.after = hook[h].after
    BY HookFacts DEF OrderInv, ClaimInv, HookState, Steps
  <1>3. /\ \A j \in Payloads : verdict[j] = "settled" => verdict'[j] = "settled"
        /\ RowOrder' /\ SettledCounts'
    BY <1>1, DecideOrder DEF Apply
  <1> HIDE DEF x
  <1>4. HookOrder(x) /\ \A j \in x.after : verdict[j] = "settled"
    BY <1>1, <1>2 DEF OrderInv, OrderRules, HookOrder, AfterSettled
  <1> QED BY <1>1, <1>2, <1>3, <1>4, OrderMoves

\* A payload is settled and marked in one go where the update cannot fail.
LEMMA MarkOrder ==
    ASSUME "store" \notin Faults, OrderInv, NEW h \in Handlers, Mark(h)
    PROVE  OrderRules'
  <1> DEFINE k == hook[h].key
  <1> USE DEF OrderInv, ClaimInv
  <1>1. /\ hook[h].pc = "mark" /\ k \in Payloads /\ k \in EventKeys
        /\ Recorded(k) /\ Acts(Payload[k])
    <2>1. hook[h].pc = "mark" /\ Claimed(h) /\ Busy(h)
      BY DEF Mark, Claimed, Busy
    <2> QED BY <2>1, HookFacts DEF ClaimRules, ClaimOwned, OrderRules, HookOrder
  <1>2. /\ today' = today /\ verdict'[k] = "settled"
        /\ \A j \in Payloads \ {k} : verdict'[j] = verdict[j]
    BY <1>1 DEF Mark, Decide, TypeInv, TypeOK
  <1>3. /\ \A j \in EventKeys \ {k} : ledger'[j] = ledger[j]
        /\ ledger'[k].recorded /\ ledger'[k].processed
        /\ ledger'[k].provider = ledger[k].provider
        /\ ledger'[k].object = ledger[k].object /\ ledger'[k].at = ledger[k].at
    <2>1. ledger \in [EventKeys -> LedgerRow] /\ ledger[k] \in LedgerRow
      BY <1>1 DEF TypeInv, TypeOK, StoreTypeOK
    <2>2. MarkBillingEventProcessed(k, hook[h].event.user) BY DEF Mark
    <2> QED BY <1>1, <2>1, <2>2 DEF MarkBillingEventProcessed, LedgerRow, Recorded
  <1>4. RowOrder'
    BY <1>1, <1>3, KeyTypes DEF OrderRules, RowOrder, Recorded, ObjectOfPayload
  <1>5. SettledCounts'
    BY <1>1, <1>2, <1>3, KeyTypes DEF OrderRules, SettledCounts, Recorded
  <1>6. hook' = [hook EXCEPT ![h] = IdleHook] BY DEF Mark, Reply200
  <1>7. HookOrder(IdleHook) /\ \A j \in IdleHook.after : verdict[j] = "settled"
    BY IdleOrder
  <1>8. \A j \in Payloads : verdict[j] = "settled" => verdict'[j] = "settled"
    BY <1>2
  <1> HIDE DEF OrderInv
  <1> QED BY <1>4, <1>5, <1>6, <1>7, <1>8, OrderMoves, IdleHookType

\* A request of the webhook path keeps the order.
LEMMA HookNextOrder ==
    ASSUME "store" \notin Faults, SentInOrder, OrderInv, HookNext
    PROVE  OrderInv'
  <1>1. ASSUME NEW h \in Handlers, HookStep(h) PROVE OrderRules'
    BY <1>1, RecordOrder, CheckOrderOrder, ResolveOrder, ReadOrder, ApplyOrder,
       MarkOrder DEF HookStep
  <1>2. OrderRules' BY <1>1, DeliverOrder DEF HookNext, StoreError
  <1> QED BY <1>2, HookNextClaim DEF OrderInv

LEMMA CrashOrder ==
    ASSUME OrderInv, hook' = [h \in Handlers |-> IdleHook],
           UNCHANGED <<storeVars, acked, verdict>>
    PROVE  OrderInv'
  <1>1. ClaimInv' BY CrashClaim DEF OrderInv
  <1>2. AfterSettled' BY DEF AfterSettled, IdleHook
  <1>3. \A h \in Handlers : HookOrder(hook[h])' BY DEF HookOrder, IdleHook
  <1>4. RowOrder' /\ SettledCounts'
    BY DEF OrderInv, OrderRules, RowOrder, SettledCounts, Recorded, ObjectOfPayload,
           storeVars
  <1> QED BY <1>1, <1>2, <1>3, <1>4 DEF OrderInv, OrderRules

\* The clock and the cleanup: what the cleanup takes no longer counts.
LEMMA ClockOrder == ASSUME OrderInv, Tick \/ Prune PROVE OrderInv'
  <1>1. ClaimInv' BY TickClaim, PruneClaim DEF OrderInv
  <1>2. /\ UNCHANGED <<hook, verdict>> /\ today' \in {today, today + 1}
        /\ \A k \in EventKeys :
              \/ ledger'[k] = ledger[k]
              \/ /\ ledger[k].created + Retention < today /\ today' = today
                 /\ ledger'[k] = NoLedgerRow
    BY DEF Tick, Prune, DeleteOldBillingEvents, hookVars
  <1>3. /\ today \in Nat /\ Retention \in Nat
        /\ \A k \in Payloads : ledger[k].created \in Nat /\ Payload[k].sentOn \in Nat
    BY KeyTypes, StoreAssumption
       DEF OrderInv, ClaimInv, TypeInv, TypeOK, StoreTypeOK, LedgerRow, PayloadType, Date
  <1>4. RowOrder'
    BY <1>2, KeyTypes
       DEF OrderInv, OrderRules, RowOrder, Recorded, NoLedgerRow, ObjectOfPayload
  <1>5. SettledCounts'
    <2> SUFFICES ASSUME NEW k \in Payloads, verdict'[k] = "settled"
                 PROVE  /\ Acts(Payload[k])
                        /\ \/ ledger'[k].recorded /\ ledger'[k].processed
                           \/ Payload[k].sentOn + Retention < today'
      BY DEF SettledCounts, Recorded
    <2>1. Acts(Payload[k]) /\ ((Recorded(k) /\ ledger[k].processed)
                               \/ Payload[k].sentOn + Retention < today)
      BY <1>2 DEF OrderInv, OrderRules, SettledCounts
    <2>2. Recorded(k) => Payload[k].sentOn <= ledger[k].created
      BY DEF OrderInv, ClaimInv, ClaimRules, RecordedSince
    <2> QED BY <1>2, <1>3, <2>1, <2>2, KeyTypes DEF Recorded
  <1>6. AfterSettled' BY <1>2 DEF OrderInv, OrderRules, AfterSettled
  <1>7. \A h \in Handlers : HookOrder(hook[h])'
    BY <1>2 DEF OrderInv, OrderRules, HookOrder, SameObject, Newer, ObjectOfPayload
  <1> QED BY <1>1, <1>4, <1>5, <1>6, <1>7 DEF OrderInv, OrderRules

LEMMA InitOrder == ASSUME StoreInit, HookInit PROVE OrderInv
  <1>1. ClaimInv BY InitClaim
  <1>2. OrderRules
    BY KeyTypes, IdleOrder
       DEF StoreInit, HookInit, OrderRules, RowOrder, SettledCounts, AfterSettled,
           NoLedgerRow, Recorded
  <1> QED BY <1>1, <1>2 DEF OrderInv

LEMMA StutterOrder ==
    ASSUME OrderInv, UNCHANGED vars PROVE OrderInv'
  <1>1. ClaimInv' BY StutterClaim DEF OrderInv
  <1>2. OrderRules'
    BY DEF OrderInv, OrderRules, RowOrder, SettledCounts, AfterSettled, HookOrder,
           SameObject, Newer, ObjectOfPayload, Recorded, vars, storeVars, hookVars
  <1> QED BY <1>1, <1>2 DEF OrderInv

\* The goroutine about to write has passed the check.
LEMMA AppliesInOrder ==
    ASSUME OrderInv, NEW h \in Handlers, Applies(h), NEW j \in hook[h].after,
           SameObject(j, hook[h].key)
    PROVE  ~Newer(j, hook[h].key)
  BY DEF OrderInv, OrderRules, HookOrder, Applies

LEMMA OrderInvariant ==
    ASSUME "store" \notin Faults, SentInOrder PROVE Spec => []OrderInv
  <1>1. Init => OrderInv BY InitOrder DEF Init
  <1>2. OrderInv /\ [Next]_vars => OrderInv'
    <2>1. ASSUME OrderInv, Crash PROVE OrderInv' BY <2>1, CrashOrder DEF Crash
    <2> QED BY <2>1, HookNextOrder, ClockOrder, StutterOrder, SentInOrder DEF Next
  <1> QED BY <1>1, <1>2, PTL DEF Spec

\* A late delivery is never applied over a newer one of its object that was
\* settled when it arrived, however many goroutines run, whatever crashes and
\* whatever the cleanup has deleted: the ledger remembers a settled payload for as
\* long as an older one may be sent. Where updates of the ledger can fail this is
\* false, because a failure to mark a payload is only logged.
THEOREM SettledIsNotReplayed ==
    ASSUME "store" \notin Faults, SentInOrder PROVE Spec => NoReplayOverSettled
  <1>1. OrderInv /\ [Next]_vars =>
           [\A h \in Handlers : Applies(h) =>
               \A j \in hook[h].after :
                   SameObject(j, hook[h].key) => ~Newer(j, hook[h].key)]_vars
    BY AppliesInOrder
  <1> QED BY <1>1, OrderInvariant, SentInOrder, PTL DEF Spec, NoReplayOverSettled

----------------------------------------------------------------------------
(* What a 200 stands for *)

\* A payload has been decided about, or its claim is in the hands of a goroutine.
Dealt(k) ==
    verdict[k] # "none" \/ \E h \in Handlers : Claimed(h) /\ hook[h].key = k

\* Without failures nobody loses a claim.
DealtInv ==
    /\ \A k \in acked : Dealt(k)
    /\ \A k \in Payloads : Recorded(k) => Dealt(k)

\* One goroutine moves; its claim is passed on or decided.
LEMMA DealtMoves ==
    ASSUME ClaimInv, DealtInv, NEW h \in Handlers, NEW x,
           hook' = [hook EXCEPT ![h] = x],
           \A k \in Payloads : verdict[k] # "none" => verdict'[k] # "none",
           Claimed(h) => \/ verdict'[hook[h].key] # "none"
                         \/ x.pc \notin {"idle", "record"} /\ x.key = hook[h].key,
           acked' \subseteq Payloads,
           \A k \in Payloads :
               (k \in acked' \ acked) \/ (Recorded(k)' /\ ~Recorded(k))
               => \/ Dealt(k) \/ verdict'[k] # "none"
                  \/ x.pc \notin {"idle", "record"} /\ x.key = k
    PROVE  DealtInv'
  <1>1. \A g \in Handlers : hook'[g] = IF g = h THEN x ELSE hook[g]
    BY DEF ClaimInv, TypeInv, TypeOK
  <1>2. ASSUME NEW k \in Payloads, Dealt(k) PROVE Dealt(k)'
    BY <1>1, <1>2 DEF Dealt, Claimed
  <1>3. ASSUME NEW k \in Payloads, x.pc \notin {"idle", "record"}, x.key = k
        PROVE  Dealt(k)'
    BY <1>1, <1>3 DEF Dealt, Claimed
  <1>4. ASSUME NEW k \in Payloads, verdict'[k] # "none" PROVE Dealt(k)'
    BY <1>4 DEF Dealt
  <1>5. acked \subseteq Payloads BY DEF ClaimInv, TypeInv, TypeOK
  <1>6. \A k \in acked' : Dealt(k)' BY <1>2, <1>3, <1>4, <1>5 DEF DealtInv
  <1>7. \A k \in Payloads : Recorded(k)' => Dealt(k)'
    BY <1>2, <1>3, <1>4 DEF DealtInv
  <1> QED BY <1>6, <1>7 DEF DealtInv

\* Nothing is decided twice or forgotten.
LEMMA DecidedStays ==
    ASSUME ClaimInv, HookNext, NEW k \in Payloads, verdict[k] # "none"
    PROVE  verdict'[k] # "none"
  <1>1. ASSUME NEW h \in Handlers, NEW what, what # "none", Decide(h, what)
        PROVE  verdict'[k] # "none"
    BY <1>1 DEF Decide, ClaimInv, TypeInv, TypeOK
  <1> QED
    BY <1>1 DEF HookNext, HookStep, Deliver, Record, CheckOrder, ResolveBySub,
                ResolveByCustomer, ReadPeriod, ReadTrial, ReadRenewal, Apply, Mark,
                StoreError

LEMMA HookStepDealt ==
    ASSUME ClaimInv, DealtInv, NEW h \in Handlers, HookStep(h)
    PROVE  DealtInv'
  <1> DEFINE k == hook[h].key
             x == hook'[h]
  <1>0. HookNext BY DEF HookNext
  <1>1. ClaimInv' BY <1>0, HookNextClaim
  <1>2. /\ hook \in [Handlers -> HookState] /\ hook' \in [Handlers -> HookState]
        /\ acked \subseteq Payloads /\ acked' \subseteq Payloads
        /\ verdict \in [Payloads -> Verdicts] /\ ledger \in [EventKeys -> LedgerRow]
    BY <1>1 DEF ClaimInv, TypeInv, TypeOK, StoreTypeOK
  <1>3. Busy(h) /\ k \in Payloads /\ k \in EventKeys
    <2>1. Busy(h)
      BY DEF HookStep, Record, CheckOrder, ResolveBySub, ResolveByCustomer,
             ReadPeriod, ReadTrial, ReadRenewal, Apply, Mark, Busy
    <2> QED BY <2>1, HookFacts DEF ClaimInv
  <1>4. \A j \in Payloads : verdict[j] # "none" => verdict'[j] # "none"
    BY <1>0, DecidedStays
  <1>5. hook' = [hook EXCEPT ![h] = x]
    BY <1>2 DEF HookStep, Record, CheckOrder, ResolveBySub, ResolveByCustomer,
                ReadPeriod, ReadTrial, ReadRenewal, Apply, Mark, Reply200, Reply500, Goto
  <1>6. ASSUME NEW what, what # "none", Decide(h, what) PROVE verdict'[k] # "none"
    BY <1>2, <1>3, <1>6 DEF Decide
  <1>7. ASSUME NEW next, next \notin {"idle", "record"}, Goto(h, next)
        PROVE  x.pc \notin {"idle", "record"} /\ x.key = k
    BY <1>2, <1>7 DEF Goto, HookState
  <1>8. Claimed(h) => verdict'[k] # "none"
                      \/ (x.pc \notin {"idle", "record"} /\ x.key = k)
    <2>1. CASE Record(h) BY <2>1 DEF Record, Claimed
    <2>2. CASE CheckOrder(h)
      BY <1>6, <1>7, <2>2, HookFacts DEF CheckOrder, ClaimInv
    <2>3. ASSUME NEW u \in Users,
                 hook' = [hook EXCEPT ![h].user = u, ![h].pc = AfterUser(hook[h].event)]
          PROVE  x.pc \notin {"idle", "record"} /\ x.key = k
      <3> DEFINE y == [hook[h] EXCEPT !.user = u, !.pc = AfterUser(hook[h].event)]
      <3>1. hook' = [hook EXCEPT ![h] = y] BY <1>2, <2>3
      <3>2. y.pc \notin {"idle", "record"} /\ y.key = k
        BY <1>2, HookFacts DEF HookState, ClaimInv
      <3> HIDE DEF y
      <3> QED BY <1>2, <3>1, <3>2
    <2>4. CASE ResolveBySub(h) \/ ResolveByCustomer(h)
      BY <1>6, <1>7, <2>3, <2>4
         DEF ResolveBySub, ResolveByCustomer, UsersByProviderSubID,
             UsersByProviderCustomerID
    <2>5. CASE ReadPeriod(h)
      <3>1. PICK d : hook' = [hook EXCEPT ![h].period = d,
                                          ![h].pc = AfterPeriod(hook[h].event)]
        BY <2>5 DEF ReadPeriod
      <3> DEFINE y == [hook[h] EXCEPT !.period = d, !.pc = AfterPeriod(hook[h].event)]
      <3>2. hook' = [hook EXCEPT ![h] = y] BY <1>2, <3>1
      <3>3. y.pc \notin {"idle", "record"} /\ y.key = k
        BY <1>2 DEF HookState, AfterPeriod
      <3> HIDE DEF y
      <3> QED BY <1>2, <3>2, <3>3
    <2>6. CASE ReadTrial(h) BY <1>2, <2>6 DEF ReadTrial, HookState
    <2>7. CASE ReadRenewal(h) BY <1>2, <2>7 DEF ReadRenewal, HookState
    <2>8. CASE Apply(h) BY <1>6, <2>8 DEF Apply
    <2>9. CASE Mark(h) BY <1>6, <2>9 DEF Mark
    <2> QED BY <2>1, <2>2, <2>4, <2>5, <2>6, <2>7, <2>8, <2>9 DEF HookStep
  <1>9. ASSUME NEW j \in Payloads, j \in acked' \ acked
        PROVE  Dealt(j) \/ verdict'[j] # "none"
    <2>1. j = k BY <1>9 DEF HookStep, Record, CheckOrder, ResolveBySub,
                            ResolveByCustomer, ReadPeriod, ReadTrial, ReadRenewal,
                            Apply, Mark, Reply200, Reply500
    <2>2. CASE Record(h) BY <1>3, <1>6, <2>1, <2>2, <1>9 DEF Record, DealtInv
    <2>3. CASE CheckOrder(h) \/ Mark(h)
      BY <1>6, <1>9, <2>1, <2>3 DEF CheckOrder, Mark
    <2> QED BY <1>9, <2>2, <2>3
            DEF HookStep, ResolveBySub, ResolveByCustomer, ReadPeriod, ReadTrial,
                ReadRenewal, Apply, Reply500
  <1>10. ASSUME NEW j \in Payloads, Recorded(j)', ~Recorded(j)
         PROVE  verdict'[j] # "none" \/ (x.pc \notin {"idle", "record"} /\ x.key = j)
    <2>1. CASE Record(h)
      <3>1. j = k
        BY <1>2, <1>3, <1>10, <2>1, KeyTypes DEF Record, RecordBillingEvent, Recorded
      <3>2. CASE Decide(h, "ignored") BY <1>6, <3>1, <3>2
      <3>3. CASE Goto(h, IF hook[h].event.at # NoDate THEN "order"
                         ELSE AfterOrder(hook[h].event))
        BY <1>7, <3>1, <3>3, HookFacts DEF ClaimInv
      <3> QED BY <1>10, <2>1, <3>2, <3>3, <3>1 DEF Record
    <2>2. CASE Mark(h)
      BY <1>2, <1>3, <1>10, <2>2, KeyTypes
         DEF Mark, MarkBillingEventProcessed, Recorded, LedgerRow
    <2> QED
      BY <1>10, <2>1, <2>2
         DEF HookStep, CheckOrder, ResolveBySub, ResolveByCustomer, ReadPeriod,
             ReadTrial, ReadRenewal, Apply, storeVars, Recorded
  <1> HIDE DEF x
  <1> QED BY <1>2, <1>4, <1>5, <1>8, <1>9, <1>10, DealtMoves

LEMMA DeliverDealt ==
    ASSUME ClaimInv, DealtInv, NEW h \in Handlers, NEW k \in Payloads, Deliver(h, k)
    PROVE  DealtInv'
  <1>1. /\ hook' = [hook EXCEPT ![h] = hook'[h]] /\ ~Claimed(h)
        /\ UNCHANGED <<ledger, verdict, acked>>
    BY DEF Deliver, Busy, Claimed, storeVars, ClaimInv, TypeInv, TypeOK
  <1> QED BY <1>1, DealtMoves DEF Recorded, ClaimInv, TypeInv, TypeOK

\* The cleanup takes no claim away.
LEMMA OthersDealt ==
    ASSUME ClaimInv, DealtInv, Tick \/ Prune \/ UNCHANGED vars PROVE DealtInv'
  <1>1. /\ UNCHANGED <<hook, verdict, acked>>
        /\ \A k \in Payloads : Recorded(k)' => Recorded(k)
    BY KeyTypes DEF Tick, Prune, DeleteOldBillingEvents, vars, storeVars, hookVars,
                    Recorded, NoLedgerRow
  <1> QED BY <1>1 DEF DealtInv, Dealt, Claimed

LEMMA InitDealt == ASSUME StoreInit, HookInit PROVE DealtInv
  BY KeyTypes DEF StoreInit, HookInit, NoLedgerRow, Recorded, DealtInv

LEMMA DealtInvariant ==
    ASSUME "store" \notin Faults, "crash" \notin Faults
    PROVE  Spec => [](ClaimInv /\ DealtInv)
  <1>1. Init => ClaimInv /\ DealtInv BY InitClaim, InitDealt DEF Init
  <1>2. ClaimInv /\ DealtInv /\ [Next]_vars => DealtInv'
    BY HookStepDealt, DeliverDealt, OthersDealt DEF Next, HookNext, StoreError, Crash
  <1> QED BY <1>1, <1>2, ClaimInvariant, PTL DEF Spec

\* Without failures a 200 is the answer to a payload that has been decided about,
\* or whose claim a running request holds: a lost 200 does no harm, nor does any
\* number of deliveries of one payload at once.
THEOREM AckedIsDecided ==
    ASSUME "store" \notin Faults, "crash" \notin Faults
    PROVE  Spec => [](\A k \in acked : Dealt(k))
  <1>1. DealtInv => \A k \in acked : Dealt(k) BY DEF DealtInv
  <1> QED BY <1>1, DealtInvariant, PTL

\* What the theorem asks of the providers: every payload that is acted on names
\* its user.
NamesItsUser ==
    \A k \in Payloads : Acts(Payload[k]) => HandleWebhook(Payload[k], 1).user # NoUser

\* Then no goroutine looks for a user, and no payload is given up for want of one.
UserNamed ==
    /\ \A h \in Handlers :
          /\ hook[h].pc = "record" /\ Acts(Payload[hook[h].key])
                => hook[h].event.user # NoUser
          /\ Claimed(h) => /\ hook[h].event.user # NoUser
                           /\ hook[h].pc \notin {"bySub", "byCustomer"}
    /\ \A k \in Payloads : verdict[k] # "unresolved"

LEMMA DeliverNamed ==
    ASSUME NamesItsUser, TypeInv, UserNamed, NEW h \in Handlers, NEW k \in Payloads,
           Deliver(h, k)
    PROVE  UserNamed'
  <1> DEFINE event == IF Acts(Payload[k]) THEN HandleWebhook(Payload[k], today)
                      ELSE NoEvent
  <1>1. /\ hook'[h].pc = "record" /\ hook'[h].key = k /\ hook'[h].event = event
        /\ \A g \in Handlers \ {h} : hook'[g] = hook[g]
        /\ UNCHANGED verdict
    BY DEF Deliver, IdleHook, TypeInv, TypeOK
  <1>2. Acts(Payload[k]) => event.user # NoUser
    <2>1. HandleWebhook(Payload[k], today).user = HandleWebhook(Payload[k], 1).user
      <3>1. CASE Payload[k].provider = "lemonsqueezy"
        BY <3>1 DEF HandleWebhook, LemonSqueezyEvent
      <3>2. CASE Payload[k].provider # "lemonsqueezy"
        BY <3>2 DEF HandleWebhook, PaystackChargeEvent, PaystackInvoiceEvent,
                    PaystackSubscriptionEvent
      <3> QED BY <3>1, <3>2
    <2> QED BY <2>1 DEF NamesItsUser
  <1> HIDE DEF event
  <1> QED BY <1>1, <1>2 DEF UserNamed, Claimed

LEMMA HookStepNamed ==
    ASSUME TypeInv, UserNamed, NEW h \in Handlers, HookStep(h)
    PROVE  UserNamed'
  <1>1. /\ hook \in [Handlers -> HookState] /\ hook[h] \in HookState
        /\ verdict \in [Payloads -> Verdicts]
    BY DEF TypeInv, TypeOK
  <1>2. ASSUME NEW what, what # "unresolved", UNCHANGED verdict \/ Decide(h, what)
        PROVE  \A k \in Payloads : verdict'[k] # "unresolved"
    BY <1>1, <1>2 DEF Decide, UserNamed
  <1>3. ASSUME NEW x, hook' = [hook EXCEPT ![h] = x],
               \/ x.pc = "idle"
               \/ /\ x.event.user # NoUser
                  /\ x.pc \notin {"record", "bySub", "byCustomer"},
               NEW what, what # "unresolved", UNCHANGED verdict \/ Decide(h, what)
        PROVE  UserNamed'
    BY <1>1, <1>2, <1>3 DEF UserNamed, Claimed
  <1>4. ASSUME hook' = [hook EXCEPT ![h] = IdleHook],
               NEW what, what # "unresolved", UNCHANGED verdict \/ Decide(h, what)
        PROVE  UserNamed'
    BY <1>3, <1>4 DEF IdleHook
  <1>5. ASSUME NEW next, Goto(h, next), hook[h].event.user # NoUser,
               next \notin {"record", "bySub", "byCustomer"},
               NEW what, what # "unresolved", UNCHANGED verdict \/ Decide(h, what)
        PROVE  UserNamed'
    <2> DEFINE x == [hook[h] EXCEPT !.pc = next]
    <2>1. hook' = [hook EXCEPT ![h] = x] BY <1>5 DEF Goto
    <2>2. x.pc = next /\ x.event = hook[h].event BY <1>1 DEF HookState
    <2> HIDE DEF x
    <2> QED BY <1>3, <1>5, <2>1, <2>2
  <1>6. hook[h].event.user # NoUser =>
           AfterOrder(hook[h].event) \notin {"record", "bySub", "byCustomer"}
    BY HookFacts
  <1>7. CASE Record(h)
    <2>1. CASE Reply200(h) /\ (UNCHANGED verdict \/ Decide(h, "ignored"))
      BY <1>4, <2>1 DEF Reply200
    <2>2. CASE /\ Acts(Payload[hook[h].key]) /\ UNCHANGED verdict
               /\ Goto(h, IF hook[h].event.at # NoDate THEN "order"
                          ELSE AfterOrder(hook[h].event))
      <3>1. hook[h].event.user # NoUser BY <1>7, <2>2 DEF Record, UserNamed
      <3> QED BY <1>5, <1>6, <2>2, <3>1
    <2> QED BY <1>7, <2>1, <2>2 DEF Record
  <1>8. CASE CheckOrder(h)
    <2>1. hook[h].event.user # NoUser BY <1>8 DEF CheckOrder, UserNamed, Claimed
    <2>2. CASE Reply200(h) /\ Decide(h, "stale") BY <1>4, <2>2 DEF Reply200
    <2> QED BY <1>5, <1>6, <1>8, <2>1, <2>2 DEF CheckOrder
  <1>9. ~ResolveBySub(h) /\ ~ResolveByCustomer(h)
    BY DEF ResolveBySub, ResolveByCustomer, UserNamed, Claimed
  <1>10. CASE ReadPeriod(h) \/ ReadTrial(h) \/ ReadRenewal(h)
    <2>1. hook[h].event.user # NoUser /\ UNCHANGED verdict
      BY <1>10 DEF ReadPeriod, ReadTrial, ReadRenewal, UserNamed, Claimed
    <2>2. ASSUME NEW x, hook' = [hook EXCEPT ![h] = x], x.event = hook[h].event,
                 x.pc \in {"trial", "renewal", "upsert"}
          PROVE  UserNamed'
      BY <1>3, <2>1, <2>2
    <2>3. CASE ReadPeriod(h)
      <3>1. PICK d : hook' = [hook EXCEPT ![h].period = d,
                                          ![h].pc = AfterPeriod(hook[h].event)]
        BY <2>3 DEF ReadPeriod
      <3> DEFINE x == [hook[h] EXCEPT !.period = d, !.pc = AfterPeriod(hook[h].event)]
      <3>2. hook' = [hook EXCEPT ![h] = x] BY <1>1, <3>1
      <3>3. x.event = hook[h].event /\ x.pc \in {"trial", "renewal"}
        BY <1>1 DEF HookState, AfterPeriod
      <3> HIDE DEF x
      <3> QED BY <2>2, <3>2, <3>3
    <2>4. CASE ReadTrial(h)
      <3> DEFINE x == [hook[h] EXCEPT !.trial = GetSubscription(hook[h].user).trial,
                                      !.pc = "renewal"]
      <3>1. hook' = [hook EXCEPT ![h] = x] BY <1>1, <2>4 DEF ReadTrial
      <3>2. x.event = hook[h].event /\ x.pc = "renewal" BY <1>1 DEF HookState
      <3> HIDE DEF x
      <3> QED BY <2>2, <3>1, <3>2
    <2>5. CASE ReadRenewal(h)
      <3>1. PICK id, b :
               hook' = [hook EXCEPT ![h].pc = "upsert", ![h].renews = b, ![h].sub = id]
        BY <2>5 DEF ReadRenewal
      <3> DEFINE x == [hook[h] EXCEPT !.pc = "upsert", !.renews = b, !.sub = id]
      <3>2. hook' = [hook EXCEPT ![h] = x] BY <1>1, <3>1
      <3>3. x.event = hook[h].event /\ x.pc = "upsert" BY <1>1 DEF HookState
      <3> HIDE DEF x
      <3> QED BY <2>2, <3>2, <3>3
    <2> QED BY <1>10, <2>3, <2>4, <2>5
  <1>11. CASE Apply(h)
    BY <1>5, <1>11 DEF Apply, UserNamed, Claimed
  <1>12. CASE Mark(h) BY <1>4, <1>12 DEF Mark, Reply200
  <1> QED BY <1>7, <1>8, <1>9, <1>10, <1>11, <1>12 DEF HookStep

LEMMA NextNamed ==
    ASSUME "store" \notin Faults, "crash" \notin Faults, NamesItsUser,
           TypeInv, UserNamed, [Next]_vars
    PROVE  UserNamed'
  <1>1. CASE Tick \/ Prune \/ UNCHANGED vars
    <2>1. UNCHANGED <<hook, verdict>> BY <1>1 DEF Tick, Prune, vars, hookVars
    <2> QED BY <2>1 DEF UserNamed, Claimed
  <1> QED
    BY <1>1, DeliverNamed, HookStepNamed DEF Next, HookNext, StoreError, Crash

\* What is acknowledged has been applied, or dropped for a reason, unless a
\* statement fails or the server dies between the claim and the row, or a payload
\* has to look for its user: then the claim may come to nothing and the retry of
\* its payload is acknowledged all the same.
THEOREM AckedIsHandled ==
    ASSUME "store" \notin Faults, "crash" \notin Faults, NamesItsUser
    PROVE  Spec => []AckedWasHandled
  <1>1. Init => UserNamed
    BY DEF Init, HookInit, UserNamed, Claimed, IdleHook
  <1>2. ClaimInv /\ UserNamed /\ [Next]_vars => UserNamed'
    BY NextNamed, NamesItsUser DEF ClaimInv
  <1>3. ClaimInv /\ DealtInv /\ UserNamed => AckedWasHandled
    BY DEF DealtInv, Dealt, UserNamed, AckedWasHandled, Verdicts, ClaimInv, TypeInv,
           TypeOK
  <1> QED BY <1>1, <1>2, <1>3, DealtInvariant, PTL DEF Spec

----------------------------------------------------------------------------
(* The refinement *)

\* Where each payload stands.
LEMMA StageOf ==
    ASSUME NEW k \in Payloads, TypeInv
    PROVE  /\ Stage \in [Payloads -> Promise!Stages]
           /\ Stage[k] = "new" <=> verdict[k] = "none" /\ ~Recorded(k)
           /\ Stage[k] = "claimed" <=> verdict[k] = "none" /\ Recorded(k)
           /\ Stage[k] = "applied" <=> verdict[k] = "applied"
           /\ Stage[k] = "settled" <=> verdict[k] = "settled"
           /\ Stage[k] = "dropped" <=> verdict[k] \in {"ignored", "stale", "unresolved"}
  BY DEF Stage, Promise!Stages, TypeInv, TypeOK, Verdicts

\* The stage of a payload depends on its verdict and on its claim only.
LEMMA StageKept ==
    ASSUME NEW k \in Payloads, verdict'[k] = verdict[k],
           (Recorded(k)' <=> Recorded(k)) \/ verdict[k] # "none"
    PROVE  Stage'[k] = Stage[k]
  BY DEF Stage

LEMMA StageUnchanged ==
    ASSUME UNCHANGED <<ledger, verdict>> PROVE UNCHANGED Stage
  BY DEF Stage, Recorded

\* A step that moves one payload is the ledger's.
LEMMA StageMoves ==
    ASSUME TypeInv, TypeInv', NEW k \in Payloads,
           \A j \in Payloads \ {k} : Stage'[j] = Stage[j],
           \/ Stage[k] = "new" /\ Stage'[k] \in {"claimed", "dropped"}
           \/ Stage[k] = "claimed" /\ Stage'[k] \in {"applied", "dropped"}
           \/ Stage[k] = "applied" /\ Stage'[k] = "settled"
    PROVE  Promise!LedgerNext
  <1>1. Stage \in [Payloads -> Promise!Stages] /\ Stage' \in [Payloads -> Promise!Stages]
    <2>1. Stage = [j \in Payloads |-> Stage[j]] /\ Stage' = [j \in Payloads |-> Stage'[j]]
      BY DEF Stage
    <2>2. \A j \in Payloads : Stage[j] \in Promise!Stages /\ Stage'[j] \in Promise!Stages
      BY DEF Stage, Promise!Stages, TypeInv, TypeOK, Verdicts
    <2> QED BY <2>1, <2>2
  <1>2. Stage' = [Stage EXCEPT ![k] = Stage'[k]] BY <1>1
  <1>3. Promise!Claim(k) \/ Promise!ApplyOnce(k) \/ Promise!Settle(k) \/ Promise!Drop(k)
    BY <1>2 DEF Promise!Claim, Promise!ApplyOnce, Promise!Settle, Promise!Drop
  <1> QED BY <1>3 DEF Promise!LedgerNext

\* The owner of a claim decides about its payload and about no other.
LEMMA DecideStage ==
    ASSUME ClaimInv, TypeInv', NEW h \in Handlers, Claimed(h),
           NEW what \in Verdicts, Decide(h, what),
           \A k \in Payloads : (Recorded(k)' <=> Recorded(k)),
           \/ hook[h].pc # "mark" /\ what \in {"stale", "unresolved", "applied"}
           \/ hook[h].pc = "mark" /\ what = "settled"
    PROVE  Promise!LedgerNext
  <1> DEFINE k == hook[h].key
  <1>1. /\ k \in Payloads /\ Recorded(k)
        /\ verdict[k] = IF hook[h].pc = "mark" THEN "applied" ELSE "none"
    BY HookFacts DEF ClaimInv, ClaimRules, ClaimOwned, Claimed, Busy
  <1>2. verdict'[k] = what /\ \A j \in Payloads \ {k} : verdict'[j] = verdict[j]
    BY <1>1 DEF Decide, ClaimInv, TypeInv, TypeOK
  <1>3. \A j \in Payloads \ {k} : Stage'[j] = Stage[j] BY <1>2, StageKept
  <1>4. /\ hook[h].pc # "mark" => Stage[k] = "claimed"
        /\ hook[h].pc = "mark" => Stage[k] = "applied"
    BY <1>1, StageOf DEF ClaimInv
  <1>5. Stage'[k] = IF what \in {"stale", "unresolved"} THEN "dropped" ELSE what
    BY <1>1, <1>2 DEF Stage
  <1> QED BY <1>1, <1>3, <1>4, <1>5, StageMoves DEF ClaimInv

LEMMA RecordStage ==
    ASSUME ClaimInv, TypeInv', NEW h \in Handlers, Record(h)
    PROVE  Promise!LedgerNext \/ UNCHANGED Stage
  <1> DEFINE k == hook[h].key
             event == hook[h].event
  <1>1. CASE UNCHANGED <<ledger, verdict>> BY <1>1, StageUnchanged
  <1>2. CASE /\ RecordBillingEvent(k, event.user, Payload[k].provider,
                                   ObjectOf(event), event.at)
             /\ UNCHANGED verdict \/ Decide(h, "ignored")
    <2>1. ~Recorded(k) /\ k \in Payloads /\ k \in EventKeys /\ verdict[k] = "none"
      BY <1>2, ClaimIsNew, KeyTypes DEF Record, RecordBillingEvent
    <2>2. ledger'[k].recorded /\ \A j \in Payloads \ {k} : (Recorded(j)' <=> Recorded(j))
      BY <1>2, <2>1, KeyTypes
         DEF RecordBillingEvent, Recorded, ClaimInv, TypeInv, TypeOK, StoreTypeOK
    <2>3. /\ verdict'[k] \in {"none", "ignored"}
          /\ \A j \in Payloads \ {k} : verdict'[j] = verdict[j]
      BY <1>2, <2>1 DEF Decide, ClaimInv, TypeInv, TypeOK
    <2> HIDE DEF k
    <2>4. \A j \in Payloads \ {k} : Stage'[j] = Stage[j] BY <2>2, <2>3, StageKept
    <2>5. Stage[k] = "new" BY <2>1, StageOf DEF ClaimInv
    <2>6. Stage'[k] \in {"claimed", "dropped"}
      BY <2>1, <2>2, <2>3 DEF Stage, Recorded
    <2> QED BY <2>1, <2>4, <2>5, <2>6, StageMoves DEF ClaimInv
  <1> QED BY <1>1, <1>2 DEF Record

LEMMA HookStepStage ==
    ASSUME ClaimInv, TypeInv', NEW h \in Handlers, HookStep(h)
    PROVE  Promise!LedgerNext \/ UNCHANGED Stage
  <1>1. CASE Record(h) BY <1>1, RecordStage
  <1>2. CASE CheckOrder(h)
    BY <1>2, DecideStage, StageUnchanged
       DEF CheckOrder, Claimed, storeVars, Recorded, Verdicts
  <1>3. CASE ResolveBySub(h)
    BY <1>3, StageUnchanged DEF ResolveBySub, storeVars
  <1>4. CASE ResolveByCustomer(h)
    BY <1>4, DecideStage, StageUnchanged
       DEF ResolveByCustomer, Claimed, storeVars, Recorded, Verdicts
  <1>5. CASE ReadPeriod(h) \/ ReadTrial(h) \/ ReadRenewal(h)
    BY <1>5, StageUnchanged DEF ReadPeriod, ReadTrial, ReadRenewal, storeVars
  <1>6. CASE Apply(h)
    BY <1>6, DecideStage DEF Apply, Claimed, Recorded, Verdicts
  <1>7. CASE Mark(h)
    <2>1. \A k \in Payloads : (Recorded(k)' <=> Recorded(k))
      <3>1. \A k \in EventKeys : ledger[k] \in LedgerRow
        BY DEF ClaimInv, TypeInv, TypeOK, StoreTypeOK
      <3>2. hook[h].key \in EventKeys
        BY <1>7, HookFacts DEF ClaimInv, Mark, Busy
      <3>3. CASE UNCHANGED ledger BY <3>3 DEF Recorded
      <3>4. CASE MarkBillingEventProcessed(hook[h].key, hook[h].event.user)
        BY <3>1, <3>2, <3>4, KeyTypes
           DEF MarkBillingEventProcessed, Recorded, LedgerRow, ClaimInv, TypeInv,
               TypeOK, StoreTypeOK
      <3> QED BY <1>7, <3>3, <3>4 DEF Mark
    <2> QED BY <1>7, <2>1, DecideStage DEF Mark, Claimed, Verdicts
  <1> QED BY <1>1, <1>2, <1>3, <1>4, <1>5, <1>6, <1>7 DEF HookStep

\* The cleanup forgets the claims it deletes that nobody acted on.
LEMMA PruneStage ==
    ASSUME ClaimInv, TypeInv', Prune PROVE Promise!LedgerNext
  <1> DEFINE K == {k \in Payloads : Stage[k] = "claimed" /\ ~Recorded(k)'}
  <1>1. UNCHANGED verdict /\ \A k \in Payloads : Recorded(k)' => Recorded(k)
    BY KeyTypes DEF Prune, DeleteOldBillingEvents, hookVars, Recorded, NoLedgerRow
  <1>2. \A k \in K : Stage'[k] = "new"
    <2> TAKE k \in K
    <2>1. verdict[k] = "none" BY StageOf DEF ClaimInv
    <2> QED BY <1>1, <2>1 DEF Stage
  <1>3. \A k \in Payloads \ K : Stage'[k] = Stage[k]
    <2> TAKE k \in Payloads \ K
    <2>1. (Recorded(k)' <=> Recorded(k)) \/ verdict[k] # "none"
      BY <1>1, StageOf DEF ClaimInv
    <2> QED BY <1>1, <2>1, StageKept
  <1>4. Stage' = [k \in Payloads |-> Stage'[k]] BY DEF Stage
  <1>5. Promise!Forget(K) BY <1>2, <1>3, <1>4 DEF Promise!Forget
  <1> QED BY <1>5 DEF Promise!LedgerNext

\* The webhook path keeps the ledger's promise: a payload is claimed, applied,
\* settled or dropped in that order, by one step each, and a retry, a crash or
\* the cleanup undoes nothing but a claim nobody acted on.
THEOREM Refinement == Spec => ImplementsLedger
  <1>1. Init => Promise!LedgerInit
    BY DEF Init, StoreInit, HookInit, NoLedgerRow, Promise!LedgerInit, Stage,
           Recorded, EventKeys
  <1>2. ClaimInv /\ ClaimInv' /\ [Next]_vars => [Promise!LedgerNext]_Stage
    <2> SUFFICES ASSUME ClaimInv, ClaimInv', [Next]_vars
                 PROVE  Promise!LedgerNext \/ UNCHANGED Stage
      OBVIOUS
    <2>1. TypeInv' BY DEF ClaimInv
    <2>2. CASE UNCHANGED <<ledger, verdict>> BY <2>2, StageUnchanged
    <2>3. ASSUME NEW h \in Handlers, HookStep(h)
          PROVE  Promise!LedgerNext \/ UNCHANGED Stage
      BY <2>1, <2>3, HookStepStage
    <2>4. CASE HookNext
      BY <2>2, <2>3, <2>4 DEF HookNext, Deliver, StoreError, storeVars
    <2>5. CASE Crash BY <2>2, <2>5 DEF Crash, storeVars
    <2>6. CASE Tick BY <2>2, <2>6 DEF Tick, hookVars
    <2>7. CASE Prune BY <2>1, <2>7, PruneStage
    <2>8. CASE UNCHANGED vars BY <2>2, <2>8 DEF vars, storeVars, hookVars
    <2> QED BY <2>4, <2>5, <2>6, <2>7, <2>8 DEF Next
  <1> QED
    BY <1>1, <1>2, ClaimInvariant, PTL DEF Spec, ImplementsLedger, Promise!LedgerSpec
=============================================================================
