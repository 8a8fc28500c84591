--------------------------- MODULE BillingProofs ---------------------------
(***************************************************************************)
(* Theorems about what is written into a user's row: what the webhook path *)
(* never writes, and the composed billing subsystem, where the webhook     *)
(* path's hold next to verify and cancel requests, a reference buys one    *)
(* period, and what is shown as cancelled has been stopped.                *)
(***************************************************************************)
EXTENDS Billing, WebhookProofs

(* Plans *)

\* Only Apply writes rows, and it derives the plan from the status.
LEMMA ApplyEntitled ==
    ASSUME TypeInv, EntitledPlan, NEW h \in Handlers, Apply(h) PROVE EntitledPlan'
  <1> DEFINE row == WebhookRow(hook[h])
  <1>1. row.plan = "pro" => IsEntitledStatus(row.status) BY DEF WebhookRow
  <1>2. subs' = [subs EXCEPT ![hook[h].user] = [row EXCEPT !.stored = TRUE]]
    BY DEF Apply, UpsertSubscription
  <1>3. /\ [row EXCEPT !.stored = TRUE].plan = row.plan
        /\ [row EXCEPT !.stored = TRUE].status = row.status
    BY DEF WebhookRow
  <1> HIDE DEF row
  <1> QED BY <1>1, <1>2, <1>3 DEF EntitledPlan, TypeInv, TypeOK, StoreTypeOK

LEMMA HookNextEntitled ==
    ASSUME TypeInv, EntitledPlan, HookNext PROVE EntitledPlan'
  <1>1. ASSUME NEW h \in Handlers, HookStep(h), ~Apply(h) PROVE UNCHANGED subs
    BY <1>1 DEF HookStep, Record, CheckOrder, ResolveBySub, ResolveByCustomer,
                ReadPeriod, ReadTrial, ReadRenewal, Mark, storeVars
  <1>2. ASSUME UNCHANGED subs PROVE EntitledPlan' BY <1>2 DEF EntitledPlan
  <1>3. ASSUME NEW h \in Handlers, StoreError(h) \/ \E k \in Payloads : Deliver(h, k)
        PROVE  UNCHANGED subs
    BY <1>3 DEF StoreError, Deliver, storeVars
  <1> QED BY <1>1, <1>2, <1>3, ApplyEntitled DEF HookNext

\* However deliveries, retries, crashes and reads interleave, a stored row that
\* says Pro has a status that is entitled to it.
THEOREM PlanIsEntitled == Spec => []EntitledPlan
  <1> DEFINE Inv == TypeInv /\ EntitledPlan
  <1>1. Init => Inv
    BY InitType DEF Init, StoreInit, DefaultSubscription, EntitledPlan
  <1>2. Inv /\ [Next]_vars => Inv'
    <2> SUFFICES ASSUME Inv, [Next]_vars PROVE Inv' OBVIOUS
    <2>1. CASE HookNext BY <2>1, HookNextType, HookNextEntitled
    <2>2. CASE Crash
      BY <2>2, CrashType DEF Crash, EntitledPlan, storeVars
    <2>3. CASE Tick BY <2>3, TickType DEF Tick, EntitledPlan
    <2>4. CASE Prune
      BY <2>4, PruneStepType DEF Prune, DeleteOldBillingEvents, EntitledPlan
    <2>5. CASE UNCHANGED vars
      BY <2>5, StutterType DEF vars, storeVars, EntitledPlan
    <2> QED BY <2>1, <2>2, <2>3, <2>4, <2>5 DEF Next
  <1>3. Inv => EntitledPlan OBVIOUS
  <1> QED BY <1>1, <1>2, <1>3, PTL DEF Spec

----------------------------------------------------------------------------
(* Periods *)

\* What the theorem asks of the providers: an event that names its user carries
\* a period. The events without one, failed renewals, have to find the user by
\* the row the period is in.
PeriodOrNoUser ==
    \A k \in Payloads, d \in Date :
        Acts(Payload[k]) =>
            \/ HandleWebhook(Payload[k], d).period # NoDate
            \/ HandleWebhook(Payload[k], d).user = NoUser

\* The period a goroutine is going to write is the event's or the stored one.
PeriodHeld ==
    \A h \in Handlers :
        /\ Busy(h) => hook[h].event.period # NoDate \/ hook[h].event.user = NoUser
        /\ hook[h].pc \in {"record", "order", "bySub", "byCustomer"}
              => hook[h].period = hook[h].event.period
        /\ hook[h].pc = "period" => subs[hook[h].user].stored
        /\ hook[h].pc \in {"trial", "renewal", "upsert"} => hook[h].period # NoDate

PeriodInv == TypeInv /\ PeriodHeld /\ PeriodKnown

\* One goroutine moves and no row changes.
LEMMA PeriodMoves ==
    ASSUME PeriodInv, NEW h \in Handlers, NEW x \in HookState,
           hook' = [hook EXCEPT ![h] = x], UNCHANGED subs,
           x.pc # "idle" => x.event.period # NoDate \/ x.event.user = NoUser,
           x.pc \in {"record", "order", "bySub", "byCustomer"}
              => x.period = x.event.period,
           x.pc = "period" => subs[x.user].stored,
           x.pc \in {"trial", "renewal", "upsert"} => x.period # NoDate
    PROVE  PeriodHeld' /\ PeriodKnown'
  BY DEF PeriodInv, TypeInv, TypeOK, PeriodHeld, PeriodKnown, Busy

LEMMA DeliverPeriod ==
    ASSUME PeriodOrNoUser, PeriodInv, NEW h \in Handlers, NEW k \in Payloads,
           Deliver(h, k)
    PROVE  PeriodHeld' /\ PeriodKnown'
  <1>1. TypeInv' BY DeliverType DEF PeriodInv
  <1> DEFINE x == hook'[h]
             event == IF Acts(Payload[k]) THEN HandleWebhook(Payload[k], today)
                      ELSE NoEvent
  <1>2. /\ hook' = [hook EXCEPT ![h] = x] /\ x \in HookState /\ x.pc = "record"
        /\ x.event = event /\ x.period = event.period /\ UNCHANGED subs
    BY <1>1 DEF Deliver, IdleHook, PeriodInv, TypeInv, TypeOK, storeVars
  <1>3. event.period # NoDate \/ event.user = NoUser
    BY DEF PeriodOrNoUser, NoEvent, PeriodInv, TypeInv, TypeOK, StoreTypeOK
  <1> HIDE DEF x, event
  <1> QED BY <1>2, <1>3, PeriodMoves

LEMMA IdlePeriod ==
    ASSUME PeriodInv, NEW h \in Handlers, hook' = [hook EXCEPT ![h] = IdleHook],
           UNCHANGED subs
    PROVE  PeriodHeld' /\ PeriodKnown'
  BY IdleHookType, PeriodMoves DEF IdleHook

\* After the claim, and after a lookup that found a stored row, the goroutine
\* reads the period exactly when the event has none.
LEMMA BeforeLookups ==
    ASSUME PeriodInv, NEW h \in Handlers, hook[h].pc \in {"record", "order"},
           NEW step \in {"order", AfterOrder(hook[h].event)}, Goto(h, step),
           UNCHANGED subs
    PROVE  PeriodHeld' /\ PeriodKnown'
  <1> DEFINE x == [hook[h] EXCEPT !.pc = step]
  <1>1. /\ Busy(h) /\ hook[h] \in HookState
        /\ hook[h].event.period # NoDate \/ hook[h].event.user = NoUser
        /\ hook[h].period = hook[h].event.period
    BY HookFacts DEF PeriodInv, PeriodHeld, Busy
  <1>2. hook' = [hook EXCEPT ![h] = x] BY DEF Goto
  <1>3. /\ x \in HookState /\ x.event = hook[h].event /\ x.period = hook[h].period
        /\ x.pc = step
    BY <1>1, HookFacts DEF PeriodInv, HookState, Steps
  <1>4. \/ step \in {"order", "bySub"}
        \/ hook[h].event.period # NoDate /\ step \in {"trial", "renewal"}
    BY <1>1 DEF AfterOrder, AfterUser, AfterPeriod
  <1> HIDE DEF x
  <1> QED BY <1>1, <1>2, <1>3, <1>4, PeriodMoves

LEMMA ResolvePeriod ==
    ASSUME PeriodInv, NEW h \in Handlers, ResolveBySub(h) \/ ResolveByCustomer(h)
    PROVE  PeriodHeld' /\ PeriodKnown'
  <1>1. /\ Busy(h) /\ hook[h] \in HookState /\ UNCHANGED subs
        /\ hook[h].event.period # NoDate \/ hook[h].event.user = NoUser
        /\ hook[h].period = hook[h].event.period
    BY HookFacts
       DEF PeriodInv, PeriodHeld, Busy, ResolveBySub, ResolveByCustomer, storeVars
  <1>2. CASE Reply500(h) BY <1>1, <1>2, IdlePeriod DEF Reply500
  <1>3. CASE Goto(h, "byCustomer")
    <2> DEFINE x == [hook[h] EXCEPT !.pc = "byCustomer"]
    <2>1. hook' = [hook EXCEPT ![h] = x] BY <1>3 DEF Goto
    <2>2. /\ x \in HookState /\ x.event = hook[h].event
          /\ x.period = hook[h].period /\ x.pc = "byCustomer"
      BY <1>1 DEF HookState, Steps
    <2> HIDE DEF x
    <2> QED BY <1>1, <2>1, <2>2, PeriodMoves
  <1>4. CASE \E u \in Users :
                /\ subs[u].stored
                /\ hook' = [hook EXCEPT ![h].user = u,
                                        ![h].pc = AfterUser(hook[h].event)]
    <2>1. PICK u \in Users :
             /\ subs[u].stored
             /\ hook' = [hook EXCEPT ![h].user = u,
                                     ![h].pc = AfterUser(hook[h].event)]
      BY <1>4
    <2> DEFINE x == [hook[h] EXCEPT !.user = u, !.pc = AfterUser(hook[h].event)]
    <2>2. hook' = [hook EXCEPT ![h] = x] BY <2>1, HookFacts DEF PeriodInv
    <2>3. /\ x \in HookState /\ x.event = hook[h].event /\ x.period = hook[h].period
          /\ x.user = u /\ x.pc = AfterUser(hook[h].event)
      BY <1>1, HookFacts DEF PeriodInv, HookState, Steps
    <2>4. /\ x.pc \in {"period", "trial", "renewal"}
          /\ x.pc # "period" => x.period # NoDate
      BY <1>1, <2>3 DEF AfterUser, AfterPeriod
    <2> HIDE DEF x
    <2>5. /\ x.event.period # NoDate \/ x.event.user = NoUser
          /\ subs[x.user].stored
      BY <1>1, <2>1, <2>3
    <2>6. x \in HookState /\ UNCHANGED subs BY <1>1, <2>3
    <2> QED BY <2>2, <2>4, <2>5, <2>6, PeriodMoves
  <1> QED
    BY <1>2, <1>3, <1>4
       DEF ResolveBySub, ResolveByCustomer, UsersByProviderSubID,
           UsersByProviderCustomerID

\* The read-time checks leave the period alone.
LEMMA ReadsPeriod ==
    ASSUME StoreTypeOK, NEW u \in Users
    PROVE  /\ GetSubscription(u).period = subs[u].period
           /\ GetSubscription(u).stored = subs[u].stored
  <1>1. subs[u] \in Subscription BY DEF StoreTypeOK
  <1>2. /\ PeriodChecked(subs[u]) \in Subscription
        /\ PeriodChecked(subs[u]).period = subs[u].period
        /\ PeriodChecked(subs[u]).stored = subs[u].stored
    BY <1>1 DEF PeriodChecked, Subscription, Plans, Statuses
  <1>3. \A row \in Subscription : /\ TrialChecked(row).period = row.period
                                 /\ TrialChecked(row).stored = row.stored
    BY DEF TrialChecked, Subscription
  <1> QED BY <1>2, <1>3 DEF GetSubscription

\* Without store errors the period read is the stored one.
LEMMA ReadPeriodKept ==
    ASSUME "store" \notin Faults, PeriodInv, NEW h \in Handlers,
           ReadPeriod(h) \/ ReadTrial(h) \/ ReadRenewal(h)
    PROVE  PeriodHeld' /\ PeriodKnown'
  <1>1. TypeInv' BY ReadType DEF PeriodInv
  <1>2. /\ hook[h] \in HookState /\ hook'[h] \in HookState
        /\ hook \in [Handlers -> HookState] /\ UNCHANGED subs
        /\ hook[h].event.period # NoDate \/ hook[h].event.user = NoUser
    BY <1>1 DEF PeriodInv, PeriodHeld, TypeInv, TypeOK, Busy, ReadPeriod, ReadTrial,
                ReadRenewal, storeVars
  <1>3. /\ hook' = [hook EXCEPT ![h] = hook'[h]]
        /\ hook'[h].event = hook[h].event
        /\ hook'[h].pc \in {"trial", "renewal", "upsert"} /\ hook'[h].period # NoDate
    <2>1. CASE ReadPeriod(h)
      <3>1. hook[h].user \in Users /\ subs[hook[h].user].stored
        BY <2>1, HookFacts DEF ReadPeriod, PeriodInv, PeriodHeld, KnowsUser
      <3>2. GetSubscription(hook[h].user).period = subs[hook[h].user].period
        BY <3>1, ReadsPeriod DEF PeriodInv, TypeInv, TypeOK
      <3>3. GetSubscription(hook[h].user).period # NoDate
        BY <3>1, <3>2 DEF PeriodInv, PeriodKnown
      <3>4. hook' = [hook EXCEPT ![h].period = GetSubscription(hook[h].user).period,
                                 ![h].pc = AfterPeriod(hook[h].event)]
        BY <2>1 DEF ReadPeriod
      <3> QED BY <1>2, <3>3, <3>4 DEF HookState, AfterPeriod
    <2>2. CASE ReadTrial(h)
      BY <1>2, <2>2 DEF ReadTrial, HookState, PeriodInv, PeriodHeld
    <2>3. CASE ReadRenewal(h)
      BY <1>2, <2>3 DEF ReadRenewal, HookState, PeriodInv, PeriodHeld
    <2> QED BY <2>1, <2>2, <2>3
  <1> QED BY <1>2, <1>3, PeriodMoves

\* The row written has the period held, and no row changes to unstored.
LEMMA ApplyPeriod ==
    ASSUME PeriodInv, NEW h \in Handlers, Apply(h)
    PROVE  PeriodHeld' /\ PeriodKnown'
  <1> DEFINE row == [WebhookRow(hook[h]) EXCEPT !.stored = TRUE]
  <1>1. /\ Busy(h) /\ hook[h] \in HookState /\ hook[h].user \in Users
        /\ hook[h].key \in Payloads /\ hook[h].period # NoDate
        /\ hook[h].event.period # NoDate \/ hook[h].event.user = NoUser
    BY HookFacts DEF PeriodInv, PeriodHeld, Busy, Apply, KnowsUser
  <1>2. row.stored /\ row.period # NoDate
    BY <1>1 DEF WebhookRow
  <1>3. subs' = [subs EXCEPT ![hook[h].user] = row]
    BY DEF Apply, UpsertSubscription
  <1>4. \A g \in Handlers : hook'[g] = IF g = h THEN [hook[h] EXCEPT !.pc = "mark"]
                                       ELSE hook[g]
    BY HookFacts DEF Apply, Goto, PeriodInv
  <1> HIDE DEF row
  <1>5. PeriodKnown'
    BY <1>2, <1>3 DEF PeriodInv, PeriodKnown, TypeInv, TypeOK, StoreTypeOK
  <1>6. \A u \in Users : subs[u].stored => subs'[u].stored
    BY <1>2, <1>3 DEF PeriodInv, TypeInv, TypeOK, StoreTypeOK
  <1>7. PeriodHeld'
    <2> SUFFICES ASSUME NEW g \in Handlers
                 PROVE  (/\ Busy(g) => hook[g].event.period # NoDate \/ hook[g].event.user = NoUser
                         /\ hook[g].pc \in {"record", "order", "bySub", "byCustomer"}
                               => hook[g].period = hook[g].event.period
                         /\ hook[g].pc = "period" => subs[hook[g].user].stored
                         /\ hook[g].pc \in {"trial", "renewal", "upsert"}
                               => hook[g].period # NoDate)'
      BY DEF PeriodHeld
    <2>1. CASE g = h
      BY <1>1, <1>4, <2>1 DEF Busy, HookState
    <2>2. CASE g # h
      BY <1>4, <1>6, <2>2, HookFacts DEF PeriodInv, PeriodHeld, Busy, KnowsUser
    <2> QED BY <2>1, <2>2
  <1> QED BY <1>5, <1>7

\* A request of the webhook path keeps the periods.
LEMMA HookNextPeriod ==
    ASSUME "store" \notin Faults, PeriodOrNoUser, PeriodInv, HookNext
    PROVE  PeriodInv'
  <1>1. ASSUME NEW h \in Handlers, HookStep(h) PROVE PeriodHeld' /\ PeriodKnown'
    <2>1. CASE Record(h)
      BY <2>1, IdlePeriod, BeforeLookups DEF Record, Reply200
    <2>2. CASE CheckOrder(h)
      BY <2>2, IdlePeriod, BeforeLookups DEF CheckOrder, Reply200, storeVars
    <2>3. CASE Mark(h) BY <2>3, IdlePeriod DEF Mark, Reply200
    <2> QED
      BY <1>1, <2>1, <2>2, <2>3, ResolvePeriod, ReadPeriodKept, ApplyPeriod
         DEF HookStep
  <1>2. PeriodHeld' /\ PeriodKnown'
    BY <1>1, DeliverPeriod, PeriodOrNoUser DEF HookNext, StoreError
  <1> QED BY <1>2, HookNextType DEF PeriodInv

\* So do all steps that leave the rows and the goroutines alone, and a crash.
LEMMA OthersPeriod ==
    ASSUME PeriodInv, TypeInv', UNCHANGED subs,
           \/ UNCHANGED hook
           \/ hook' = [h \in Handlers |-> IdleHook]
    PROVE  PeriodInv'
  BY DEF PeriodInv, PeriodHeld, PeriodKnown, Busy, IdleHook

LEMMA InitPeriod == ASSUME StoreInit, HookInit PROVE PeriodInv
  BY InitType DEF StoreInit, HookInit, DefaultSubscription, IdleHook, PeriodInv,
                  PeriodHeld, PeriodKnown, Busy

\* As long as no statement of the store fails, every stored subscription has a
\* period, so the read-time expiry applies to all of them. A failed read at
\* billing.go:357 is what the theorem has to exclude.
THEOREM PeriodIsKnown ==
    ASSUME "store" \notin Faults, PeriodOrNoUser
    PROVE  Spec => []PeriodKnown
  <1>1. Init => PeriodInv BY InitPeriod DEF Init
  <1>2. PeriodInv /\ [Next]_vars => PeriodInv'
    <2> SUFFICES ASSUME PeriodInv, [Next]_vars PROVE PeriodInv' OBVIOUS
    <2>1. CASE HookNext BY <2>1, HookNextPeriod, PeriodOrNoUser
    <2>2. CASE Crash
      BY <2>2, CrashType, OthersPeriod DEF Crash, storeVars, PeriodInv
    <2>3. CASE Tick BY <2>3, TickType, OthersPeriod DEF Tick, hookVars, PeriodInv
    <2>4. CASE Prune
      BY <2>4, PruneStepType, OthersPeriod
         DEF Prune, DeleteOldBillingEvents, hookVars, PeriodInv
    <2>5. CASE UNCHANGED vars
      BY <2>5, StutterType, OthersPeriod DEF vars, storeVars, hookVars, PeriodInv
    <2> QED BY <2>1, <2>2, <2>3, <2>4, <2>5 DEF Next
  <1>3. PeriodInv => PeriodKnown BY DEF PeriodInv
  <1> QED BY <1>1, <1>2, <1>3, PTL DEF Spec

----------------------------------------------------------------------------
(* Type correctness *)

\* A request that is running has a reference and a user.
VerifyFound ==
    \A c \in Callers : Verifying(c) => verify[c].ref \in References /\ verify[c].user \in Users

CancelFound == \A c \in Cancellers : Cancelling(c) => cancel[c].user \in Users

BillingTypeInv ==
    TypeInv /\ CheckoutTypeOK /\ CancellationTypeOK /\ VerifyFound /\ CancelFound

LEMMA ReferenceTypes ==
    /\ References \subseteq EventKeys /\ References \subseteq Ids
    /\ References \cap Payloads = {}
    /\ NoId \notin References /\ NoUser \notin Users
    /\ \A r \in References : Transaction[r] \in TransactionType
  BY StoreAssumption, CheckoutAssumption, ProviderAssumption DEF EventKeys

\* The webhook's types do not depend on the other requests.
LEMMA StoreChanges ==
    ASSUME TypeInv, StoreTypeOK', UNCHANGED hookVars PROVE TypeInv'
  BY DEF TypeInv, TypeOK, hookVars, BusyKey, Busy, UserFound, KnowsUser

\* One caller moves.
LEMMA CallerMoves ==
    ASSUME BillingTypeInv, NEW c \in Callers, NEW x \in VerifyState,
           verify' = [verify EXCEPT ![c] = x],
           x.pc # "idle" => x.ref \in References /\ x.user \in Users
    PROVE  verify' \in [Callers -> VerifyState] /\ VerifyFound'
  BY DEF BillingTypeInv, CheckoutTypeOK, VerifyFound, Verifying

LEMMA IdleVerifyType == IdleVerify \in VerifyState /\ IdleVerify.pc = "idle"
  BY DEF IdleVerify, VerifyState, Date, NoDate

LEMMA CallerFacts ==
    ASSUME BillingTypeInv, NEW c \in Callers
    PROVE  /\ StoreTypeOK /\ verify[c] \in VerifyState
           /\ verify \in [Callers -> VerifyState]
           /\ granted \in [References -> Date] /\ told200 \subseteq References
           /\ Verifying(c) => /\ verify[c].ref \in References
                              /\ verify[c].ref \in EventKeys
                              /\ verify[c].user \in Users
  BY ReferenceTypes
     DEF BillingTypeInv, TypeInv, TypeOK, CheckoutTypeOK, VerifyFound

LEMMA VerifyReplyType ==
    ASSUME BillingTypeInv, NEW c \in Callers, NEW told, told \subseteq References,
           VerifyReply(c, told)
    PROVE  /\ verify' \in [Callers -> VerifyState] /\ VerifyFound'
           /\ told200' \subseteq References
  BY CallerMoves, CallerFacts, IdleVerifyType DEF VerifyReply

LEMMA VerifyGotoType ==
    ASSUME BillingTypeInv, NEW c \in Callers, Verifying(c),
           NEW step \in VerifySteps, VerifyGoto(c, step)
    PROVE  verify' \in [Callers -> VerifyState] /\ VerifyFound'
  <1> DEFINE x == [verify[c] EXCEPT !.pc = step]
  <1>1. verify' = [verify EXCEPT ![c] = x] BY DEF VerifyGoto
  <1>2. x \in VerifyState /\ x.ref = verify[c].ref /\ x.user = verify[c].user
    BY CallerFacts DEF VerifyState
  <1> HIDE DEF x
  <1> QED BY <1>1, <1>2, CallerMoves, CallerFacts

\* What the steps of a verify request may change.
VerifyFrame == UNCHANGED <<hookVars, cancelVars>>

LEMMA SubmitType ==
    ASSUME BillingTypeInv, NEW c \in Callers, NEW u \in Users, NEW r \in References,
           Submit(c, u, r), VerifyFrame
    PROVE  BillingTypeInv'
  <1> DEFINE x == [IdleVerify EXCEPT !.pc = "replay", !.ref = r, !.user = u,
                                     !.since = today]
  <1>1. verify' = [verify EXCEPT ![c] = x] BY DEF Submit
  <1>2. x \in VerifyState /\ x.ref = r /\ x.user = u
    BY CallerFacts DEF IdleVerify, VerifyState, VerifySteps, StoreTypeOK, Date, NoDate
  <1> HIDE DEF x
  <1>3. verify' \in [Callers -> VerifyState] /\ VerifyFound'
    BY <1>1, <1>2, CallerMoves
  <1>4. TypeInv'
    BY StoreChanges DEF BillingTypeInv, Submit, VerifyFrame, storeVars, TypeInv,
                        TypeOK, StoreTypeOK
  <1> QED
    BY <1>3, <1>4 DEF Submit, VerifyFrame, BillingTypeInv, CheckoutTypeOK,
                      CancellationTypeOK, CancelFound, Cancelling, cancelVars

LEMMA CheckReplayType ==
    ASSUME BillingTypeInv, NEW c \in Callers, CheckReplay(c), VerifyFrame
    PROVE  BillingTypeInv'
  <1>1. verify' \in [Callers -> VerifyState] /\ VerifyFound' /\ told200' \subseteq References
    BY VerifyReplyType, VerifyGotoType, CallerFacts
       DEF CheckReplay, Verifying, VerifySteps
  <1>2. TypeInv'
    BY StoreChanges DEF BillingTypeInv, CheckReplay, VerifyFrame, storeVars, TypeInv,
                        TypeOK, StoreTypeOK
  <1> QED
    BY <1>1, <1>2 DEF CheckReplay, VerifyFrame, BillingTypeInv, CheckoutTypeOK,
                      CancellationTypeOK, CancelFound, Cancelling, cancelVars

LEMMA ClaimReferenceType ==
    ASSUME BillingTypeInv, NEW c \in Callers, ClaimReference(c), VerifyFrame
    PROVE  BillingTypeInv'
  <1> DEFINE r == verify[c].ref
  <1>1. Verifying(c) /\ r \in References /\ r \in EventKeys /\ verify[c].user \in Users
    BY CallerFacts DEF ClaimReference, Verifying
  <1>2. verify' \in [Callers -> VerifyState] /\ VerifyFound' /\ told200' \subseteq References
    BY <1>1, VerifyReplyType, VerifyGotoType, CallerFacts
       DEF ClaimReference, VerifySteps
  <1>3. ledger' \in [EventKeys -> LedgerRow]
    <2>1. CASE UNCHANGED ledger BY <2>1, CallerFacts DEF StoreTypeOK
    <2>2. CASE RecordBillingEvent(r, verify[c].user, "paystack",
                                  Transaction[r].customer, NoDate)
      <3>1. Transaction[r].customer \in Ids \cup {NoId}
        BY <1>1, ReferenceTypes DEF TransactionType
      <3> QED
        BY <1>1, <2>2, <3>1, RecordType, CallerFacts DEF ProviderNames, Date, NoDate
    <2> QED BY <2>1, <2>2 DEF ClaimReference
  <1>4. TypeInv'
    BY <1>3, StoreChanges DEF BillingTypeInv, ClaimReference, VerifyFrame, TypeInv,
                              TypeOK, StoreTypeOK
  <1> QED
    BY <1>2, <1>4 DEF ClaimReference, VerifyFrame, BillingTypeInv, CheckoutTypeOK,
                      CancellationTypeOK, CancelFound, Cancelling, cancelVars

LEMMA ReadBaseType ==
    ASSUME BillingTypeInv, NEW c \in Callers, ReadBase(c), VerifyFrame
    PROVE  BillingTypeInv'
  <1> DEFINE left == GetSubscription(verify[c].user).period
  <1>1. Verifying(c) /\ verify[c].ref \in References /\ verify[c].user \in Users
    BY CallerFacts DEF ReadBase, Verifying
  <1>2. left \in Date /\ today \in Date
    BY <1>1, GetSubscriptionType, CallerFacts DEF Subscription, StoreTypeOK
  <1>3. PICK base \in Date :
           verify' = [verify EXCEPT ![c].base = base, ![c].pc = "grant"]
    BY <1>2 DEF ReadBase
  <1> DEFINE x == [verify[c] EXCEPT !.base = base, !.pc = "grant"]
  <1>4. verify' = [verify EXCEPT ![c] = x] BY <1>3, CallerFacts
  <1>5. x \in VerifyState /\ x.ref = verify[c].ref /\ x.user = verify[c].user
    BY CallerFacts DEF VerifyState, VerifySteps
  <1> HIDE DEF x
  <1>6. verify' \in [Callers -> VerifyState] /\ VerifyFound'
    BY <1>1, <1>4, <1>5, CallerMoves
  <1>7. TypeInv'
    BY StoreChanges DEF BillingTypeInv, ReadBase, VerifyFrame, storeVars, TypeInv,
                        TypeOK, StoreTypeOK
  <1> QED
    BY <1>6, <1>7 DEF ReadBase, VerifyFrame, BillingTypeInv, CheckoutTypeOK,
                      CancellationTypeOK, CancelFound, Cancelling, cancelVars

LEMMA PaidRowType ==
    ASSUME NEW x \in VerifyState, x.ref \in References
    PROVE  PaidRow(x) \in Subscription
  <1>1. /\ Transaction[x.ref] \in TransactionType /\ x.ref \in Ids /\ x.base \in Nat
    BY ReferenceTypes DEF VerifyState, Date
  <1>2. PaystackBillingPeriod(Transaction[x.ref].interval) \in Nat
    BY ProviderAssumption DEF PaystackBillingPeriod
  <1>3. x.base + PaystackBillingPeriod(Transaction[x.ref].interval) \in Date
    BY <1>1, <1>2 DEF Date
  <1>4. "active" \in Statuses /\ "pro" \in Plans /\ "paystack" \in ProviderNames
        /\ NoDate \in Date
    BY DEF Statuses, StatusWords, Plans, ProviderNames, Date, NoDate
  <1> QED BY <1>1, <1>3, <1>4 DEF PaidRow, Subscription, TransactionType

LEMMA GrantType ==
    ASSUME BillingTypeInv, NEW c \in Callers, Grant(c), VerifyFrame
    PROVE  BillingTypeInv'
  <1>1. Verifying(c) /\ verify[c].ref \in References /\ verify[c].user \in Users
    BY CallerFacts DEF Grant, Verifying
  <1>2. subs' \in [Users -> Subscription]
    BY <1>1, PaidRowType, UpsertType, CallerFacts DEF Grant
  <1>3. verify' \in [Callers -> VerifyState] /\ VerifyFound' /\ told200' \subseteq References
    BY <1>1, VerifyReplyType DEF Grant
  <1>4. granted' \in [References -> Date]
    BY <1>1, CallerFacts DEF Grant, StoreTypeOK
  <1>5. TypeInv'
    BY <1>2, StoreChanges DEF BillingTypeInv, Grant, VerifyFrame, TypeInv, TypeOK,
                              StoreTypeOK
  <1> QED
    BY <1>3, <1>4, <1>5 DEF Grant, VerifyFrame, BillingTypeInv, CheckoutTypeOK,
                      CancellationTypeOK, CancelFound, Cancelling, cancelVars

LEMMA VerifyErrorType ==
    ASSUME BillingTypeInv, NEW c \in Callers, VerifyError(c), VerifyFrame
    PROVE  BillingTypeInv'
  <1>1. verify' \in [Callers -> VerifyState] /\ VerifyFound' /\ told200' \subseteq References
    BY VerifyReplyType DEF VerifyError
  <1>2. TypeInv'
    BY StoreChanges DEF BillingTypeInv, VerifyError, VerifyFrame, storeVars, TypeInv,
                        TypeOK, StoreTypeOK
  <1> QED
    BY <1>1, <1>2 DEF VerifyError, VerifyFrame, BillingTypeInv, CheckoutTypeOK,
                      CancellationTypeOK, CancelFound, Cancelling, cancelVars

LEMMA VerifyRequestType ==
    ASSUME BillingTypeInv, VerifyRequest PROVE BillingTypeInv'
  BY SubmitType, CheckReplayType, ClaimReferenceType, ReadBaseType, GrantType,
     VerifyErrorType DEF VerifyRequest, VerifyStep, VerifyFrame

\* Cancel requests.
CancelFrame == UNCHANGED <<hookVars, checkoutVars>>

LEMMA CancellerFacts ==
    ASSUME BillingTypeInv, NEW c \in Cancellers
    PROVE  /\ StoreTypeOK /\ cancel[c] \in CancelState
           /\ cancel \in [Cancellers -> CancelState]
           /\ cancel[c].row \in Subscription /\ cancel[c].row.sub \in Ids \cup {NoId}
           /\ Cancelling(c) => cancel[c].user \in Users
  BY DEF BillingTypeInv, TypeInv, TypeOK, CancellationTypeOK, CancelFound,
         CancelState, Subscription

LEMMA CancellerMoves ==
    ASSUME BillingTypeInv, NEW c \in Cancellers, NEW x \in CancelState,
           cancel' = [cancel EXCEPT ![c] = x], x.pc # "idle" => x.user \in Users
    PROVE  cancel' \in [Cancellers -> CancelState] /\ CancelFound'
  BY DEF BillingTypeInv, CancellationTypeOK, CancelFound, Cancelling

LEMMA IdleCancelType == IdleCancel \in CancelState /\ IdleCancel.pc = "idle"
  <1>1. DefaultSubscription \in Subscription
    BY DEF DefaultSubscription, Subscription, Plans, Statuses, StatusWords, Date, NoDate
  <1> QED BY <1>1 DEF IdleCancel, CancelState, Date, NoDate

LEMMA CancelStored ==
    ASSUME BillingTypeInv, StoreTypeOK', CancelFrame,
           cancel' \in [Cancellers -> CancelState], CancelFound',
           stopped' \subseteq Ids \cup {NoId}
    PROVE  BillingTypeInv'
  <1>1. TypeInv' BY StoreChanges DEF BillingTypeInv, CancelFrame
  <1> QED
    BY <1>1 DEF CancelFrame, BillingTypeInv, CheckoutTypeOK, CancellationTypeOK,
                VerifyFound, Verifying, checkoutVars

LEMMA CancelRequestType ==
    ASSUME BillingTypeInv, CancelRequest PROVE BillingTypeInv'
  <1>0. CancelFrame /\ stopped \subseteq Ids \cup {NoId} /\ StoreTypeOK
    BY DEF CancelRequest, CancelFrame, BillingTypeInv, CancellationTypeOK, TypeInv, TypeOK
  <1>1. ASSUME NEW c \in Cancellers, NEW u \in Users, StartCancel(c, u)
        PROVE  BillingTypeInv'
    <2>1. GetSubscription(u) \in Subscription BY <1>0, GetSubscriptionType
    <2> DEFINE x == [pc |-> IF Callable(GetSubscription(u)) THEN "provider" ELSE "write",
                     user |-> u, row |-> GetSubscription(u), since |-> today]
    <2>2. x \in CancelState /\ x.user = u
      BY <1>0, <2>1 DEF CancelState, StoreTypeOK
    <2>3. cancel' = [cancel EXCEPT ![c] = x] BY <1>1 DEF StartCancel
    <2> HIDE DEF x
    <2>4. cancel' \in [Cancellers -> CancelState] /\ CancelFound'
      BY <2>2, <2>3, CancellerMoves
    <2> QED BY <1>0, <1>1, <2>4, CancelStored DEF StartCancel, storeVars, StoreTypeOK
  <1>2. ASSUME NEW c \in Cancellers, CancelReply(c)
        PROVE  cancel' \in [Cancellers -> CancelState] /\ CancelFound'
    BY <1>2, CancellerMoves, IdleCancelType DEF CancelReply
  <1>3. ASSUME NEW c \in Cancellers, CallProvider(c) PROVE BillingTypeInv'
    <2>1. Cancelling(c) /\ cancel[c].user \in Users /\ stopped' \subseteq Ids \cup {NoId}
      BY <1>0, <1>3, CancellerFacts DEF CallProvider, Cancelling
    <2>2. ASSUME cancel' = [cancel EXCEPT ![c].pc = "write"]
          PROVE  cancel' \in [Cancellers -> CancelState] /\ CancelFound'
      <3> DEFINE x == [cancel[c] EXCEPT !.pc = "write"]
      <3>1. x \in CancelState /\ x.user = cancel[c].user
        BY CancellerFacts DEF CancelState
      <3>2. cancel' = [cancel EXCEPT ![c] = x] BY <2>2
      <3> HIDE DEF x
      <3> QED BY <2>1, <3>1, <3>2, CancellerMoves
    <2> QED
      BY <1>0, <1>2, <1>3, <2>1, <2>2, CancelStored
         DEF CallProvider, storeVars, StoreTypeOK
  <1>4. ASSUME NEW c \in Cancellers, WriteCancelled(c) PROVE BillingTypeInv'
    <2>1. Cancelling(c) /\ cancel[c].user \in Users
      BY <1>4, CancellerFacts DEF WriteCancelled, Cancelling
    <2>2. [cancel[c].row EXCEPT !.cancelAtEnd = TRUE] \in Subscription
      BY CancellerFacts DEF Subscription
    <2>3. subs' \in [Users -> Subscription]
      BY <1>0, <1>4, <2>1, <2>2, UpsertType DEF WriteCancelled
    <2> QED
      BY <1>0, <1>2, <1>4, <2>3, CancelStored DEF WriteCancelled, StoreTypeOK
  <1>5. ASSUME NEW c \in Cancellers, CancelError(c) PROVE BillingTypeInv'
    BY <1>0, <1>2, <1>5, CancelStored DEF CancelError, storeVars, StoreTypeOK
  <1> QED BY <1>1, <1>3, <1>4, <1>5 DEF CancelRequest, CancelStep

LEMMA BillingInitType == ASSUME BillingInit PROVE BillingTypeInv
  <1>1. TypeInv BY InitType DEF BillingInit
  <1>2. CheckoutTypeOK /\ VerifyFound
    BY IdleVerifyType DEF BillingInit, CheckoutInit, CheckoutTypeOK, VerifyFound,
                          Verifying, Date, NoDate
  <1>3. CancellationTypeOK /\ CancelFound
    BY IdleCancelType DEF BillingInit, CancellationInit, CancellationTypeOK,
                          CancelFound, Cancelling
  <1> QED BY <1>1, <1>2, <1>3 DEF BillingTypeInv

LEMMA WebhookRequestType ==
    ASSUME BillingTypeInv, WebhookRequest PROVE BillingTypeInv'
  <1>1. TypeInv' BY HookNextType DEF BillingTypeInv, WebhookRequest
  <1> QED
    BY <1>1 DEF WebhookRequest, BillingTypeInv, CheckoutTypeOK, CancellationTypeOK,
                VerifyFound, Verifying, CancelFound, Cancelling, checkoutVars, cancelVars

LEMMA ServerCrashType == ASSUME BillingTypeInv, ServerCrash PROVE BillingTypeInv'
  <1>1. TypeInv' BY CrashType DEF BillingTypeInv, ServerCrash
  <1> QED
    BY <1>1, IdleVerifyType, IdleCancelType
       DEF ServerCrash, BillingTypeInv, CheckoutTypeOK, CancellationTypeOK,
           VerifyFound, Verifying, CancelFound, Cancelling

LEMMA OthersType ==
    ASSUME BillingTypeInv, TypeInv', UNCHANGED <<checkoutVars, cancelVars>>
    PROVE  BillingTypeInv'
  BY DEF BillingTypeInv, CheckoutTypeOK, CancellationTypeOK, VerifyFound, Verifying,
         CancelFound, Cancelling, checkoutVars, cancelVars

LEMMA BillingStepType ==
    ASSUME BillingTypeInv, [BillingNext]_billingVars PROVE BillingTypeInv'
  <1>1. CASE NextDay BY <1>1, TickType, OthersType DEF NextDay, BillingTypeInv
  <1>2. CASE Cleanup BY <1>2, PruneStepType, OthersType DEF Cleanup, BillingTypeInv
  <1>3. CASE UNCHANGED billingVars
    BY <1>3, StutterType, OthersType DEF billingVars, vars, BillingTypeInv
  <1> QED
    BY <1>1, <1>2, <1>3, WebhookRequestType, VerifyRequestType, CancelRequestType,
       ServerCrashType DEF BillingNext

\* The types hold in the whole subsystem, with verify and cancel requests writing
\* the same two tables between the webhook's statements.
THEOREM BillingTypeCorrect == BillingSpec => []BillingTypeOK
  <1>1. BillingTypeInv => BillingTypeOK
    BY DEF BillingTypeInv, TypeInv, BillingTypeOK
  <1> QED BY <1>1, BillingInitType, BillingStepType, PTL DEF BillingSpec

----------------------------------------------------------------------------
(* The webhook's claims, next to the others' *)

\* Verify requests record references, never payloads.
LEMMA ClaimsUntouched ==
    ASSUME ClaimInv, TypeInv', UNCHANGED <<today, hook, verdict>>,
           \A k \in Payloads : ledger'[k] = ledger[k]
    PROVE  ClaimInv'
  <1> USE DEF ClaimInv, ClaimRules, Claimed, Busy, Recorded
  <1>1. \A h \in Handlers : Claimed(h) => hook[h].key \in Payloads BY HookFacts
  <1>2. ClaimOwned' BY <1>1 DEF ClaimOwned
  <1>3. OneOwner' BY DEF OneOwner
  <1>4. InWindow' BY <1>1 DEF InWindow
  <1>5. RecordedSince' /\ DecidedIsKept' /\ ProcessedWasApplied'
    BY DEF RecordedSince, DecidedIsKept, ProcessedWasApplied
  <1> QED BY <1>2, <1>3, <1>4, <1>5

\* What a verify request does to the ledger: nothing, or one reference of its own.
LEMMA VerifyLedger ==
    ASSUME BillingTypeInv, VerifyRequest
    PROVE  /\ UNCHANGED <<today, hook, verdict>>
           /\ \A k \in Payloads : ledger'[k] = ledger[k]
  <1>1. UNCHANGED <<today, hook, verdict>>
    BY DEF VerifyRequest, VerifyStep, Submit, CheckReplay, ClaimReference, ReadBase,
           Grant, VerifyError, storeVars, hookVars
  <1>2. ASSUME NEW c \in Callers, ClaimReference(c)
        PROVE  \A k \in Payloads : ledger'[k] = ledger[k]
    <2>1. verify[c].ref \in EventKeys \ Payloads
      BY <1>2, CallerFacts, ReferenceTypes DEF ClaimReference, Verifying
    <2> QED
      BY <1>2, <2>1, KeyTypes, CallerFacts
         DEF ClaimReference, RecordBillingEvent, StoreTypeOK
  <1> QED
    BY <1>1, <1>2 DEF VerifyRequest, VerifyStep, Submit, CheckReplay, ReadBase, Grant,
                      VerifyError, storeVars

LEMMA BillingStepClaim ==
    ASSUME BillingTypeInv, ClaimInv, [BillingNext]_billingVars PROVE ClaimInv'
  <1>0. TypeInv' BY BillingStepType DEF BillingTypeInv
  <1>1. CASE WebhookRequest BY <1>1, HookNextClaim DEF WebhookRequest
  <1>2. CASE VerifyRequest BY <1>0, <1>2, VerifyLedger, ClaimsUntouched
  <1>3. CASE CancelRequest
    BY <1>0, <1>3, ClaimsUntouched
       DEF CancelRequest, CancelStep, StartCancel, CallProvider, WriteCancelled,
           CancelError, storeVars, hookVars
  <1>4. CASE ServerCrash BY <1>4, CrashClaim DEF ServerCrash
  <1>5. CASE NextDay BY <1>5, TickClaim DEF NextDay
  <1>6. CASE Cleanup BY <1>6, PruneClaim DEF Cleanup
  <1>7. CASE UNCHANGED billingVars
    BY <1>7, StutterClaim DEF billingVars, vars
  <1> QED BY <1>1, <1>2, <1>3, <1>4, <1>5, <1>6, <1>7 DEF BillingNext

THEOREM BillingClaims == BillingSpec => [](BillingTypeInv /\ ClaimInv)
  <1>1. BillingInit => BillingTypeInv /\ ClaimInv
    BY BillingInitType, InitClaim DEF BillingInit
  <1>2. BillingTypeInv /\ ClaimInv /\ [BillingNext]_billingVars
           => (BillingTypeInv /\ ClaimInv)'
    BY BillingStepType, BillingStepClaim
  <1> QED BY <1>1, <1>2, PTL DEF BillingSpec

\* In the whole subsystem too a payload changes a subscription at most once.
THEOREM BillingAtMostOnce == BillingSpec => AppliedOnce
  <1>1. ClaimInv => [\A h \in Handlers : Applies(h) => verdict[hook[h].key] = "none"]_vars
    BY AppliesOnce
  <1> QED BY <1>1, BillingClaims, PTL DEF AppliedOnce

\* Nor does anything they write count for the ordering of payloads.
LEMMA OrderUntouched ==
    ASSUME OrderInv, ClaimInv', UNCHANGED <<today, hook, verdict>>,
           \A k \in Payloads : ledger'[k] = ledger[k]
    PROVE  OrderInv'
  BY DEF OrderInv, OrderRules, RowOrder, SettledCounts, AfterSettled, HookOrder,
         SameObject, Newer, ObjectOfPayload, Recorded

LEMMA BillingStepOrder ==
    ASSUME "store" \notin Faults, SentInOrder, BillingTypeInv, OrderInv,
           [BillingNext]_billingVars
    PROVE  OrderInv'
  <1>0. ClaimInv' BY BillingStepClaim DEF OrderInv
  <1>1. CASE WebhookRequest BY <1>1, HookNextOrder, SentInOrder DEF WebhookRequest
  <1>2. CASE VerifyRequest BY <1>0, <1>2, VerifyLedger, OrderUntouched
  <1>3. CASE CancelRequest
    BY <1>0, <1>3, OrderUntouched
       DEF CancelRequest, CancelStep, StartCancel, CallProvider, WriteCancelled,
           CancelError, storeVars, hookVars
  <1>4. CASE ServerCrash BY <1>4, CrashOrder DEF ServerCrash
  <1>5. CASE NextDay BY <1>5, ClockOrder DEF NextDay
  <1>6. CASE Cleanup BY <1>6, ClockOrder DEF Cleanup
  <1>7. CASE UNCHANGED billingVars
    BY <1>7, StutterOrder DEF billingVars, vars
  <1> QED BY <1>1, <1>2, <1>3, <1>4, <1>5, <1>6, <1>7 DEF BillingNext

\* Requests that verify a payment or cancel a subscription share the ledger and
\* the table, and do not make a late delivery undo a newer one either.
THEOREM BillingSettledIsNotReplayed ==
    ASSUME "store" \notin Faults, SentInOrder
    PROVE  BillingSpec => NoReplayOverSettled
  <1>1. BillingInit => OrderInv BY InitOrder DEF BillingInit
  <1>2. BillingTypeInv /\ OrderInv /\ [BillingNext]_billingVars => OrderInv'
    BY BillingStepOrder, SentInOrder
  <1>3. OrderInv =>
           [\A h \in Handlers : Applies(h) =>
               \A j \in hook[h].after :
                   SameObject(j, hook[h].key) => ~Newer(j, hook[h].key)]_vars
    BY AppliesInOrder
  <1> QED
    BY <1>1, <1>2, <1>3, BillingClaims, PTL DEF BillingSpec, NoReplayOverSettled

\* The whole subsystem keeps the ledger's promise about payloads: what verify and
\* cancel requests do is invisible to it.
THEOREM BillingRefinement == BillingSpec => ImplementsLedger
  <1>1. BillingInit => Promise!LedgerInit
    BY DEF BillingInit, StoreInit, HookInit, NoLedgerRow, Promise!LedgerInit, Stage,
           Recorded, EventKeys
  <1>2. /\ BillingTypeInv /\ ClaimInv /\ BillingTypeInv' /\ ClaimInv'
        /\ [BillingNext]_billingVars
        => [Promise!LedgerNext]_Stage
    <2> SUFFICES ASSUME BillingTypeInv, ClaimInv, ClaimInv', [BillingNext]_billingVars
                 PROVE  Promise!LedgerNext \/ UNCHANGED Stage
      OBVIOUS
    <2>1. TypeInv' BY DEF ClaimInv
    <2>2. ASSUME UNCHANGED verdict, \A k \in Payloads : ledger'[k] = ledger[k]
          PROVE  UNCHANGED Stage
      BY <2>2 DEF Stage, Recorded
    <2>3. CASE WebhookRequest
      BY <2>1, <2>3, HookStepStage, StageUnchanged
         DEF WebhookRequest, HookNext, Deliver, StoreError, storeVars
    <2>4. CASE VerifyRequest BY <2>2, <2>4, VerifyLedger
    <2>5. CASE CancelRequest
      BY <2>5, StageUnchanged
         DEF CancelRequest, CancelStep, StartCancel, CallProvider, WriteCancelled,
             CancelError, storeVars, hookVars
    <2>6. CASE ServerCrash BY <2>6, StageUnchanged DEF ServerCrash, storeVars
    <2>7. CASE NextDay BY <2>7, StageUnchanged DEF NextDay, Tick, hookVars
    <2>8. CASE Cleanup BY <2>1, <2>8, PruneStage DEF Cleanup
    <2>9. CASE UNCHANGED billingVars
      BY <2>9, StageUnchanged DEF billingVars, storeVars, hookVars
    <2> QED BY <2>3, <2>4, <2>5, <2>6, <2>7, <2>8, <2>9 DEF BillingNext
  <1> QED
    BY <1>1, <1>2, BillingClaims, PTL
       DEF BillingSpec, ImplementsLedger, Promise!LedgerSpec

\* A step that records no payload and moves no delivery keeps what was promised.
LEMMA DealtUntouched ==
    ASSUME DealtInv, UserNamed, UNCHANGED hookVars,
           \A k \in Payloads : Recorded(k)' => Recorded(k)
    PROVE  DealtInv' /\ UserNamed'
  BY DEF DealtInv, Dealt, UserNamed, Claimed, hookVars

LEMMA BillingStepDealt ==
    ASSUME "store" \notin Faults, "crash" \notin Faults, NamesItsUser,
           BillingTypeInv, ClaimInv, DealtInv, UserNamed, [BillingNext]_billingVars
    PROVE  DealtInv' /\ UserNamed'
  <1>1. CASE WebhookRequest
    BY <1>1, HookStepDealt, DeliverDealt, HookStepNamed, DeliverNamed, NamesItsUser
       DEF WebhookRequest, HookNext, StoreError, ClaimInv
  <1>2. CASE VerifyRequest
    BY <1>2, VerifyLedger, DealtUntouched DEF VerifyRequest, Recorded
  <1>3. CASE CancelRequest
    BY <1>3, DealtUntouched
       DEF CancelRequest, CancelStep, StartCancel, CallProvider, WriteCancelled,
           CancelError, storeVars, Recorded
  <1>4. CASE NextDay BY <1>4, DealtUntouched DEF NextDay, Tick, Recorded
  <1>5. CASE Cleanup
    BY <1>5, DealtUntouched, KeyTypes
       DEF Cleanup, Prune, DeleteOldBillingEvents, NoLedgerRow, Recorded
  <1>6. CASE UNCHANGED billingVars
    BY <1>6, DealtUntouched DEF billingVars, storeVars, Recorded
  <1> QED
    BY <1>1, <1>2, <1>3, <1>4, <1>5, <1>6 DEF BillingNext, ServerCrash

\* Beside payments and cancellations too a 200 to a provider stands for a payload
\* that has been dealt with.
THEOREM BillingAckedIsHandled ==
    ASSUME "store" \notin Faults, "crash" \notin Faults, NamesItsUser
    PROVE  BillingSpec => []AckedWasHandled
  <1>1. BillingInit => DealtInv /\ UserNamed
    BY InitDealt DEF BillingInit, HookInit, UserNamed, Claimed, IdleHook
  <1>2. /\ BillingTypeInv /\ ClaimInv /\ DealtInv /\ UserNamed
        /\ [BillingNext]_billingVars
        => DealtInv' /\ UserNamed'
    BY BillingStepDealt, NamesItsUser
  <1>3. ClaimInv /\ DealtInv /\ UserNamed => AckedWasHandled
    BY DEF DealtInv, Dealt, UserNamed, AckedWasHandled, Verdicts, ClaimInv, TypeInv,
           TypeOK
  <1> QED BY <1>1, <1>2, <1>3, BillingClaims, PTL DEF BillingSpec

----------------------------------------------------------------------------
(* Plans *)

\* A cancel request holds a row it will write back.
HeldPlan ==
    \A c \in Cancellers :
        cancel[c].row.plan = "pro" => IsEntitledStatus(cancel[c].row.status)

EntitledInv == EntitledPlan /\ HeldPlan

\* The read-time checks take Pro away together with the status.
LEMMA ReadEntitled ==
    ASSUME StoreTypeOK, EntitledPlan, NEW u \in Users
    PROVE  GetSubscription(u).plan = "pro" => IsEntitledStatus(GetSubscription(u).status)
  <1>1. /\ subs[u] \in Subscription
        /\ subs[u].plan = "pro" => IsEntitledStatus(subs[u].status)
    BY DEF StoreTypeOK, EntitledPlan
  <1> DEFINE row == PeriodChecked(subs[u])
  <1>2. row \in Subscription /\ (row.plan = "pro" => IsEntitledStatus(row.status))
    BY <1>1 DEF PeriodChecked, Subscription, Plans, Statuses
  <1> HIDE DEF row
  <1>3. TrialChecked(row).plan = "pro" => IsEntitledStatus(TrialChecked(row).status)
    BY <1>2 DEF TrialChecked, Subscription
  <1> QED BY <1>3 DEF GetSubscription, row

LEMMA UpsertEntitled ==
    ASSUME StoreTypeOK, EntitledPlan, NEW u, NEW row \in Subscription,
           row.plan = "pro" => IsEntitledStatus(row.status), UpsertSubscription(u, row)
    PROVE  EntitledPlan'
  <1> DEFINE new == [row EXCEPT !.stored = TRUE]
  <1>1. new.plan = row.plan /\ new.status = row.status BY DEF Subscription
  <1>2. subs' = [subs EXCEPT ![u] = new] BY DEF UpsertSubscription
  <1> HIDE DEF new
  <1> QED BY <1>1, <1>2 DEF EntitledPlan, StoreTypeOK

LEMMA CancelEntitled ==
    ASSUME BillingTypeInv, EntitledInv, CancelRequest PROVE EntitledInv'
  <1> USE DEF EntitledInv
  <1>1. StoreTypeOK /\ cancel \in [Cancellers -> CancelState]
    BY DEF BillingTypeInv, TypeInv, TypeOK, CancellationTypeOK
  <1>2. ~(IdleCancel.row.plan = "pro")
    BY DEF IdleCancel, DefaultSubscription
  <1>3. ASSUME NEW c \in Cancellers, CancelReply(c) PROVE HeldPlan'
    BY <1>1, <1>2, <1>3 DEF CancelReply, HeldPlan
  <1>4. ASSUME NEW c \in Cancellers, NEW u \in Users, StartCancel(c, u)
        PROVE  EntitledInv'
    <2>1. EntitledPlan' BY <1>4 DEF StartCancel, storeVars, EntitledPlan
    <2>2. HeldPlan' BY <1>1, <1>4, ReadEntitled DEF StartCancel, HeldPlan
    <2> QED BY <2>1, <2>2
  <1>5. ASSUME NEW c \in Cancellers, CallProvider(c) PROVE EntitledInv'
    <2>1. EntitledPlan' BY <1>5 DEF CallProvider, storeVars, EntitledPlan
    <2>2. ASSUME cancel' = [cancel EXCEPT ![c].pc = "write"] PROVE HeldPlan'
      BY <1>1, <2>2 DEF HeldPlan, CancelState
    <2> QED BY <1>3, <1>5, <2>1, <2>2 DEF CallProvider
  <1>6. ASSUME NEW c \in Cancellers, WriteCancelled(c) PROVE EntitledInv'
    <2> DEFINE row == [cancel[c].row EXCEPT !.cancelAtEnd = TRUE]
    <2>1. /\ row \in Subscription /\ row.plan = cancel[c].row.plan
          /\ row.status = cancel[c].row.status
      BY CancellerFacts DEF Subscription
    <2>2. UpsertSubscription(cancel[c].user, row) BY <1>6 DEF WriteCancelled
    <2> HIDE DEF row
    <2>3. EntitledPlan' BY <1>1, <2>1, <2>2, UpsertEntitled DEF HeldPlan
    <2> QED BY <1>3, <1>6, <2>3 DEF WriteCancelled
  <1>7. ASSUME NEW c \in Cancellers, CancelError(c) PROVE EntitledInv'
    BY <1>3, <1>7 DEF CancelError, storeVars, EntitledPlan
  <1> QED BY <1>4, <1>5, <1>6, <1>7 DEF CancelRequest, CancelStep

LEMMA VerifyEntitled ==
    ASSUME BillingTypeInv, EntitledInv, VerifyRequest PROVE EntitledInv'
  <1>1. HeldPlan' BY DEF VerifyRequest, cancelVars, EntitledInv, HeldPlan
  <1>2. ASSUME NEW c \in Callers, Grant(c) PROVE EntitledPlan'
    <2>1. PaidRow(verify[c]) \in Subscription
      BY <1>2, PaidRowType, CallerFacts DEF Grant, Verifying
    <2>2. IsEntitledStatus(PaidRow(verify[c]).status)
      BY DEF PaidRow, IsEntitledStatus, EntitledStatuses
    <2> QED
      BY <1>2, <2>1, <2>2, UpsertEntitled, CallerFacts DEF Grant, EntitledInv
  <1>3. ASSUME UNCHANGED subs PROVE EntitledPlan' BY <1>3 DEF EntitledInv, EntitledPlan
  <1> QED
    BY <1>1, <1>2, <1>3
       DEF EntitledInv, VerifyRequest, VerifyStep, Submit, CheckReplay,
           ClaimReference, ReadBase, VerifyError, storeVars

\* No request of any kind leaves a Pro row under a status that is not entitled to
\* it; a cancel request that writes back the row it read some time ago neither.
THEOREM BillingPlanIsEntitled == BillingSpec => []EntitledPlan
  <1>1. BillingInit => EntitledInv
    BY DEF BillingInit, StoreInit, CancellationInit, IdleCancel, DefaultSubscription,
           EntitledInv, EntitledPlan, HeldPlan
  <1>2. BillingTypeInv /\ EntitledInv /\ [BillingNext]_billingVars => EntitledInv'
    <2> SUFFICES ASSUME BillingTypeInv, EntitledInv, [BillingNext]_billingVars
                 PROVE  EntitledInv'
      OBVIOUS
    <2> USE DEF EntitledInv
    <2>1. CASE WebhookRequest
      BY <2>1, HookNextEntitled DEF WebhookRequest, BillingTypeInv, cancelVars, HeldPlan
    <2>2. CASE ServerCrash
      BY <2>2 DEF ServerCrash, storeVars, EntitledPlan, HeldPlan, IdleCancel,
                  DefaultSubscription
    <2>3. CASE NextDay BY <2>3 DEF NextDay, Tick, cancelVars, EntitledPlan, HeldPlan
    <2>4. CASE Cleanup
      BY <2>4 DEF Cleanup, Prune, DeleteOldBillingEvents, cancelVars, EntitledPlan,
                  HeldPlan
    <2>5. CASE UNCHANGED billingVars
      BY <2>5 DEF billingVars, storeVars, cancelVars, EntitledPlan, HeldPlan
    <2> QED
      BY <2>1, <2>2, <2>3, <2>4, <2>5, VerifyEntitled, CancelEntitled DEF BillingNext
  <1>3. EntitledInv => EntitledPlan BY DEF EntitledInv
  <1> QED BY <1>1, <1>2, <1>3, BillingClaims, PTL DEF BillingSpec

----------------------------------------------------------------------------
(* Periods, next to the others' *)

\* A cancel request holds a row with a period.
HeldPeriod == \A c \in Cancellers : Cancelling(c) => cancel[c].row.period # NoDate

\* Another request writes a row with a period between two statements of the
\* webhook.
LEMMA UpsertPeriod ==
    ASSUME PeriodInv, TypeInv', UNCHANGED hook, NEW u, NEW row \in Subscription,
           row.period # NoDate, UpsertSubscription(u, row)
    PROVE  PeriodInv'
  <1> DEFINE new == [row EXCEPT !.stored = TRUE]
  <1>1. new.stored /\ new.period # NoDate BY DEF Subscription
  <1>2. subs' = [subs EXCEPT ![u] = new] BY DEF UpsertSubscription
  <1> HIDE DEF new
  <1>3. \A v \in Users : subs'[v] = subs[v] \/ subs'[v] = new
    BY <1>2 DEF PeriodInv, TypeInv, TypeOK, StoreTypeOK
  <1>4. PeriodKnown' BY <1>1, <1>3 DEF PeriodInv, PeriodKnown
  <1>5. PeriodHeld'
    BY <1>1, <1>3, HookFacts DEF PeriodInv, PeriodHeld, Busy, KnowsUser
  <1> QED BY <1>4, <1>5 DEF PeriodInv

\* What a payment buys is at least a day.
LEMMA VerifyPeriod ==
    ASSUME BillingTypeInv, PeriodInv, TypeInv', VerifyRequest PROVE PeriodInv'
  <1>1. UNCHANGED hook BY VerifyLedger
  <1>2. ASSUME NEW c \in Callers, Grant(c) PROVE PeriodInv'
    <2> DEFINE row == PaidRow(verify[c])
    <2>1. /\ verify[c].ref \in References /\ row \in Subscription
          /\ verify[c].base \in Nat
      BY <1>2, CallerFacts, PaidRowType DEF Grant, Verifying, VerifyState, Date
    <2>2. row.period # NoDate
      <3>1. \A i : PaystackBillingPeriod(i) \in Nat \ {0}
        BY ProviderAssumption DEF PaystackBillingPeriod
      <3>2. \A i : verify[c].base + PaystackBillingPeriod(i) # 0 BY <2>1, <3>1
      <3> QED BY <3>2 DEF PaidRow, NoDate
    <2>3. UpsertSubscription(verify[c].user, row) BY <1>2 DEF Grant
    <2> HIDE DEF row
    <2> QED BY <1>1, <2>1, <2>2, <2>3, UpsertPeriod
  <1>3. CASE UNCHANGED subs BY <1>1, <1>3, OthersPeriod
  <1> QED
    BY <1>2, <1>3
       DEF VerifyRequest, VerifyStep, Submit, CheckReplay, ClaimReference, ReadBase,
           VerifyError, storeVars

LEMMA CancelPeriod ==
    ASSUME BillingTypeInv, PeriodInv, HeldPeriod, TypeInv', CancelRequest
    PROVE  PeriodInv' /\ HeldPeriod'
  <1>1. /\ UNCHANGED hook /\ cancel \in [Cancellers -> CancelState] /\ StoreTypeOK
    BY DEF CancelRequest, hookVars, BillingTypeInv, TypeInv, TypeOK, CancellationTypeOK
  <1>2. ASSUME NEW c \in Cancellers, CancelReply(c) PROVE HeldPeriod'
    BY <1>1, <1>2 DEF CancelReply, IdleCancel, HeldPeriod, Cancelling
  <1>3. ASSUME UNCHANGED storeVars PROVE PeriodInv'
    BY <1>1, <1>3, OthersPeriod DEF storeVars
  <1>4. ASSUME NEW c \in Cancellers, NEW u \in Users, StartCancel(c, u)
        PROVE  PeriodInv' /\ HeldPeriod'
    <2>1. GetSubscription(u).period # NoDate
      BY <1>1, <1>4, ReadsPeriod DEF StartCancel, PeriodInv, PeriodKnown
    <2> QED BY <1>1, <1>3, <1>4, <2>1 DEF StartCancel, HeldPeriod, Cancelling
  <1>5. ASSUME NEW c \in Cancellers, CallProvider(c) PROVE PeriodInv' /\ HeldPeriod'
    <2>1. ASSUME cancel' = [cancel EXCEPT ![c].pc = "write"] PROVE HeldPeriod'
      BY <1>1, <1>5, <2>1 DEF CallProvider, HeldPeriod, Cancelling, CancelState
    <2> QED BY <1>2, <1>3, <1>5, <2>1 DEF CallProvider
  <1>6. ASSUME NEW c \in Cancellers, WriteCancelled(c) PROVE PeriodInv' /\ HeldPeriod'
    <2> DEFINE row == [cancel[c].row EXCEPT !.cancelAtEnd = TRUE]
    <2>1. row \in Subscription /\ row.period = cancel[c].row.period
      BY CancellerFacts DEF Subscription
    <2>2. cancel[c].row.period # NoDate
      BY <1>6 DEF WriteCancelled, HeldPeriod, Cancelling
    <2>3. UpsertSubscription(cancel[c].user, row) BY <1>6 DEF WriteCancelled
    <2> HIDE DEF row
    <2>4. PeriodInv' BY <1>1, <2>1, <2>2, <2>3, UpsertPeriod
    <2> QED BY <1>2, <1>6, <2>4 DEF WriteCancelled
  <1>7. ASSUME NEW c \in Cancellers, CancelError(c) PROVE PeriodInv' /\ HeldPeriod'
    BY <1>2, <1>3, <1>7 DEF CancelError
  <1> QED BY <1>4, <1>5, <1>6, <1>7 DEF CancelRequest, CancelStep

\* Nor do the requests that verify a payment or write back a row they read some
\* time ago leave a subscription without a period.
THEOREM BillingPeriodIsKnown ==
    ASSUME "store" \notin Faults, PeriodOrNoUser
    PROVE  BillingSpec => []PeriodKnown
  <1>1. BillingInit => PeriodInv /\ HeldPeriod
    BY InitPeriod DEF BillingInit, CancellationInit, IdleCancel, HeldPeriod, Cancelling
  <1>2. /\ BillingTypeInv /\ BillingTypeInv' /\ PeriodInv /\ HeldPeriod
        /\ [BillingNext]_billingVars
        => PeriodInv' /\ HeldPeriod'
    <2> SUFFICES ASSUME BillingTypeInv, TypeInv', PeriodInv, HeldPeriod,
                        [BillingNext]_billingVars
                 PROVE  PeriodInv' /\ HeldPeriod'
      BY DEF BillingTypeInv
    <2>1. UNCHANGED cancelVars => HeldPeriod' BY DEF cancelVars, HeldPeriod, Cancelling
    <2>2. CASE WebhookRequest
      BY <2>1, <2>2, HookNextPeriod, PeriodOrNoUser DEF WebhookRequest
    <2>3. CASE VerifyRequest BY <2>1, <2>3, VerifyPeriod DEF VerifyRequest
    <2>4. CASE CancelRequest BY <2>4, CancelPeriod
    <2>5. CASE ServerCrash
      <3>1. HeldPeriod' BY <2>5 DEF ServerCrash, HeldPeriod, Cancelling, IdleCancel
      <3> QED BY <2>5, <3>1, OthersPeriod DEF ServerCrash, storeVars
    <2>6. CASE NextDay \/ Cleanup \/ UNCHANGED billingVars
      <3>1. UNCHANGED <<subs, hook, cancelVars>>
        BY <2>6 DEF NextDay, Tick, Cleanup, Prune, DeleteOldBillingEvents, billingVars,
                    storeVars, hookVars
      <3> QED BY <2>1, <3>1, OthersPeriod
    <2> QED BY <2>2, <2>3, <2>4, <2>5, <2>6 DEF BillingNext
  <1>3. PeriodInv => PeriodKnown BY DEF PeriodInv
  <1> QED BY <1>1, <1>2, <1>3, BillingClaims, PTL DEF BillingSpec

----------------------------------------------------------------------------
(* References *)

\* A verify request that has claimed its reference.
GrantClaimed(c) == verify[c].pc \in {"base", "grant"}

\* A reference that may buy a period: it never did, or longer ago than the ledger
\* remembers.
Spendable(r) == granted[r] = NoDate \/ granted[r] + Retention <= today

VerifyWindow ==
    \A c \in Callers : Verifying(c) =>
        verify[c].since <= today /\ today <= verify[c].since + 1

ReferenceOwned ==
    \A c \in Callers : GrantClaimed(c) =>
        /\ Recorded(verify[c].ref) /\ verify[c].since <= ledger[verify[c].ref].created
        /\ Spendable(verify[c].ref)

OneCaller ==
    \A b, c \in Callers :
        GrantClaimed(b) /\ GrantClaimed(c) /\ verify[b].ref = verify[c].ref => b = c

\* A reference that bought a period is in the ledger, or has been long enough for
\* the cleanup to take it.
GrantIsKept ==
    \A r \in References :
        \/ Spendable(r)
        \/ Recorded(r) /\ granted[r] <= ledger[r].created + 1

GrantInv == VerifyWindow /\ ReferenceOwned /\ OneCaller /\ GrantIsKept

LEMMA GrantNumbers ==
    ASSUME BillingTypeInv
    PROVE  /\ today \in Nat /\ Retention \in Nat /\ 1 <= Retention
           /\ \A r \in References : ledger[r].created \in Nat /\ granted[r] \in Nat
           /\ \A c \in Callers : verify[c].since \in Nat
  <1>1. Retention \in Nat /\ 1 <= Retention
    BY StoreAssumption, WebhookAssumption, RetentionAssumption
  <1>2. \A r \in References : ledger[r] \in LedgerRow
    BY ReferenceTypes DEF BillingTypeInv, TypeInv, TypeOK, StoreTypeOK
  <1>3. today \in Nat /\ granted \in [References -> Nat] /\ verify \in [Callers -> VerifyState]
    BY DEF BillingTypeInv, TypeInv, TypeOK, StoreTypeOK, CheckoutTypeOK, Date
  <1> QED BY <1>1, <1>2, <1>3 DEF LedgerRow, VerifyState, Date

\* Steps that leave references and verify requests alone.
LEMMA GrantUntouched ==
    ASSUME BillingTypeInv, GrantInv, UNCHANGED <<today, checkoutVars>>,
           \A r \in References : ledger'[r] = ledger[r]
    PROVE  GrantInv'
  <1> USE DEF GrantInv, GrantClaimed, Verifying, Recorded, Spendable, checkoutVars
  <1>1. \A c \in Callers : GrantClaimed(c) => verify[c].ref \in References
    BY CallerFacts
  <1>2. VerifyWindow' BY DEF VerifyWindow
  <1>3. ReferenceOwned' BY <1>1 DEF ReferenceOwned
  <1>4. OneCaller' BY DEF OneCaller
  <1>5. GrantIsKept' BY DEF GrantIsKept
  <1> QED BY <1>2, <1>3, <1>4, <1>5

\* The webhook records payloads, never references.
LEMMA HookNextReferences ==
    ASSUME TypeInv, HookNext
    PROVE  today' = today /\ \A r \in References : ledger'[r] = ledger[r]
  <1>1. ASSUME NEW h \in Handlers, Record(h)
        PROVE  today' = today /\ \A r \in References : ledger'[r] = ledger[r]
    <2>1. hook[h].key \in EventKeys \ References
      BY <1>1, HookFacts, ReferenceTypes DEF Record, Busy
    <2> QED
      BY <1>1, <2>1, ReferenceTypes
         DEF Record, RecordBillingEvent, TypeInv, TypeOK, StoreTypeOK
  <1>2. ASSUME NEW h \in Handlers, Mark(h)
        PROVE  today' = today /\ \A r \in References : ledger'[r] = ledger[r]
    <2>1. hook[h].key \in EventKeys \ References
      BY <1>2, HookFacts, ReferenceTypes DEF Mark, Busy
    <2> QED
      BY <1>2, <2>1, ReferenceTypes
         DEF Mark, MarkBillingEventProcessed, TypeInv, TypeOK, StoreTypeOK
  <1> QED
    BY <1>1, <1>2 DEF HookNext, HookStep, Deliver, CheckOrder, ResolveBySub,
                      ResolveByCustomer, ReadPeriod, ReadTrial, ReadRenewal, Apply,
                      StoreError, storeVars

\* One caller moves, over an unchanged ledger, to a state that needs no new claim.
LEMMA GrantMoves ==
    ASSUME BillingTypeInv, GrantInv, NEW c \in Callers, NEW x \in VerifyState,
           verify' = [verify EXCEPT ![c] = x], UNCHANGED <<today, ledger, granted>>,
           x.pc # "idle" => x.since <= today /\ today <= x.since + 1,
           x.pc \in {"base", "grant"} =>
               GrantClaimed(c) /\ x.ref = verify[c].ref /\ x.since = verify[c].since
    PROVE  GrantInv'
  <1> USE CallerFacts DEF GrantInv, GrantClaimed, Verifying, Recorded, Spendable
  <1>1. VerifyWindow' BY DEF VerifyWindow
  <1>2. ReferenceOwned' BY DEF ReferenceOwned
  <1>3. OneCaller' BY DEF OneCaller
  <1>4. GrantIsKept' BY DEF GrantIsKept
  <1> QED BY <1>1, <1>2, <1>3, <1>4

LEMMA ReplyGrant ==
    ASSUME BillingTypeInv, GrantInv, NEW c \in Callers, NEW told, VerifyReply(c, told),
           UNCHANGED <<today, ledger, granted>>
    PROVE  GrantInv'
  BY GrantMoves, IdleVerifyType DEF VerifyReply

LEMMA GotoGrant ==
    ASSUME BillingTypeInv, GrantInv, NEW c \in Callers, Verifying(c), 
           NEW step \in {"claim", "grant"}, NEW base \in Date,
           verify' = [verify EXCEPT ![c].base = base, ![c].pc = step],
           step = "grant" => GrantClaimed(c), UNCHANGED <<today, ledger, granted>>
    PROVE  GrantInv'
  <1> DEFINE x == [verify[c] EXCEPT !.base = base, !.pc = step]
  <1>1. verify' = [verify EXCEPT ![c] = x] BY CallerFacts
  <1>2. /\ x \in VerifyState /\ x.pc = step /\ x.ref = verify[c].ref
        /\ x.since = verify[c].since
    BY CallerFacts DEF VerifyState, VerifySteps
  <1>3. x.since <= today /\ today <= x.since + 1
    BY <1>2 DEF GrantInv, VerifyWindow
  <1> HIDE DEF x
  <1> QED BY <1>1, <1>2, <1>3, GrantMoves

LEMMA SubmitGrant ==
    ASSUME BillingTypeInv, GrantInv, NEW c \in Callers, NEW u \in Users,
           NEW r \in References, Submit(c, u, r)
    PROVE  GrantInv'
  <1> DEFINE x == [IdleVerify EXCEPT !.pc = "replay", !.ref = r, !.user = u,
                                     !.since = today]
  <1>1. verify' = [verify EXCEPT ![c] = x] BY DEF Submit
  <1>2. x \in VerifyState /\ x.pc = "replay" /\ x.since = today
    BY CallerFacts DEF IdleVerify, VerifyState, VerifySteps, StoreTypeOK, Date, NoDate
  <1>3. UNCHANGED <<today, ledger, granted>> BY DEF Submit, storeVars
  <1>4. today <= today + 1 /\ today <= today BY GrantNumbers
  <1> HIDE DEF x
  <1> QED BY <1>1, <1>2, <1>3, <1>4, GrantMoves

LEMMA CheckReplayGrant ==
    ASSUME BillingTypeInv, GrantInv, NEW c \in Callers, CheckReplay(c)
    PROVE  GrantInv'
  <1>1. Verifying(c) /\ UNCHANGED <<today, ledger, granted>>
    BY DEF CheckReplay, Verifying, storeVars
  <1>2. CASE VerifyReply(c, {}) BY <1>1, <1>2, ReplyGrant
  <1>3. CASE VerifyGoto(c, "claim")
    <2> DEFINE x == [verify[c] EXCEPT !.pc = "claim"]
    <2>1. verify' = [verify EXCEPT ![c] = x] BY <1>3 DEF VerifyGoto
    <2>2. x \in VerifyState /\ x.pc = "claim" /\ x.since = verify[c].since
      BY CallerFacts DEF VerifyState, VerifySteps
    <2>3. x.since <= today /\ today <= x.since + 1
      BY <1>1, <2>2 DEF GrantInv, VerifyWindow
    <2> HIDE DEF x
    <2> QED BY <1>1, <2>1, <2>2, <2>3, GrantMoves
  <1> QED BY <1>2, <1>3 DEF CheckReplay

\* The claim succeeds only for a reference that may buy a period.
LEMMA ClaimGrant ==
    ASSUME BillingTypeInv, GrantInv, NEW c \in Callers, ClaimReference(c)
    PROVE  GrantInv'
  <1> DEFINE r == verify[c].ref
  <1>1. Verifying(c) /\ r \in References /\ r \in EventKeys
    BY CallerFacts DEF ClaimReference, Verifying
  <1>2. CASE VerifyReply(c, {r}) /\ UNCHANGED ledger
    BY <1>2, ReplyGrant DEF ClaimReference
  <1>3. CASE /\ RecordBillingEvent(r, verify[c].user, "paystack",
                                   Transaction[r].customer, NoDate)
             /\ VerifyGoto(c, "base")
    <2>1. UNCHANGED <<today, granted>> BY DEF ClaimReference
    <2>2. ~Recorded(r) /\ Spendable(r)
      BY <1>1, <1>3 DEF RecordBillingEvent, GrantInv, GrantIsKept
    <2>3. /\ ledger'[r].recorded /\ ledger'[r].created = today
          /\ \A s \in References \ {r} : ledger'[s] = ledger[s]
      BY <1>1, <1>3, ReferenceTypes, CallerFacts DEF RecordBillingEvent, StoreTypeOK
    <2>4. /\ verify'[c].pc = "base" /\ verify'[c].ref = r
          /\ verify'[c].since = verify[c].since
          /\ \A b \in Callers \ {c} : verify'[b] = verify[b]
      BY <1>3, CallerFacts DEF VerifyGoto, VerifyState
    <2>5. verify[c].since <= today BY <1>1 DEF GrantInv, VerifyWindow
    <2>6. \A b \in Callers : GrantClaimed(b) => verify[b].ref \in References \ {r}
      BY <2>2, CallerFacts DEF GrantInv, ReferenceOwned, GrantClaimed, Verifying
    <2> HIDE DEF r
    <2> USE DEF GrantInv, GrantClaimed, Verifying, Recorded, Spendable
    <2>7. VerifyWindow' BY <1>1, <2>1, <2>4 DEF VerifyWindow
    <2>8. ReferenceOwned'
      BY <2>1, <2>2, <2>3, <2>4, <2>5, <2>6 DEF ReferenceOwned
    <2>9. OneCaller' BY <2>4, <2>6 DEF OneCaller
    <2>10. GrantIsKept' BY <1>1, <2>1, <2>2, <2>3 DEF GrantIsKept
    <2> QED BY <2>7, <2>8, <2>9, <2>10
  <1> QED BY <1>2, <1>3 DEF ClaimReference

LEMMA ReadBaseGrant ==
    ASSUME BillingTypeInv, GrantInv, NEW c \in Callers, ReadBase(c)
    PROVE  GrantInv'
  <1>1. Verifying(c) /\ GrantClaimed(c) /\ UNCHANGED <<today, ledger, granted>>
    BY DEF ReadBase, Verifying, GrantClaimed, storeVars
  <1>2. GetSubscription(verify[c].user).period \in Date /\ today \in Date
    BY <1>1, GetSubscriptionType, CallerFacts DEF Subscription, StoreTypeOK
  <1>3. PICK base \in Date :
           verify' = [verify EXCEPT ![c].base = base, ![c].pc = "grant"]
    BY <1>2 DEF ReadBase
  <1> QED BY <1>1, <1>3, GotoGrant

\* The reference bought a period today and its claim is at most a day old.
LEMMA GrantGrant ==
    ASSUME BillingTypeInv, GrantInv, NEW c \in Callers, Grant(c)
    PROVE  GrantInv'
  <1> DEFINE r == verify[c].ref
  <1>1. Verifying(c) /\ GrantClaimed(c) /\ r \in References
    BY CallerFacts DEF Grant, Verifying, GrantClaimed
  <1>2. /\ Recorded(r) /\ verify[c].since <= ledger[r].created
        /\ today <= verify[c].since + 1
    BY <1>1 DEF GrantInv, ReferenceOwned, VerifyWindow
  <1>3. today <= ledger[r].created + 1
    BY <1>1, <1>2, GrantNumbers
  <1>4. /\ UNCHANGED <<today, ledger>> /\ granted'[r] = today
        /\ \A s \in References \ {r} : granted'[s] = granted[s]
    BY <1>1, CallerFacts DEF Grant
  <1>5. /\ verify'[c].pc = "idle"
        /\ \A b \in Callers \ {c} : verify'[b] = verify[b]
    BY CallerFacts DEF Grant, VerifyReply, IdleVerify
  <1>6. \A b \in Callers \ {c} : GrantClaimed(b) => verify[b].ref \in References \ {r}
    BY <1>1, CallerFacts DEF GrantInv, OneCaller, GrantClaimed, Verifying
  <1> HIDE DEF r
  <1> USE DEF GrantInv, GrantClaimed, Verifying, Recorded, Spendable
  <1>7. VerifyWindow' BY <1>4, <1>5 DEF VerifyWindow
  <1>8. ReferenceOwned' BY <1>4, <1>5, <1>6 DEF ReferenceOwned
  <1>9. OneCaller' BY <1>5 DEF OneCaller
  <1>10. GrantIsKept' BY <1>1, <1>2, <1>3, <1>4 DEF GrantIsKept
  <1> QED BY <1>7, <1>8, <1>9, <1>10

LEMMA VerifyGrant ==
    ASSUME BillingTypeInv, GrantInv, VerifyRequest PROVE GrantInv'
  <1>1. ASSUME NEW c \in Callers, VerifyError(c) PROVE GrantInv'
    BY <1>1, ReplyGrant DEF VerifyError, storeVars
  <1> QED
    BY <1>1, SubmitGrant, CheckReplayGrant, ClaimGrant, ReadBaseGrant, GrantGrant
       DEF VerifyRequest, VerifyStep

LEMMA NextDayGrant ==
    ASSUME BillingTypeInv, GrantInv, NextDay PROVE GrantInv'
  <1>1. /\ today' = today + 1 /\ UNCHANGED <<ledger, verify, granted>>
        /\ \A c \in Callers : Verifying(c) => verify[c].since = today
    BY DEF NextDay, Tick, checkoutVars
  <1> USE GrantNumbers DEF GrantInv, GrantClaimed, Verifying, Recorded, Spendable
  <1>2. VerifyWindow' BY <1>1 DEF VerifyWindow
  <1>3. ReferenceOwned' BY <1>1, CallerFacts DEF ReferenceOwned
  <1>4. OneCaller' BY <1>1 DEF OneCaller
  <1>5. GrantIsKept' BY <1>1 DEF GrantIsKept
  <1> QED BY <1>2, <1>3, <1>4, <1>5

\* The cleanup takes no claim of a running request, and the claim of a grant only
\* once the retention has passed since the grant.
LEMMA CleanupGrant ==
    ASSUME BillingTypeInv, GrantInv, Cleanup PROVE GrantInv'
  <1>1. /\ UNCHANGED <<today, verify, granted>>
        /\ \A r \in References :
              \/ ledger'[r] = ledger[r]
              \/ ledger[r].created + Retention < today
    BY ReferenceTypes DEF Cleanup, Prune, DeleteOldBillingEvents, checkoutVars
  <1> USE DEF GrantInv, GrantClaimed, Verifying, Recorded, Spendable
  <1>2. ASSUME NEW c \in Callers, GrantClaimed(c)
        PROVE  /\ verify[c].ref \in References
               /\ ledger'[verify[c].ref] = ledger[verify[c].ref]
    <2>1. Verifying(c) /\ verify[c].ref \in References BY <1>2, CallerFacts
    <2>2. /\ today <= verify[c].since + 1
          /\ verify[c].since <= ledger[verify[c].ref].created
      BY <1>2, <2>1 DEF VerifyWindow, ReferenceOwned
    <2> QED BY <1>1, <2>1, <2>2, GrantNumbers
  <1>3. VerifyWindow' BY <1>1 DEF VerifyWindow
  <1>4. ReferenceOwned' BY <1>1, <1>2 DEF ReferenceOwned
  <1>5. OneCaller' BY <1>1 DEF OneCaller
  <1>6. GrantIsKept' BY <1>1, GrantNumbers DEF GrantIsKept
  <1> QED BY <1>3, <1>4, <1>5, <1>6

LEMMA BillingStepGrant ==
    ASSUME BillingTypeInv, GrantInv, [BillingNext]_billingVars PROVE GrantInv'
  <1>1. CASE WebhookRequest
    BY <1>1, HookNextReferences, GrantUntouched DEF WebhookRequest, BillingTypeInv
  <1>2. CASE CancelRequest
    BY <1>2, GrantUntouched
       DEF CancelRequest, CancelStep, StartCancel, CallProvider, WriteCancelled,
           CancelError, storeVars
  <1>3. CASE ServerCrash
    BY <1>3 DEF ServerCrash, storeVars, IdleVerify, GrantInv, VerifyWindow, Verifying,
                ReferenceOwned, OneCaller, GrantClaimed, GrantIsKept, Recorded, Spendable
  <1>4. CASE UNCHANGED billingVars
    BY <1>4, GrantUntouched DEF billingVars, storeVars
  <1> QED
    BY <1>1, <1>2, <1>3, <1>4, VerifyGrant, NextDayGrant, CleanupGrant DEF BillingNext

LEMMA BillingInitGrant == ASSUME BillingInit PROVE GrantInv
  BY DEF BillingInit, CheckoutInit, IdleVerify, GrantInv, VerifyWindow, Verifying,
         ReferenceOwned, OneCaller, GrantClaimed, GrantIsKept, Spendable

\* A paid reference buys one period: a second one is granted only after the first
\* one's claim is older than the retention, whoever submits it, however often and
\* in however many requests at once.
THEOREM ReferenceBuysOnce == BillingSpec => GrantsAreSpaced
  <1>1. ASSUME BillingTypeInv, GrantInv, NEW c \in Callers, Grant(c),
               granted[verify[c].ref] # NoDate
        PROVE  granted[verify[c].ref] + Retention <= today
    <2>1. GrantClaimed(c) BY <1>1 DEF Grant, GrantClaimed
    <2> QED BY <1>1, <2>1 DEF GrantInv, ReferenceOwned, Spendable
  <1>2. BillingTypeInv /\ GrantInv /\ [BillingNext]_billingVars =>
           [\A c \in Callers :
               LET day == granted[verify[c].ref] IN
               Grant(c) /\ day # NoDate => day + Retention <= today]_billingVars
    BY <1>1
  <1> QED
    BY <1>2, BillingClaims, BillingInitGrant, BillingStepGrant, PTL
       DEF BillingSpec, GrantsAreSpaced
----------------------------------------------------------------------------
(* What a verified payment stands for *)

\* A reference has bought its period, or a running request holds its claim.
PaidFor(r) ==
    granted[r] # NoDate \/ \E c \in Callers : GrantClaimed(c) /\ verify[c].ref = r

\* Without failures nobody loses the claim of a reference.
PaidInv ==
    /\ today # NoDate
    /\ \A r \in References : r \in told200 \/ Recorded(r) => PaidFor(r)

\* Steps of others: references, their claims and their requests stay.
LEMMA PaidUntouched ==
    ASSUME PaidInv, today' # NoDate, UNCHANGED checkoutVars,
           \A r \in References : ledger'[r].recorded => ledger[r].recorded
    PROVE  PaidInv'
  BY DEF PaidInv, PaidFor, GrantClaimed, Recorded, checkoutVars

\* A caller that holds no claim moves, and no reference is claimed or answered.
LEMMA PaidMoves ==
    ASSUME BillingTypeInv, PaidInv, NEW c \in Callers, NEW x,
           verify' = [verify EXCEPT ![c] = x],
           GrantClaimed(c) => /\ x.pc \in {"base", "grant"}
                              /\ x.ref = verify[c].ref,
           UNCHANGED <<today, ledger, granted>>,
           \A r \in References : r \in told200' => PaidFor(r)
    PROVE  PaidInv'
  <1>1. \A b \in Callers : verify'[b] = IF b = c THEN x ELSE verify[b]
    BY CallerFacts
  <1>2. ASSUME NEW r \in References, PaidFor(r) PROVE PaidFor(r)'
    BY <1>1, <1>2 DEF PaidFor, GrantClaimed
  <1> QED BY <1>2 DEF PaidInv, Recorded

LEMMA ReplyPaid ==
    ASSUME BillingTypeInv, PaidInv, NEW c \in Callers, ~GrantClaimed(c),
           NEW told, VerifyReply(c, told),
           \A r \in told : r \in References => Recorded(r),
           UNCHANGED <<today, ledger, granted>>
    PROVE  PaidInv'
  BY PaidMoves DEF VerifyReply, PaidInv

LEMMA VerifyPaid ==
    ASSUME "store" \notin Faults, BillingTypeInv, PaidInv, VerifyRequest
    PROVE  PaidInv'
  <1>1. ASSUME NEW c \in Callers, NEW u \in Users, NEW r \in References,
               Submit(c, u, r)
        PROVE  PaidInv'
    BY <1>1, PaidMoves DEF Submit, Verifying, GrantClaimed, storeVars, PaidInv
  <1>2. ASSUME NEW c \in Callers, CheckReplay(c) PROVE PaidInv'
    <2>1. ~GrantClaimed(c) /\ UNCHANGED <<today, ledger, granted>>
      BY <1>2 DEF CheckReplay, GrantClaimed, storeVars
    <2>2. CASE VerifyReply(c, {}) BY <2>1, <2>2, ReplyPaid
    <2>3. CASE VerifyGoto(c, "claim") /\ UNCHANGED told200
      BY <2>1, <2>3, PaidMoves DEF VerifyGoto, PaidInv
    <2> QED BY <1>2, <2>2, <2>3 DEF CheckReplay
  <1>3. ASSUME NEW c \in Callers, ClaimReference(c) PROVE PaidInv'
    <2>0. PICK r \in References : r = verify[c].ref /\ r \in EventKeys
      BY <1>3, CallerFacts DEF ClaimReference, Verifying
    <2>1. /\ verify[c].pc = "claim" /\ ~GrantClaimed(c)
          /\ UNCHANGED <<today, granted>>
      BY <1>3 DEF ClaimReference, GrantClaimed
    <2>2. CASE Recorded(r) /\ VerifyReply(c, {r}) /\ UNCHANGED ledger
      BY <2>1, <2>2, ReplyPaid
    <2>3. CASE /\ RecordBillingEvent(r, verify[c].user, "paystack",
                                     Transaction[r].customer, NoDate)
               /\ VerifyGoto(c, "base") /\ UNCHANGED told200
      <3>1. \A s \in References \ {r} : ledger'[s] = ledger[s]
        BY <2>0, <2>3, ReferenceTypes, CallerFacts DEF RecordBillingEvent, StoreTypeOK
      <3>2. /\ verify'[c].pc = "base" /\ verify'[c].ref = r
            /\ \A b \in Callers \ {c} : verify'[b] = verify[b]
        BY <2>0, <2>3, CallerFacts DEF VerifyGoto, VerifyState
      <3>3. PaidFor(r)' BY <3>2 DEF PaidFor, GrantClaimed
      <3>4. ASSUME NEW s \in References, PaidFor(s) PROVE PaidFor(s)'
        BY <2>1, <3>2, <3>4 DEF PaidFor, GrantClaimed
      <3>5. \A s \in References : s \in told200' \/ Recorded(s)' => PaidFor(s)'
        BY <2>3, <3>1, <3>3, <3>4 DEF PaidInv, Recorded
      <3> QED BY <2>1, <3>5 DEF PaidInv
    <2> QED BY <1>3, <2>0, <2>2, <2>3 DEF ClaimReference
  <1>4. ASSUME NEW c \in Callers, ReadBase(c) PROVE PaidInv'
    <2>1. PICK base : verify' = [verify EXCEPT ![c].base = base, ![c].pc = "grant"]
      BY <1>4 DEF ReadBase
    <2> DEFINE x == [verify[c] EXCEPT !.base = base, !.pc = "grant"]
    <2>2. verify' = [verify EXCEPT ![c] = x] BY <2>1, CallerFacts
    <2>3. x.pc = "grant" /\ x.ref = verify[c].ref BY CallerFacts DEF VerifyState
    <2> HIDE DEF x
    <2> QED BY <1>4, <2>2, <2>3, PaidMoves DEF ReadBase, storeVars, PaidInv
  <1>5. ASSUME NEW c \in Callers, Grant(c) PROVE PaidInv'
    <2>1. PICK r \in References : r = verify[c].ref
      BY <1>5, CallerFacts DEF Grant, Verifying
    <2>2. /\ granted'[r] = today /\ \A s \in References \ {r} : granted'[s] = granted[s]
          /\ UNCHANGED <<today, ledger>> /\ told200' = told200 \cup {r}
          /\ \A b \in Callers \ {c} : verify'[b] = verify[b]
      BY <1>5, <2>1, CallerFacts DEF Grant, VerifyReply
    <2>3. ASSUME NEW s \in References \ {r}, PaidFor(s) PROVE PaidFor(s)'
      BY <2>1, <2>2, <2>3 DEF PaidFor, GrantClaimed
    <2>4. PaidFor(r)' BY <2>2 DEF PaidFor, PaidInv
    <2>5. \A s \in References : s \in told200' \/ Recorded(s)' => PaidFor(s)'
      BY <2>2, <2>3, <2>4 DEF PaidInv, Recorded
    <2> QED BY <2>2, <2>5 DEF PaidInv
  <1> QED
    BY <1>1, <1>2, <1>3, <1>4, <1>5 DEF VerifyRequest, VerifyStep, VerifyError

LEMMA BillingStepPaid ==
    ASSUME "store" \notin Faults, "crash" \notin Faults, BillingTypeInv, PaidInv,
           [BillingNext]_billingVars
    PROVE  PaidInv'
  <1>1. CASE WebhookRequest
    BY <1>1, HookNextReferences, PaidUntouched
       DEF WebhookRequest, BillingTypeInv, PaidInv
  <1>2. CASE VerifyRequest BY <1>2, VerifyPaid
  <1>3. CASE CancelRequest
    BY <1>3, PaidUntouched
       DEF CancelRequest, CancelStep, StartCancel, CallProvider, WriteCancelled,
           CancelError, storeVars, PaidInv
  <1>4. CASE NextDay
    BY <1>4, PaidUntouched, GrantNumbers DEF NextDay, Tick, NoDate
  <1>5. CASE Cleanup
    BY <1>5, PaidUntouched, ReferenceTypes
       DEF Cleanup, Prune, DeleteOldBillingEvents, NoLedgerRow, PaidInv
  <1>6. CASE UNCHANGED billingVars
    BY <1>6, PaidUntouched DEF billingVars, storeVars, PaidInv
  <1> QED
    BY <1>1, <1>2, <1>3, <1>4, <1>5, <1>6 DEF BillingNext, ServerCrash

\* Whoever is answered 200 for a reference he paid has his period, or a running
\* request is about to grant it, however often and in however many tabs he
\* submits it - unless a statement fails or the server dies between the claim of
\* the reference and the row.
THEOREM AnsweredHasPeriod ==
    ASSUME "store" \notin Faults, "crash" \notin Faults
    PROVE  BillingSpec => []AnsweredIsGranted
  <1>1. BillingInit => PaidInv
    BY ReferenceTypes
       DEF BillingInit, StoreInit, CheckoutInit, NoLedgerRow, Recorded, PaidInv, NoDate
  <1>2. BillingTypeInv /\ PaidInv /\ [BillingNext]_billingVars => PaidInv'
    BY BillingStepPaid
  <1>3. BillingTypeInv /\ PaidInv => AnsweredIsGranted
    BY DEF PaidInv, PaidFor, AnsweredIsGranted, BillingTypeInv, CheckoutTypeOK
  <1> QED BY <1>1, <1>2, <1>3, BillingClaims, PTL DEF BillingSpec

----------------------------------------------------------------------------
(* Cancellations *)

\* What the theorem asks of the providers: an event that ends a subscription
\* says which one.
EndsNameTheirs ==
    \A k \in Payloads :
        Acts(Payload[k]) /\ HandleWebhook(Payload[k], 1).cancelAtEnd
        => HandleWebhook(Payload[k], 1).sub # NoId

\* The event a goroutine carries is its payload's, and the id it is going to
\* write beside a cancellation is the one that was cancelled.
EndHeld ==
    \A h \in Handlers :
        Busy(h) /\ hook[h].event.cancelAtEnd =>
            /\ HandleWebhook(Payload[hook[h].key], 1).cancelAtEnd
            /\ hook[h].event.sub = HandleWebhook(Payload[hook[h].key], 1).sub
            /\ hook[h].event.sub # NoId
            /\ hook[h].pc = "upsert" => hook[h].sub = hook[h].event.sub

\* A cancel request that is about to write has told the provider, where the
\* provider can be told.
StopHeld ==
    \A c \in Cancellers :
        cancel[c].pc = "write" /\ Callable(cancel[c].row) => cancel[c].row.sub \in stopped

StopInv == EndHeld /\ StopHeld /\ CancelledIsStopped

\* Neither flag nor id of an event depends on the day it arrives.
LEMMA EventOfAnyDay ==
    ASSUME NEW p \in PayloadType, NEW d
    PROVE  /\ HandleWebhook(p, d).cancelAtEnd = HandleWebhook(p, 1).cancelAtEnd
           /\ HandleWebhook(p, d).sub = HandleWebhook(p, 1).sub
  <1>1. CASE p.provider = "lemonsqueezy"
    BY <1>1 DEF HandleWebhook, LemonSqueezyEvent
  <1>2. CASE p.provider # "lemonsqueezy"
    BY <1>2 DEF HandleWebhook, PaystackChargeEvent, PaystackInvoiceEvent,
                PaystackSubscriptionEvent
  <1> QED BY <1>1, <1>2

\* What has been applied stays applied: its claim is never given away again.
LEMMA VerdictStays ==
    ASSUME ClaimInv, HookNext, NEW k \in Payloads, verdict[k] \in {"applied", "settled"}
    PROVE  verdict'[k] \in {"applied", "settled"}
  <1> USE DEF ClaimInv
  <1>1. ASSUME NEW h \in Handlers, NEW what, Decide(h, what),
               hook[h].key = k => what \in {"applied", "settled"}
        PROVE  verdict'[k] \in {"applied", "settled"}
    BY <1>1 DEF Decide, TypeInv, TypeOK
  <1>2. ASSUME NEW h \in Handlers, Claimed(h), hook[h].pc # "mark"
        PROVE  hook[h].key # k
    BY <1>2 DEF ClaimRules, ClaimOwned
  <1>3. ASSUME NEW h \in Handlers, Record(h) PROVE verdict'[k] \in {"applied", "settled"}
    <2>1. CASE UNCHANGED verdict BY <2>1
    <2>2. CASE ~Recorded(hook[h].key) /\ Decide(h, "ignored")
      <3>1. hook[h].key # k BY <1>3, <2>2, ClaimIsNew DEF Record
      <3> QED BY <1>1, <2>2, <3>1
    <2> QED BY <1>3, <2>1, <2>2 DEF Record, RecordBillingEvent
  <1>4. ASSUME NEW h \in Handlers,
               CheckOrder(h) \/ ResolveBySub(h) \/ ResolveByCustomer(h)
        PROVE  verdict'[k] \in {"applied", "settled"}
    <2>1. hook[h].key # k
      BY <1>2, <1>4 DEF CheckOrder, ResolveBySub, ResolveByCustomer, Claimed
    <2> QED BY <1>1, <1>4, <2>1 DEF CheckOrder, ResolveBySub, ResolveByCustomer
  <1>5. ASSUME NEW h \in Handlers, Apply(h) \/ Mark(h)
        PROVE  verdict'[k] \in {"applied", "settled"}
    BY <1>1, <1>5 DEF Apply, Mark
  <1> QED
    BY <1>3, <1>4, <1>5
       DEF HookNext, HookStep, Deliver, ReadPeriod, ReadTrial, ReadRenewal, StoreError

\* One goroutine moves on with its event.
LEMMA EndMoves ==
    ASSUME TypeInv, EndHeld, NEW h \in Handlers, NEW x \in HookState,
           hook' = [hook EXCEPT ![h] = x],
           \/ x.pc = "idle"
           \/ Busy(h) /\ x.key = hook[h].key /\ x.event = hook[h].event,
           x.pc = "upsert" /\ x.event.sub # NoId => x.sub = x.event.sub
    PROVE  EndHeld'
  BY DEF TypeInv, TypeOK, EndHeld, Busy

LEMMA DeliverEnd ==
    ASSUME EndsNameTheirs, TypeInv, EndHeld, NEW h \in Handlers, NEW k \in Payloads,
           Deliver(h, k)
    PROVE  EndHeld'
  <1> DEFINE event == IF Acts(Payload[k]) THEN HandleWebhook(Payload[k], today) ELSE NoEvent
  <1>1. /\ hook'[h].pc = "record" /\ hook'[h].key = k /\ hook'[h].event = event
        /\ \A g \in Handlers \ {h} : hook'[g] = hook[g]
    BY DEF Deliver, IdleHook, TypeInv, TypeOK
  <1>2. event.cancelAtEnd =>
          /\ HandleWebhook(Payload[k], 1).cancelAtEnd
          /\ event.sub = HandleWebhook(Payload[k], 1).sub /\ event.sub # NoId
    <2>1. Payload[k] \in PayloadType BY KeyTypes
    <2> QED BY <2>1, EventOfAnyDay DEF EndsNameTheirs, NoEvent
  <1> HIDE DEF event
  <1> QED BY <1>1, <1>2 DEF EndHeld, Busy

LEMMA StepEnd ==
    ASSUME TypeInv, EndHeld, NEW h \in Handlers, HookStep(h) \/ StoreError(h)
    PROVE  EndHeld'
  <1> DEFINE x == hook'[h]
  <1>0. TypeInv' BY HookNextType DEF HookNext
  <1>1. x \in HookState /\ hook \in [Handlers -> HookState]
    BY <1>0 DEF TypeInv, TypeOK
  <1>2. ASSUME hook' = [hook EXCEPT ![h] = IdleHook] PROVE EndHeld'
    BY <1>2, IdleHookType, EndMoves DEF IdleHook
  <1>3. ASSUME NEW step, step # "upsert", Busy(h), Goto(h, step) PROVE EndHeld'
    <2>1. /\ hook' = [hook EXCEPT ![h] = x] /\ x.pc = step
          /\ x.key = hook[h].key /\ x.event = hook[h].event
      BY <1>1, <1>3 DEF Goto, HookState
    <2> HIDE DEF x
    <2> QED BY <1>1, <1>3, <2>1, EndMoves DEF x
  <1>4. CASE Record(h)
    BY <1>2, <1>3, <1>4, HookFacts DEF Record, Reply200, Busy
  <1>5. CASE CheckOrder(h)
    BY <1>2, <1>3, <1>5, HookFacts DEF CheckOrder, Reply200, Busy
  <1>6. CASE ResolveBySub(h) \/ ResolveByCustomer(h)
    <2>1. ASSUME NEW u \in Users,
                 hook' = [hook EXCEPT ![h].user = u, ![h].pc = AfterUser(hook[h].event)]
          PROVE  EndHeld'
      <3>1. /\ Busy(h) /\ hook' = [hook EXCEPT ![h] = x]
            /\ x.pc # "upsert" /\ x.key = hook[h].key /\ x.event = hook[h].event
        BY <1>1, <1>6, <2>1, HookFacts DEF HookState, ResolveBySub, ResolveByCustomer, Busy
      <3> HIDE DEF x
      <3> QED BY <1>1, <3>1, EndMoves DEF x
    <2> QED
      BY <1>2, <1>3, <1>6, <2>1
         DEF ResolveBySub, ResolveByCustomer, Reply500, Busy,
             UsersByProviderSubID, UsersByProviderCustomerID
  <1>7. CASE ReadPeriod(h) \/ ReadTrial(h)
    <2>1. /\ Busy(h) /\ hook' = [hook EXCEPT ![h] = x]
          /\ x.pc # "upsert" /\ x.key = hook[h].key /\ x.event = hook[h].event
      <3>1. CASE ReadPeriod(h) BY <1>1, <3>1 DEF HookState, ReadPeriod, Busy, AfterPeriod
      <3>2. CASE ReadTrial(h) BY <1>1, <3>2 DEF HookState, ReadTrial, Busy
      <3> QED BY <1>7, <3>1, <3>2
    <2> HIDE DEF x
    <2> QED BY <1>1, <2>1, EndMoves DEF x
  <1>8. CASE ReadRenewal(h)
    <2>1. /\ Busy(h) /\ hook' = [hook EXCEPT ![h] = x]
          /\ x.key = hook[h].key /\ x.event = hook[h].event
          /\ x.event.sub # NoId => x.sub = x.event.sub
      BY <1>1, <1>8 DEF HookState, ReadRenewal, Busy
    <2> HIDE DEF x
    <2> QED BY <1>1, <2>1, EndMoves DEF x
  <1>9. CASE Apply(h) BY <1>3, <1>9 DEF Apply, Busy
  <1>10. CASE Mark(h) \/ StoreError(h)
    BY <1>2, <1>10 DEF Mark, StoreError, Reply200, Reply500
  <1> QED BY <1>4, <1>5, <1>6, <1>7, <1>8, <1>9, <1>10 DEF HookStep

\* The row an event writes names what the event ended.
LEMMA ApplyStopped ==
    ASSUME BillingTypeInv, ClaimInv, StopInv, NEW h \in Handlers, Apply(h),
           UNCHANGED stopped
    PROVE  CancelledIsStopped'
  <1> DEFINE row == [WebhookRow(hook[h]) EXCEPT !.stored = TRUE]
             k == hook[h].key
  <1> USE DEF ClaimInv
  <1>1. /\ k \in Payloads /\ Busy(h) /\ hook[h].pc = "upsert" /\ HookNext
        /\ verdict'[k] = "applied"
    <2>1. HookNext BY DEF HookNext, HookStep
    <2>2. Busy(h) /\ hook[h].pc = "upsert" BY DEF Apply, Busy
    <2>3. k \in Payloads BY <2>2, HookFacts
    <2> QED BY <2>1, <2>2, <2>3 DEF Apply, Decide, TypeInv, TypeOK
  <1>2. /\ row.cancelAtEnd = hook[h].event.cancelAtEnd
        /\ row.sub = hook[h].sub
    BY DEF WebhookRow
  <1>3. subs' = [subs EXCEPT ![hook[h].user] = row]
    BY DEF Apply, UpsertSubscription
  <1>4. row.cancelAtEnd =>
            /\ HandleWebhook(Payload[k], 1).cancelAtEnd
            /\ HandleWebhook(Payload[k], 1).sub = row.sub
    BY <1>1, <1>2 DEF StopInv, EndHeld
  <1> HIDE DEF row, k
  <1> SUFFICES ASSUME NEW u \in Users, subs'[u].cancelAtEnd, Callable(subs[u])'
               PROVE  \/ subs'[u].sub \in stopped'
                      \/ \E j \in Payloads : EndsSubscription(j, subs[u].sub)'
    BY DEF CancelledIsStopped
  <1>5. CASE subs'[u] = row BY <1>1, <1>4, <1>5 DEF EndsSubscription
  <1>6. CASE subs'[u] = subs[u]
    <2>1. \/ subs[u].sub \in stopped
          \/ \E j \in Payloads : EndsSubscription(j, subs[u].sub)
      BY <1>6 DEF StopInv, CancelledIsStopped, Callable
    <2> QED BY <1>1, <1>6, <2>1, VerdictStays DEF EndsSubscription
  <1> QED BY <1>3, <1>5, <1>6 DEF TypeInv, TypeOK, StoreTypeOK

\* Nobody writes a row, and what was stopped stays so.
LEMMA RowsStay ==
    ASSUME CancelledIsStopped, UNCHANGED subs, stopped \subseteq stopped',
           \A k \in Payloads :
               verdict[k] \in {"applied", "settled"} => verdict'[k] \in {"applied", "settled"}
    PROVE  CancelledIsStopped'
  BY DEF CancelledIsStopped, EndsSubscription, Callable

LEMMA WebhookStopped ==
    ASSUME EndsNameTheirs, BillingTypeInv, ClaimInv, StopInv, WebhookRequest
    PROVE  StopInv'
  <1> USE DEF StopInv, WebhookRequest
  <1>1. EndHeld'
    BY DeliverEnd, StepEnd DEF HookNext, ClaimInv
  <1>2. StopHeld' BY DEF StopHeld, cancelVars
  <1>3. CancelledIsStopped'
    <2>1. CASE \E h \in Handlers : Apply(h) BY <2>1, ApplyStopped DEF cancelVars
    <2>2. CASE UNCHANGED subs BY <2>2, VerdictStays, RowsStay DEF cancelVars
    <2> QED
      BY <2>1, <2>2
         DEF HookNext, HookStep, Deliver, Record, CheckOrder, ResolveBySub,
             ResolveByCustomer, ReadPeriod, ReadTrial, ReadRenewal, Mark, StoreError,
             storeVars
  <1> QED BY <1>1, <1>2, <1>3

\* A paid row is not cancelled.
LEMMA VerifyStopped ==
    ASSUME BillingTypeInv, StopInv, VerifyRequest PROVE StopInv'
  <1> USE DEF StopInv
  <1>1. EndHeld' /\ StopHeld'
    BY DEF VerifyRequest, EndHeld, StopHeld, Busy, hookVars, cancelVars
  <1>2. ASSUME NEW c \in Callers, Grant(c) PROVE CancelledIsStopped'
    <2> DEFINE row == [PaidRow(verify[c]) EXCEPT !.stored = TRUE]
    <2>1. subs' = [subs EXCEPT ![verify[c].user] = row]
      BY <1>2 DEF Grant, UpsertSubscription
    <2>2. ~row.cancelAtEnd BY DEF PaidRow
    <2> HIDE DEF row
    <2>3. UNCHANGED <<stopped, verdict>> BY DEF VerifyRequest, hookVars, cancelVars
    <2> QED
      BY <2>1, <2>2, <2>3
         DEF CancelledIsStopped, EndsSubscription, Callable, BillingTypeInv, TypeInv,
             TypeOK, StoreTypeOK
  <1>3. ASSUME UNCHANGED subs PROVE CancelledIsStopped'
    BY <1>3, RowsStay DEF VerifyRequest, hookVars, cancelVars
  <1> QED
    BY <1>1, <1>2, <1>3
       DEF VerifyRequest, VerifyStep, Submit, CheckReplay, ClaimReference, ReadBase,
           VerifyError, storeVars

\* A cancel request writes the id it has told the provider about.
LEMMA CancelStopped ==
    ASSUME BillingTypeInv, StopInv, CancelRequest PROVE StopInv'
  <1> USE DEF StopInv
  <1>1. /\ EndHeld' /\ UNCHANGED verdict
        /\ cancel \in [Cancellers -> CancelState] /\ StoreTypeOK
    BY DEF CancelRequest, EndHeld, Busy, hookVars, BillingTypeInv, TypeInv, TypeOK,
           CancellationTypeOK
  <1>2. ASSUME NEW c \in Cancellers, CancelReply(c), stopped \subseteq stopped'
        PROVE  StopHeld'
    BY <1>1, <1>2 DEF CancelReply, IdleCancel, StopHeld, Callable
  <1>3. ASSUME UNCHANGED subs, stopped \subseteq stopped' PROVE CancelledIsStopped'
    BY <1>1, <1>3, RowsStay
  <1>4. ASSUME NEW c \in Cancellers, NEW u \in Users, StartCancel(c, u)
        PROVE  StopInv'
    <2>1. StopHeld' BY <1>1, <1>4 DEF StartCancel, StopHeld, Callable
    <2> QED BY <1>1, <1>3, <1>4, <2>1 DEF StartCancel, storeVars
  <1>5. ASSUME NEW c \in Cancellers, CallProvider(c) PROVE StopInv'
    <2>1. stopped \subseteq stopped' BY <1>5 DEF CallProvider
    <2>2. ASSUME stopped' = stopped \cup {cancel[c].row.sub},
                 cancel' = [cancel EXCEPT ![c].pc = "write"]
          PROVE  StopHeld'
      BY <1>1, <2>2 DEF StopHeld, Callable, CancelState
    <2> QED BY <1>1, <1>2, <1>3, <1>5, <2>1, <2>2 DEF CallProvider, storeVars
  <1>6. ASSUME NEW c \in Cancellers, WriteCancelled(c) PROVE StopInv'
    <2> DEFINE row == [[cancel[c].row EXCEPT !.cancelAtEnd = TRUE] EXCEPT !.stored = TRUE]
    <2>1. subs' = [subs EXCEPT ![cancel[c].user] = row]
      BY <1>6 DEF WriteCancelled, UpsertSubscription
    <2>2. row.sub = cancel[c].row.sub /\ row.provider = cancel[c].row.provider
      BY CancellerFacts DEF Subscription
    <2> HIDE DEF row
    <2>3. Callable(row) => row.sub \in stopped
      BY <1>6, <2>2 DEF WriteCancelled, StopHeld, Callable
    <2>4. CancelledIsStopped'
      BY <1>1, <1>6, <2>1, <2>3
         DEF WriteCancelled, CancelledIsStopped, EndsSubscription, Callable, StoreTypeOK
    <2> QED BY <1>1, <1>2, <1>6, <2>4 DEF WriteCancelled
  <1>7. ASSUME NEW c \in Cancellers, CancelError(c) PROVE StopInv'
    BY <1>1, <1>2, <1>3, <1>7 DEF CancelError, storeVars
  <1> QED BY <1>4, <1>5, <1>6, <1>7 DEF CancelRequest, CancelStep

LEMMA OthersStopped ==
    ASSUME StopInv, \/ ServerCrash \/ NextDay \/ Cleanup
                    \/ UNCHANGED billingVars
    PROVE  StopInv'
  <1> USE DEF StopInv
  <1>1. CASE ServerCrash
    <2>1. EndHeld' BY <1>1 DEF ServerCrash, EndHeld, Busy, IdleHook
    <2>2. StopHeld' BY <1>1 DEF ServerCrash, StopHeld, IdleCancel
    <2> QED BY <1>1, <2>1, <2>2, RowsStay DEF ServerCrash, storeVars
  <1>2. CASE NextDay \/ Cleanup \/ UNCHANGED billingVars
    <2>1. UNCHANGED <<subs, hook, verdict, cancel, stopped>>
      BY <1>2 DEF NextDay, Tick, Cleanup, Prune, DeleteOldBillingEvents, billingVars,
                  storeVars, hookVars, cancelVars
    <2> QED BY <2>1, RowsStay DEF EndHeld, Busy, StopHeld
  <1> QED BY <1>1, <1>2

\* Across stale writes of cancel requests, crashes and failed calls, a row that is
\* shown as cancelled is one the provider will not renew, if events that end a
\* subscription name it.
THEOREM CancelledRowIsStopped ==
    ASSUME EndsNameTheirs PROVE BillingSpec => []CancelledIsStopped
  <1>1. BillingInit => StopInv
    BY DEF BillingInit, StoreInit, HookInit, CancellationInit, IdleHook, IdleCancel,
           DefaultSubscription, StopInv, EndHeld, Busy, StopHeld, CancelledIsStopped
  <1>2. BillingTypeInv /\ ClaimInv /\ StopInv /\ [BillingNext]_billingVars => StopInv'
    BY EndsNameTheirs, WebhookStopped, VerifyStopped, CancelStopped, OthersStopped
       DEF BillingNext
  <1>3. StopInv => CancelledIsStopped BY DEF StopInv
  <1> QED BY <1>1, <1>2, <1>3, BillingClaims, PTL DEF BillingSpec
=============================================================================
