------------------------------ MODULE Checkout ------------------------------
(***************************************************************************)
(* POST /billing/verify-paystack: VerifyPaystack turns a paid Paystack     *)
(* transaction into a period of Pro (internal/handler/billing.go).         *)
(*                                                                         *)
(* Each caller is one request goroutine. Paystack's answer about a         *)
(* reference never changes, so it is a constant; a reference Paystack does *)
(* not confirm, or whose currency, plan, amount or email does not match,   *)
(* is refused before anything is written and takes no step here.           *)
(***************************************************************************)
EXTENDS BillingStore

CONSTANTS
    Callers,        \* verify requests that can be in flight at once
    Transaction     \* what Paystack says about each reference

TransactionType ==
    [owner: Users,              \* whose email paid it
     accepted: BOOLEAN,         \* NGN, one of our plans, the plan's amount
     customer: Ids \cup {NoId}, interval: Intervals, reusable: BOOLEAN,
     paidOn: Date]

ASSUME CheckoutAssumption == Transaction \in [References -> TransactionType]

VARIABLES
    verify,     \* the request of each caller
    granted,    \* history: the day a reference last bought a period
    told200     \* references somebody was answered 200 for

checkoutVars == <<verify, granted, told200>>

VerifySteps == {"replay", "claim", "base", "grant"}

IdleVerify == [pc |-> "idle", ref |-> NoId, user |-> NoUser, base |-> NoDate,
               since |-> NoDate]

VerifyState ==
    [pc: VerifySteps \cup {"idle"}, ref: References \cup {NoId},
     user: Users \cup {NoUser}, base: Date, since: Date]

CheckoutTypeOK ==
    /\ verify \in [Callers -> VerifyState]
    /\ granted \in [References -> Date]
    /\ told200 \subseteq References

CheckoutInit ==
    /\ verify = [c \in Callers |-> IdleVerify]
    /\ granted = [r \in References |-> NoDate]
    /\ told200 = {}

----------------------------------------------------------------------------
Verifying(c) == verify[c].pc # "idle"

VerifyGoto(c, step) == verify' = [verify EXCEPT ![c].pc = step]

VerifyReply(c, told) ==
    /\ verify' = [verify EXCEPT ![c] = IdleVerify]
    /\ told200' = told200 \cup told

\* Checks 1 to 6 have passed: the caller owns an acceptable, paid transaction.
Submit(c, u, r) ==
    /\ ~Verifying(c)
    /\ Transaction[r].paidOn <= today
    /\ Transaction[r].accepted /\ Transaction[r].owner = u
    /\ verify' = [verify EXCEPT ![c] = [IdleVerify EXCEPT
           !.pc = "replay", !.ref = r, !.user = u, !.since = today]]
    /\ UNCHANGED <<storeVars, granted, told200>>

\* Another account whose row holds the reference: 409. While a reference has
\* one owner this is a second line of defence behind check 6.
CheckReplay(c) ==
    LET holders == UsersByProviderSubID(verify[c].ref) IN
    /\ verify[c].pc = "replay"
    /\ \/ holders \ {verify[c].user} # {} /\ VerifyReply(c, {})
       \/ /\ holders = {} \/ verify[c].user \in holders
          /\ VerifyGoto(c, "claim") /\ UNCHANGED told200
    /\ UNCHANGED <<storeVars, granted>>

\* Faulty variant: the reference is looked up but not claimed.
LookUpReference(c) ==
    LET r == verify[c].ref IN
    /\ verify[c].pc = "claim"
    /\ \/ Recorded(r) /\ VerifyReply(c, {r})
       \/ ~Recorded(r) /\ VerifyGoto(c, "base") /\ UNCHANGED told200
    /\ UNCHANGED <<storeVars, granted>>

\* The first to record the reference may apply it. Everybody else is answered
\* 200 with the current state.
ClaimReference(c) ==
    LET r == verify[c].ref IN
    /\ verify[c].pc = "claim"
    /\ \/ Recorded(r) /\ VerifyReply(c, {r}) /\ UNCHANGED ledger
       \/ /\ RecordBillingEvent(r, verify[c].user, "paystack",
                                Transaction[r].customer, NoDate)
          /\ VerifyGoto(c, "base") /\ UNCHANGED told200
    /\ UNCHANGED <<today, subs, granted>>

\* The period is stacked onto what is left of the current one. A failed read
\* is ignored and the period starts today.
ReadBase(c) ==
    LET left == GetSubscription(verify[c].user).period IN
    /\ verify[c].pc = "base"
    /\ \E base \in {IF left > today THEN left ELSE today}
                   \cup (IF "store" \in Faults THEN {today} ELSE {}) :
          verify' = [verify EXCEPT ![c].base = base, ![c].pc = "grant"]
    /\ UNCHANGED <<storeVars, granted, told200>>

\* Faulty variant: the interval ends up in the plan column.
PaidRowIntervalAsPlan(x) ==
    LET tx == Transaction[x.ref] IN
    [stored |-> TRUE, plan |-> tx.interval, provider |-> "paystack",
     customer |-> tx.customer, sub |-> x.ref, status |-> "active",
     period |-> x.base + PaystackBillingPeriod(tx.interval), trial |-> NoDate,
     cancelAtEnd |-> FALSE, renews |-> tx.reusable]

\* The row VerifyPaystack writes. Without a customer code it makes one up from
\* the reference; no webhook ever names it.
PaidRow(x) ==
    LET tx == Transaction[x.ref] IN
    [stored |-> TRUE, plan |-> "pro", provider |-> "paystack",
     customer |-> IF tx.customer = NoId THEN x.ref ELSE tx.customer,
     sub |-> x.ref, status |-> "active",
     period |-> x.base + PaystackBillingPeriod(tx.interval), trial |-> NoDate,
     cancelAtEnd |-> FALSE, renews |-> tx.reusable]

Grant(c) ==
    LET r == verify[c].ref IN
    /\ verify[c].pc = "grant"
    /\ UpsertSubscription(verify[c].user, PaidRow(verify[c]))
    /\ granted' = [granted EXCEPT ![r] = today]
    /\ VerifyReply(c, {r})
    /\ UNCHANGED <<today, ledger>>

VerifyError(c) ==
    /\ "store" \in Faults
    /\ verify[c].pc \in {"replay", "claim", "grant"}
    /\ VerifyReply(c, {})
    /\ UNCHANGED <<storeVars, granted>>

VerifyStep(c) == CheckReplay(c) \/ ClaimReference(c) \/ ReadBase(c) \/ Grant(c)
=============================================================================
