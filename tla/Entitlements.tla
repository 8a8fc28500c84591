---------------------------- MODULE Entitlements ----------------------------
(***************************************************************************)
(* Plans, statuses and the dates on which access ends                      *)
(* (internal/billing/entitlements.go).                                     *)
(*                                                                         *)
(* A date is a natural number of days. Date 0 is the nil *time.Time of a   *)
(* row and the zero int64 of an event: "no date".                          *)
(***************************************************************************)
EXTENDS Integers

CONSTANTS
    AccessGrace,    \* days of access after the period of an active row
    PastDueGrace    \* days of access after the period of a past_due row

ASSUME GraceAssumption ==
    AccessGrace \in Nat /\ PastDueGrace \in Nat /\ AccessGrace <= PastDueGrace

Date == Nat
NoDate == 0

Plans == {"free", "pro"}
EntitledStatuses == {"active", "trialing", "past_due"}

\* The plan limit the handlers enforce; -1 is unlimited.
MaxNamedEndpoints(plan) == IF plan = "pro" THEN -1 ELSE 1

\* Whether a status on its own grants access, dates ignored: what the webhook
\* write path asks before it stores a plan.
IsEntitledStatus(status) == status \in EntitledStatuses

\* Whether a subscription is usable on day today. A missing period keeps
\* access for as long as the status does.
IsActive(status, periodEnd, today) ==
    \/ /\ status \in {"active", "trialing"}
       /\ periodEnd # NoDate => today <= periodEnd + AccessGrace
    \/ /\ status = "past_due"
       /\ periodEnd # NoDate => today < periodEnd + PastDueGrace
=============================================================================
