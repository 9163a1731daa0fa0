------------------------- MODULE BillingAggregates -------------------------
(***************************************************************************)
(* The rows of billing and the methods of their aggregates, as functions   *)
(* from a row to a row.  A method that throws is an operator guarded by a  *)
(* Can... predicate: the handler throws where the predicate is false.      *)
(*                                                                         *)
(* Dates are natural numbers, 0 the null date.  A paid plan adds Period[p] *)
(* (addBillingPeriod of its billingPeriod), FREE its FREE_PLAN_DURATION_   *)
(* DAYS, an admin grant GrantPeriod.  startDate is left out (no code sets  *)
(* one in the future), and with it the trial dates, autoRenew (always      *)
(* false) and what is only displayed.  origin is history: the factory that *)
(* created a subscription.                                                 *)
(***************************************************************************)
EXTENDS Integers

CONSTANTS
    Plans,         \* the plans, FREE among them
    FreePlan,      \* the plan of code FREE
    Period,        \* Period[p]: what one payment of plan p adds
    GrantPeriod,   \* what the admin grants
    ExternalIds,   \* externalTransactionId of a confirmation
    NoId           \* no externalTransactionId yet

ASSUME PlansAssumption == FreePlan \in Plans
ASSUME PeriodAssumption == Period \in [Plans -> Nat \ {0}]
ASSUME GrantAssumption == GrantPeriod \in Nat \ {0}
ASSUME ExternalIdsAssumption == NoId \notin ExternalIds

NoDate == 0

SchoolStatus == {"DRAFT", "PENDING_PAYMENT", "PENDING_REVIEW", "ACTIVE",
                 "SUSPENDED", "EXPIRED", "REJECTED"}

\* NONE: no row with this id yet.
Subscription ==
    [status : {"NONE", "PENDING", "ACTIVE", "EXPIRED"},
     plan   : Plans,
     end    : Nat,
     cancelAtPeriodEnd : BOOLEAN,
     origin : {"checkout", "free", "grant"}]

Payment ==
    [status : {"NONE", "PENDING", "PROCESSING", "PAID", "FAILED"},
     externalId : ExternalIds \cup {NoId},
     plan : Plans,
     sub  : Nat]

-----------------------------------------------------------------------------
(* Payment.                                                                *)

CreatePayment(plan, s) ==
    [status |-> "PENDING", externalId |-> NoId, plan |-> plan, sub |-> s]

MarkProcessingForgotten(payment) == payment

MarkProcessing(payment) ==
    [payment EXCEPT !.status = IF @ = "PENDING" THEN "PROCESSING" ELSE @]

\* confirmFromGateway throws on a PAID payment with another id and on a
\* payment that is neither PAID nor open.
CanConfirm(payment, id) ==
    \/ payment.status = "PAID" /\ payment.externalId = id
    \/ payment.status \in {"PENDING", "PROCESSING"}

ConfirmFromGateway(payment, id) ==
    [payment EXCEPT !.status = "PAID", !.externalId = id]

FailPaymentAsCancel(payment) == [payment EXCEPT !.status = "CANCELLED"]

FailPayment(payment) == [payment EXCEPT !.status = "FAILED"]

-----------------------------------------------------------------------------
(* Subscription.                                                           *)

NewSubscription(status, plan, end, origin) ==
    [status |-> status, plan |-> plan, end |-> end,
     cancelAtPeriodEnd |-> FALSE, origin |-> origin]

CreatePending(plan) == NewSubscription("PENDING", plan, NoDate, "checkout")
CreateFreePlan(t) ==
    NewSubscription("ACTIVE", FreePlan, t + Period[FreePlan], "free")
CreateAdminGrant(plan, t) ==
    NewSubscription("ACTIVE", plan, t + GrantPeriod, "grant")

IsValidNow(sub, t) ==
    sub.status = "ACTIVE" /\ (sub.end = NoDate \/ sub.end > t)

\* syncExpiration returns true, and has set the status to EXPIRED.
IsDue(sub, t) == sub.status = "ACTIVE" /\ sub.end # NoDate /\ sub.end <= t

Expire(sub) == [sub EXCEPT !.status = "EXPIRED"]

ChangePlan(sub, plan) == [sub EXCEPT !.plan = plan]

CanScheduleCancel(sub) == sub.status = "ACTIVE"
ScheduleCancelAtPeriodEnd(sub) == [sub EXCEPT !.cancelAtPeriodEnd = TRUE]

CanApplyToPendingOnly(sub, plan, planIsActive) ==
    sub.status = "PENDING" /\ planIsActive

CanApplyToSamePlanOnly(sub, plan, planIsActive) ==
    sub.plan = plan /\ planIsActive

\* renew needs the payment only, activate needs the plan to be active too.
CanApplyPayment(sub, plan, planIsActive) ==
    \/ sub.status = "ACTIVE" /\ sub.plan = plan
    \/ planIsActive

PeriodStartsNow(sub, t) == t

\* From the end of a subscription that still runs, else from now.
PeriodStart(sub, t) ==
    IF IsValidNow(sub, t) /\ sub.end # NoDate THEN sub.end ELSE t

\* renew, or changePlan and activate: they differ in what may throw only.
ApplyPayment(sub, plan, t) ==
    [ChangePlan(sub, plan) EXCEPT
        !.status = "ACTIVE",
        !.end = PeriodStart(sub, t) + Period[plan],
        !.cancelAtPeriodEnd = FALSE]

-----------------------------------------------------------------------------
(* School, the status column.                                              *)

ActivateAfterPaidNotExpired(status) ==
    IF status \in {"DRAFT", "PENDING_PAYMENT"} THEN "ACTIVE" ELSE status

ActivateAfterPaidSuspendedToo(status) ==
    IF status \in {"DRAFT", "PENDING_PAYMENT", "EXPIRED", "SUSPENDED"}
    THEN "ACTIVE" ELSE status

ActivateAfterPaidSubscription(status) ==
    IF status \in {"DRAFT", "PENDING_PAYMENT", "EXPIRED"} THEN "ACTIVE" ELSE status
=============================================================================
