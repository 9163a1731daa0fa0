------------------------------ MODULE Billing ------------------------------
(***************************************************************************)
(* The billing of one school: requests, webhooks, the hourly job and the   *)
(* admin, interleaved at their database statements.                        *)
(***************************************************************************)
EXTENDS PaymentHandlers, SubscriptionHandlers, Functions

Request(h) == PaymentRequest(h) \/ SubscriptionRequest(h)
Step(h) == PaymentStep(h) \/ SubscriptionStep(h)

Next ==
    \/ Tick
    \/ \E plan \in SwitchedPlans, isActive \in BOOLEAN : SetPlanActive(plan, isActive)
    \/ BeginJob(Cron)
    \/ \E h \in Handlers : Request(h)
    \/ \E h \in Processes : Step(h) \/ Abort(h)

\* A request that was begun goes on: the event loop serves every promise.  The
\* scheduler starts the job every hour, whatever is being served; where Serial
\* makes it wait for the request being served, it does start between two.
\* Nobody has to send a request.
Fairness ==
    /\ \A h \in Processes : WF_vars(Step(h))
    /\ WF_vars(BeginJob(Cron))
    /\ Serial => SF_vars(BeginJob(Cron))

Spec == Init /\ [][Next]_vars
FairSpec == Spec /\ Fairness

AllIdle == \A h \in Processes : At(h, "idle")

-----------------------------------------------------------------------------
(* Money and service.                                                      *)

\* The payments of subscription s that the ledger has recorded.
RecordedFor(s) == {p \in revenue : payments[p].sub = s}

(***************************************************************************)
(* No paid service without recorded revenue: a subscription that began as  *)
(* a checkout leaves PENDING only when a payment of it is in the ledger,   *)
(* whatever requests, webhooks, jobs and crashes interleave                *)
(* (confirm() posts before it activates).                                  *)
(***************************************************************************)
PaidServiceIsRecorded ==
    \A s \in Stored :
        subs[s].origin = "checkout" /\ subs[s].status # "PENDING"
            => RecordedFor(s) # {}

(***************************************************************************)
(* A payment the ledger has recorded, or whose period was added, never     *)
(* looks untouched again: no stale save brings back PENDING.               *)
(***************************************************************************)
RecordedIsNotPending ==
    \A p \in revenue \cup applied : payments[p].status # "PENDING"

PaidTime(s) == SumFunction([p \in RecordedFor(s) |-> Period[payments[p].plan]])

\* What a subscription was given without a payment.
GivenTime(s) ==
    CASE subs[s].origin = "checkout" -> 0
      [] subs[s].origin = "free"     -> Period[FreePlan]
      [] subs[s].origin = "grant"    -> GrantPeriod

(***************************************************************************)
(* A running subscription never has more time left than its recorded       *)
(* payments and its gift add up to: no payment is applied twice            *)
(* (confirmFromGateway: "Idempotente se já PAID com o mesmo                *)
(* externalTransactionId").                                                *)
(***************************************************************************)
ServiceNeverExceedsPayments ==
    \A s \in ActiveSubs : subs[s].end - now <= PaidTime(s) + GivenTime(s)

(***************************************************************************)
(* "alreadyProcessed: true" is the truth: the period of the payment was    *)
(* added ("Confirmar pagamento (idempotente)", POST payments/:id/confirm). *)
(***************************************************************************)
AlreadyProcessedMeansApplied == alreadyProcessed \subseteq applied

(***************************************************************************)
(* "renews without losing remaining paid days": a payment of a             *)
(* subscription that still runs extends it by its period, from its end.    *)
(***************************************************************************)
NoPaidDayLost ==
    [][\A p \in applied' \ applied :
          LET s == payments[p].sub IN
          IsValidNow(subs[s], now) =>
              subs'[s].end = subs[s].end + Period[payments[p].plan]]_vars

(***************************************************************************)
(* Recorded money is not forgotten: its period is added to the             *)
(* subscription in the end.                                                *)
(***************************************************************************)
RecordedIsApplied == \A p \in Payments : p \in revenue ~> p \in applied

-----------------------------------------------------------------------------
(* Subscriptions and the school's status.                                  *)

(***************************************************************************)
(* Between requests at most one subscription of the school is valid: the   *)
(* one findValidActiveBySchoolId is meant to find.                         *)
(***************************************************************************)
AtMostOneValid == AllIdle => Cardinality(ValidActive) <= 1

(***************************************************************************)
(* When the owners are told "A subscrição está activa", it is: the paid    *)
(* subscription is the one that is ACTIVE, and the school is not left      *)
(* waiting for a payment.                                                  *)
(***************************************************************************)
NotifiedIsActive ==
    \A h \in Processes : At(h, "confirm.event") =>
        /\ ActiveSubs = {frame[h].s}
        /\ school \notin {"DRAFT", "PENDING_PAYMENT", "EXPIRED"}

(***************************************************************************)
(* Only the admin lifts a suspension (activateAfterPaidSubscription leaves *)
(* SUSPENDED alone).                                                       *)
(***************************************************************************)
SuspensionStands ==
    [][school = "SUSPENDED" /\ school' # "SUSPENDED"
          => \E h \in Processes : At(h, "admin.save")]_vars

(***************************************************************************)
(* A school expires only when no subscription serves it any more, whoever  *)
(* finds the due one: the job, a dashboard or the FREE plan.               *)
(***************************************************************************)
SchoolExpiresOnlyUnserved ==
    [][school = "ACTIVE" /\ school' = "EXPIRED" => ValidActive = {}]_vars

(***************************************************************************)
(* "e idempotente - nao cria segunda FREE" (the specification of           *)
(* ActivateSchoolFreePlanUseCase): a school gets the FREE plan once.       *)
(***************************************************************************)
OneFreePlan == Cardinality({s \in Stored : subs[s].origin = "free"}) <= 1

(***************************************************************************)
(* The end of its last subscription reaches an ACTIVE school, whichever    *)
(* request finds the subscription due: nobody ends the subscription and    *)
(* leaves the school ACTIVE.  (A school approved after that end, or with a *)
(* checkout that was never paid, is ACTIVE without a subscription, and     *)
(* nothing is due that would end it: approveFromReview asks for none.)     *)
(***************************************************************************)
ExpiryReachesTheSchool ==
    school = "ACTIVE" /\ ValidActive = {} /\ DueAt(now) # {}
        ~> school # "ACTIVE" \/ ValidActive # {}

(***************************************************************************)
(* The job gets to every subscription that is due, through crashes and     *)
(* stale saves.                                                            *)
(***************************************************************************)
DueExpires ==
    \A s \in Subs : IsDue(subs[s], now) ~> ~IsDue(subs[s], now)
=============================================================================
