---------------------------- MODULE BillingState ----------------------------
(***************************************************************************)
(* The database of one school's billing and the requests being served.     *)
(*                                                                         *)
(* A request is a frame: the step it is at, and what the use case holds in *)
(* memory (copies of rows, read earlier and perhaps stale by now).  The    *)
(* code between two awaits runs without interruption, so an action is one  *)
(* database statement with the computation before it.  No use case of      *)
(* billing runs in a transaction: PrismaUnitOfWork is injected nowhere, so *)
(* every save is committed at once, and overwrites the whole row.          *)
(***************************************************************************)
EXTENDS BillingAggregates, FiniteSets

CONSTANTS
    Handlers,      \* HTTP requests served at the same time
    Cron,          \* the hourly job
    Operations,    \* Operations[h]: the use cases h serves in this instance
    SwitchedPlans, \* the plans the admin switches on and off
    AdminTargets,  \* the statuses the admin may set
    GivenIds,      \* ids a confirmation may come with, NoId for none
    GatewayId,     \* the id the simulated gateway returns
    DefaultId,     \* EXP-<payment id>
    Simulated,     \* PAYMENT_GATEWAY is "simulated"
    Serial,        \* one request at a time
    MaxSubs, MaxPayments, MaxTime, MaxFaults

ASSUME IdsAssumption ==
    /\ {GatewayId, DefaultId} \subseteq ExternalIds
    /\ GivenIds \subseteq ExternalIds \cup {NoId}
ASSUME TargetsAssumption == AdminTargets \subseteq SchoolStatus
ASSUME SwitchedAssumption == SwitchedPlans \subseteq Plans
ASSUME BoundsAssumption ==
    /\ MaxSubs \in Nat
    /\ MaxPayments \in Nat
    /\ MaxTime \in Nat
    /\ MaxFaults \in Nat

Processes == Handlers \cup {Cron}
Subs == 1..MaxSubs
Payments == 1..MaxPayments

VARIABLES
    now,
    planIsActive,     \* the plans whose isActive is true
    school,           \* schools.status
    subs,             \* subscriptions, by id, ids in the order of createdAt
    payments,         \* payments, by id
    revenue,          \* payments whose revenue entry is in the ledger
    receipt,          \* payments whose receipt entry is in the ledger
    frame,            \* the request a process is serving
    faults,           \* exceptions and crashes so far
    applied,          \* history: payments whose period a save has added
    alreadyProcessed  \* history: payments answered alreadyProcessed: true

vars == <<now, planIsActive, school, subs, payments, revenue, receipt, frame,
          faults, applied, alreadyProcessed>>
ledger == <<revenue, receipt>>
history == <<applied, alreadyProcessed>>
world == <<now, planIsActive, faults>>

NoSub ==
    [status |-> "NONE", plan |-> FreePlan, end |-> NoDate,
     cancelAtPeriodEnd |-> FALSE, origin |-> "checkout"]
NoPayment ==
    [status |-> "NONE", externalId |-> NoId, plan |-> FreePlan, sub |-> 0]

Steps ==
    {"idle",
     "checkout.resolve", "checkout.newSub", "checkout.create",
     "checkout.gateway", "checkout.save",
     "confirm.subscription", "confirm.plan", "confirm.save",
     "confirm.revenue", "confirm.receipt", "confirm.apply", "confirm.others",
     "confirm.expire", "confirm.school", "confirm.saveSchool", "confirm.event",
     "fail.save", "cancel.save",
     "job.save", "job.check", "job.school", "job.saveSchool",
     "dashboard.save", "dashboard.school", "dashboard.saveSchool",
     "free.plan", "free.find", "free.save", "free.saveSchool", "free.valid",
     "free.create",
     "admin.list", "admin.close", "admin.grant", "admin.save",
     "submit.plan", "submit.save", "review.save"}

\* A row read earlier: its id and the copy.
Rows == [id : Subs, row : Subscription]

Frame ==
    [at      : Steps,
     p       : Nat,                \* the payment's id
     payment : Payment,            \* ... as held in memory
     s       : Nat,                \* the subscription's id
     sub     : Subscription,       \* ... as held in memory
     plan    : Plans,
     action  : {"subscribe", "renew", "upgrade"},
     planIsActive : BOOLEAN,       \* plan.isActive as read
     id      : ExternalIds \cup {NoId},
     alreadyPaid  : BOOLEAN,
     duplicated   : BOOLEAN,       \* the answer of the ledger
     t       : Nat,                \* the request's own now
     rest    : SUBSET Rows,        \* a findMany result not yet gone through
     school  : SchoolStatus,       \* the school's status as held in memory
     target  : SchoolStatus]       \* the status the admin or a reviewer asked for

Idle ==
    [at |-> "idle", p |-> 0, payment |-> NoPayment, s |-> 0, sub |-> NoSub,
     plan |-> FreePlan, action |-> "subscribe", planIsActive |-> FALSE,
     id |-> NoId, alreadyPaid |-> FALSE, duplicated |-> FALSE, t |-> 0,
     rest |-> {}, school |-> "DRAFT", target |-> "DRAFT"]

(***************************************************************************)
(* The rows and the copies of them that requests hold have the columns'    *)
(* types, through every stale save.                                        *)
(***************************************************************************)
TypeOK ==
    /\ now \in Nat
    /\ planIsActive \in SUBSET Plans
    /\ school \in SchoolStatus
    /\ subs \in [Subs -> Subscription]
    /\ payments \in [Payments -> Payment]
    /\ revenue \in SUBSET Payments
    /\ receipt \in SUBSET Payments
    /\ frame \in [Processes -> Frame]
    /\ faults \in Nat
    /\ applied \in SUBSET Payments
    /\ alreadyProcessed \in SUBSET Payments

Init ==
    /\ now = 1
    /\ planIsActive = Plans
    /\ school = "DRAFT"
    /\ subs = [s \in Subs |-> NoSub]
    /\ payments = [p \in Payments |-> NoPayment]
    /\ revenue = {}
    /\ receipt = {}
    /\ frame = [h \in Processes |-> Idle]
    /\ faults = 0
    /\ applied = {}
    /\ alreadyProcessed = {}

-----------------------------------------------------------------------------
(* Queries of the subscription repository.                                 *)

Stored == {s \in Subs : subs[s].status # "NONE"}
NewId == Cardinality(Stored) + 1

\* The bounds on ids: a request that may need a row begins while there is one.
RoomForSub == NewId \in Subs
RoomForPayment == \E p \in Payments : payments[p].status = "NONE"

\* findFirst ordered by createdAt: one row, or none.
Newest(ids) == {s \in ids : \A other \in ids : other <= s}
Oldest(ids) == {s \in ids : \A other \in ids : s <= other}

\* findValidActiveBySchoolId takes its own now, the clock's.
ValidActive == {s \in Stored : IsValidNow(subs[s], now)}
DueAt(t) == {s \in Stored : IsDue(subs[s], t)}
FreeSubs == {s \in Stored : subs[s].plan = FreePlan}
ActiveSubs == {s \in Stored : subs[s].status = "ACTIVE"}

ReadRows(ids) == {[id |-> s, row |-> subs[s]] : s \in ids}

-----------------------------------------------------------------------------
(* Frames.                                                                 *)

At(h, step) == frame[h].at = step

\* A request arrives.
Begin(h, operation) ==
    /\ operation \in Operations[h]
    /\ At(h, "idle")
    /\ Serial => \A g \in Processes : At(g, "idle")

\* The request goes on, holding what f holds.
Become(h, f) == frame' = [frame EXCEPT ![h] = f]
Goto(h, step) == Become(h, [frame[h] EXCEPT !.at = step])

\* The request has answered, or thrown.
Return(h) == Become(h, Idle)

SaveSub(s, row) == subs' = [subs EXCEPT ![s] = row]
SavePayment(p, row) == payments' = [payments EXCEPT ![p] = row]

-----------------------------------------------------------------------------
(* The surroundings.                                                       *)

Tick ==
    /\ now < MaxTime
    /\ now' = now + 1
    /\ UNCHANGED <<planIsActive, school, subs, payments, ledger, frame, faults, history>>

\* CreateOrUpdatePlanUseCase with isActive, one statement of its own transaction.
SetPlanActive(plan, isActive) ==
    /\ planIsActive' = IF isActive THEN planIsActive \cup {plan}
                                   ELSE planIsActive \ {plan}
    /\ UNCHANGED <<now, school, subs, payments, ledger, frame, faults, history>>

\* A statement fails, or the process is lost: what is committed stays, what
\* the request held in memory goes.
Abort(h) ==
    /\ ~At(h, "idle")
    /\ faults < MaxFaults
    /\ faults' = faults + 1
    /\ Return(h)
    /\ UNCHANGED <<now, planIsActive, school, subs, payments, ledger, history>>
=============================================================================
