------------------------- MODULE BillingSerialProofs -------------------------
(***************************************************************************)
(* What billing guarantees when one request is served at a time, for every *)
(* number of plans, subscriptions, payments, handlers and days.            *)
(*                                                                         *)
(* Serial is not what the server does: two requests do interleave, and     *)
(* MCBillingDoubleConfirm shows what is lost then, MCBillingRetry what one *)
(* failure does.  The theorems say that nothing but interleaving, failures *)
(* (MaxFaults) and a paid plan switched off (SwitchedPlans) breaks these   *)
(* properties; each one excludes only what its own proof needs.            *)
(*                                                                         *)
(*   SerialInv      nothing a request holds is stale                       *)
(*   MoneyInv       no payment is applied twice, no day given away         *)
(*   ActivationInv  the paid subscription becomes the one that runs        *)
(*   OrderInv       the newest subscription is the one that runs           *)
(*   CompletionInv  a PAID payment is applied                              *)
(*                                                                         *)
(* Each is inductive relative to the ones before it.                       *)
(***************************************************************************)
EXTENDS BillingProofs, SumLemmas

\* At most one request is being served.
OneAtATime ==
    \A g, h \in Processes : ~At(g, "idle") /\ ~At(h, "idle") => g = h

-----------------------------------------------------------------------------
\* The ids of the rows are the first ones.
IdsAreDense == Stored = 1..Cardinality(Stored)

\* A payment is of a subscription there is.
PaymentsOfStored ==
    \A p \in Payments : payments[p].status # "NONE" => payments[p].sub \in Stored

\* Steps with a copy of a subscription whose plan may have been changed in memory.
CopySteps ==
    {"checkout.create", "checkout.gateway", "checkout.save", "confirm.plan",
     "confirm.save", "confirm.revenue", "confirm.receipt", "confirm.apply"}

\* Steps that hold a plan read to be applied.
PricedSteps ==
    {"checkout.gateway", "checkout.save", "confirm.save", "confirm.revenue",
     "confirm.receipt", "confirm.apply"}

\* Steps that go through rows found earlier.
BatchSteps ==
    {"job.save", "job.check", "job.school", "job.saveSchool", "confirm.expire",
     "admin.close"}

\* Steps of the FREE plan's activation.
FreeSteps ==
    {"free.plan", "free.find", "free.save", "free.saveSchool", "free.valid", "free.create"}

\* Steps of the admin's change of status.
AdminSteps == {"admin.list", "admin.close", "admin.grant", "admin.save"}

\* Steps about to expire the school.
ExpiringSteps == {"job.saveSchool", "dashboard.saveSchool", "free.saveSchool"}

\* The payment held is the payment's row.
PaymentIsCurrent(h) ==
    frame[h].at \in PayingSteps \cup {"fail.save"} =>
        frame[h].payment = payments[frame[h].p]

\* upgrade changes the plan of the copy only.
SameButPlan(sub, row) ==
    sub.status = row.status /\ sub.end = row.end /\ sub.origin = row.origin

\* The subscription held is the subscription's row.
SubIsCurrent(h) ==
    /\ frame[h].at \in CopySteps =>
          /\ frame[h].s \in Stored
          /\ SameButPlan(frame[h].sub, subs[frame[h].s])
    /\ frame[h].at \in OverwritingSteps =>
          frame[h].s \in Stored /\ frame[h].sub = subs[frame[h].s]
    /\ frame[h].at = "confirm.subscription" => frame[h].s \in Stored
    /\ frame[h].at = "checkout.resolve" /\ frame[h].action # "subscribe" =>
          frame[h].s \in Stored

\* The plan to apply is the plan that was paid.
PlanIsCurrent(h) ==
    frame[h].at \in PricedSteps => frame[h].plan = frame[h].payment.plan

\* The rows found earlier are the rows.
BatchIsCurrent(h) ==
    frame[h].at \in BatchSteps =>
        \A item \in frame[h].rest :
            item.id \in Stored /\ item.row = subs[item.id]

\* Steps that hold the school's status as it was read.
SchoolSteps == {"confirm.saveSchool", "submit.plan"} \cup FreeSteps \cup AdminSteps

\* The status held is the school's, ACTIVE where the school is about to expire, and
\* one to be reviewed, or under review, where a review is about to be saved.
SchoolIsCurrent(h) ==
    /\ frame[h].at \in SchoolSteps => frame[h].school = school
    /\ frame[h].at \in ExpiringSteps => school = "ACTIVE"
    /\ frame[h].at = "submit.save" => school \in Submittable
    /\ frame[h].at = "review.save" => school = "PENDING_REVIEW"

\* Nothing a request holds is stale.
Current(h) ==
    /\ frame[h].t <= now
    /\ PaymentIsCurrent(h)
    /\ SubIsCurrent(h)
    /\ PlanIsCurrent(h)
    /\ BatchIsCurrent(h)
    /\ SchoolIsCurrent(h)

\* One request at a time, and nothing it holds is stale.
SerialInv ==
    /\ OneAtATime
    /\ IdsAreDense
    /\ PaymentsOfStored
    /\ \A h \in Processes : Current(h)

-----------------------------------------------------------------------------
\* The payments of s whose period was added.
AppliedFor(s) == {p \in applied : payments[p].sub = s}

\* What these periods add up to.
AppliedTime(s) == SumFunction([p \in AppliedFor(s) |-> Period[payments[p].plan]])

\* A payment that was applied is in the ledger and settled.
AppliedIsClosed ==
    /\ applied \subseteq revenue
    /\ \A p \in applied : payments[p].status \in {"PAID", "FAILED"}

\* A confirmation reaches the save of the subscription only with a payment that
\* was not applied before: what the ledger answered tells.
Unapplied(h) ==
    /\ frame[h].at \in {"confirm.revenue", "confirm.receipt", "confirm.apply"} =>
          frame[h].payment.status = "PAID"
    /\ frame[h].at = "confirm.revenue" /\ frame[h].p \in applied => frame[h].alreadyPaid
    /\ frame[h].at = "confirm.receipt" /\ frame[h].p \in applied =>
          frame[h].alreadyPaid /\ frame[h].duplicated
    /\ frame[h].at = "confirm.apply" => frame[h].p \notin applied

\* No end is further away than what was applied and given, and no subscription
\* runs without an end.
ServiceIsBacked ==
    \A s \in Stored :
        /\ subs[s].end <= now + AppliedTime(s) + GivenTime(s)
        /\ subs[s].status = "ACTIVE" => subs[s].end # NoDate

\* The inductive invariant behind ServiceNeverExceedsPayments.
MoneyInv ==
    /\ AppliedIsClosed
    /\ ServiceIsBacked
    /\ \A h \in Processes : Unapplied(h)

-----------------------------------------------------------------------------
\* The ids of the rows still to be closed.
OthersOf(h) == {item.id : item \in frame[h].rest}

\* From the save of the paid subscription to the notification it is ACTIVE, and
\* the others are the ones still to be closed.
Activating(h) ==
    /\ frame[h].at = "confirm.others" => frame[h].s \in ActiveSubs
    /\ frame[h].at = "confirm.expire" =>
          /\ frame[h].s \in ActiveSubs
          /\ OthersOf(h) = ActiveSubs \ {frame[h].s}
    /\ frame[h].at \in {"confirm.school", "confirm.saveSchool", "confirm.event"} =>
          ActiveSubs = {frame[h].s}
    /\ frame[h].at = "confirm.event" =>
          school \notin {"DRAFT", "PENDING_PAYMENT", "EXPIRED"}

\* The inductive invariant behind NotifiedIsActive.
ActivationInv == \A h \in Processes : Activating(h)

-----------------------------------------------------------------------------
\* A confirmation has activated its subscription and not yet closed the others.
Replacing == \E h \in Processes : frame[h].at \in {"confirm.others", "confirm.expire"}

\* Of two ACTIVE subscriptions the older one is due, and not FREE.
NewestRuns ==
    \A s, t \in ActiveSubs :
        s < t => IsDue(subs[s], now) /\ subs[s].plan # FreePlan

\* A request about to expire the school found no valid subscription, one about to
\* create FREE no FREE one either, and the admin closes every ACTIVE one first.
Unserved(h) ==
    /\ frame[h].at \in {"job.school", "job.saveSchool", "dashboard.save",
                        "dashboard.school", "dashboard.saveSchool",
                        "free.save", "free.saveSchool", "free.create"} =>
          ValidActive = {}
    /\ frame[h].at \in {"free.valid", "free.create"} => FreeSubs = {}
    /\ frame[h].at = "admin.close" => OthersOf(h) = ActiveSubs
    /\ frame[h].at = "admin.grant" => ActiveSubs = {} /\ frame[h].target = "ACTIVE"
    /\ frame[h].at = "admin.save" /\ frame[h].target # "ACTIVE"
          /\ frame[h].school = "ACTIVE" => ActiveSubs = {}

\* The inductive invariant behind AtMostOneValid and SchoolExpiresOnlyUnserved.
OrderInv ==
    /\ faults = 0
    /\ Replacing \/ NewestRuns
    /\ \A h \in Processes : Unserved(h)

-----------------------------------------------------------------------------
\* The payment is between its save as PAID and the save of its subscription.
Applying(p) ==
    \E h \in Processes :
        frame[h].p = p
        /\ frame[h].at \in {"confirm.revenue", "confirm.receipt", "confirm.apply"}

\* The plan a request is about to apply is active; an alreadyPaid payment was
\* applied.
Priced(h) ==
    /\ frame[h].at \in {"checkout.resolve", "checkout.newSub", "checkout.create"}
          => frame[h].plan # FreePlan /\ frame[h].planIsActive
    /\ frame[h].at \in PricedSteps => frame[h].planIsActive
    /\ frame[h].at \in {"confirm.revenue", "confirm.receipt"} /\ frame[h].alreadyPaid
          => frame[h].p \in applied

\* The inductive invariant behind AlreadyProcessedMeansApplied: a PAID payment
\* was applied, or is being applied.
CompletionInv ==
    /\ Plans \ {FreePlan} \subseteq planIsActive
    /\ \A p \in Payments :
          /\ payments[p].status # "NONE" => payments[p].plan # FreePlan
          /\ payments[p].status = "PAID" => p \in applied \/ Applying(p)
    /\ AlreadyProcessedMeansApplied
    /\ \A h \in Processes : Priced(h)
-----------------------------------------------------------------------------
\* h is being served, or nobody is.
Ready(h) == ~At(h, "idle") \/ \A g \in Processes : At(g, "idle")

\* A frame is replaced, the others stay.
LEMMA Moved ==
    ASSUME IInv, NEW h \in Processes, NEW f, Become(h, f)
    PROVE  frame'[h] = f /\ \A g \in Processes : g # h => frame'[g] = frame[g]
BY DEF IInv, TypeOK, Become

\* While h is served the others are idle.
LEMMA OthersIdle ==
    ASSUME IInv, OneAtATime, NEW h \in Processes, Ready(h), NEW f, Become(h, f)
    PROVE  /\ OneAtATime'
           /\ \A g \in Processes : g # h => frame'[g] = frame[g] /\ frame'[g].at = "idle"
BY Moved DEF OneAtATime, At, Ready

\* An idle frame holds nothing that could be stale.
LEMMA IdleIsCurrent ==
    ASSUME NEW h \in Processes, frame'[h].at = "idle", frame'[h].t <= now'
    PROVE  Current(h)'
BY DEF Current, PaymentIsCurrent, SubIsCurrent, PlanIsCurrent, BatchIsCurrent,
   SchoolIsCurrent, PayingSteps, CopySteps, OverwritingSteps, PricedSteps, BatchSteps,
   FreeSteps, AdminSteps, SchoolSteps, ExpiringSteps

\* A step of h keeps SerialInv when its new frame is current and the rows are
\* still the first ids.
LEMMA SerialMove ==
    ASSUME IInv, SerialInv, NEW h \in Processes, Ready(h), NEW f, Become(h, f),
           now' = now, Current(h)', IdsAreDense', PaymentsOfStored'
    PROVE  SerialInv'
<1>1. /\ OneAtATime'
      /\ \A g \in Processes : g # h => frame'[g] = frame[g] /\ frame'[g].at = "idle"
  BY OthersIdle DEF SerialInv
<1>2. ASSUME NEW g \in Processes PROVE Current(g)'
  <2>1. CASE g = h
    BY <2>1
  <2>2. CASE g # h
    BY <1>1, <2>2, IdleIsCurrent DEF SerialInv, Current
  <2> QED
    BY <2>1, <2>2
<1> QED
  BY <1>1, <1>2 DEF SerialInv

\* A step that saves no row keeps SerialInv when its new frame is current.
LEMMA SerialQuiet ==
    ASSUME IInv, SerialInv, NEW h \in Processes, Ready(h), NEW f, Become(h, f),
           UNCHANGED <<now, subs, payments>>, Current(h)'
    PROVE  SerialInv'
<1>1. IdsAreDense' /\ PaymentsOfStored'
  BY DEF SerialInv, IdsAreDense, PaymentsOfStored, Stored
<1> QED
  BY <1>1, SerialMove

\* An answer keeps SerialInv when the rows are still the first ids.
LEMMA SerialReturn ==
    ASSUME IInv, SerialInv, NEW h \in Processes, Ready(h), Return(h), now' = now,
           IdsAreDense', PaymentsOfStored'
    PROVE  SerialInv'
<1>1. frame'[h] = Idle /\ now \in Nat
  BY Moved DEF Return, IInv, TypeOK
<1>2. Current(h)'
  BY <1>1, IdleIsCurrent DEF Idle
<1> QED
  BY <1>2, SerialMove DEF Return

\* An answer that saves nothing keeps SerialInv.
LEMMA SerialAnswer ==
    ASSUME IInv, SerialInv, NEW h \in Processes, Ready(h), Return(h),
           UNCHANGED <<now, subs, payments>>
    PROVE  SerialInv'
<1>1. IdsAreDense' /\ PaymentsOfStored'
  BY DEF SerialInv, IdsAreDense, PaymentsOfStored, Stored
<1> QED
  BY <1>1, SerialReturn

\* NewId is the first id without a row.
LEMMA NewIdIsNext ==
    ASSUME IInv, IdsAreDense
    PROVE  /\ IsFiniteSet(Stored) /\ Cardinality(Stored) \in Nat
           /\ NewId \in Nat /\ NewId \notin Stored
           /\ \A s \in Stored : s \in Nat /\ s < NewId
<1>1. IsFiniteSet(Subs)
  BY FS_Interval, BoundsAssumption DEF Subs
<1>2. IsFiniteSet(Stored) /\ Cardinality(Stored) \in Nat
  BY <1>1, FS_Subset, FS_CardinalityType DEF Stored
<1> QED
  BY <1>2 DEF IdsAreDense, NewId

\* A row saved again.
LEMMA StoredSaved ==
    ASSUME IInv, IdsAreDense, PaymentsOfStored, NEW s \in Stored, NEW row,
           row.status # "NONE", SaveSub(s, row), UNCHANGED payments
    PROVE  /\ Stored' = Stored /\ IdsAreDense' /\ PaymentsOfStored'
           /\ \A t \in Subs : subs'[t] = IF t = s THEN row ELSE subs[t]
<1>1. \A t \in Subs : subs'[t] = IF t = s THEN row ELSE subs[t]
  BY DEF SaveSub, IInv, TypeOK, Stored
<1>2. Stored' = Stored
  BY <1>1 DEF Stored
<1> QED
  BY <1>1, <1>2 DEF IdsAreDense, PaymentsOfStored

\* A new row.
LEMMA NewSaved ==
    ASSUME IInv, IdsAreDense, PaymentsOfStored, NewId \in Subs, NEW row,
           row.status # "NONE", SaveSub(NewId, row), UNCHANGED payments
    PROVE  /\ Stored' = Stored \cup {NewId} /\ IdsAreDense' /\ PaymentsOfStored'
           /\ \A t \in Subs : subs'[t] = IF t = NewId THEN row ELSE subs[t]
<1>1. \A t \in Subs : subs'[t] = IF t = NewId THEN row ELSE subs[t]
  BY DEF SaveSub, IInv, TypeOK
<1>2. Stored' = Stored \cup {NewId}
  BY <1>1 DEF Stored
<1>3. /\ IsFiniteSet(Stored) /\ Cardinality(Stored) \in Nat
      /\ NewId \in Nat /\ NewId \notin Stored
  BY NewIdIsNext
<1>4. Cardinality(Stored') = NewId
  BY <1>2, <1>3, FS_AddElement DEF NewId
<1>5. Stored' = 1..NewId
  BY <1>2, <1>3 DEF IdsAreDense, NewId
<1> QED
  BY <1>1, <1>2, <1>4, <1>5 DEF IdsAreDense, PaymentsOfStored

\* A payment saved.
LEMMA PaymentRowSaved ==
    ASSUME IInv, IdsAreDense, PaymentsOfStored, NEW p \in Payments, NEW row,
           row.sub \in Stored, SavePayment(p, row), UNCHANGED subs
    PROVE  /\ IdsAreDense' /\ PaymentsOfStored' /\ Stored' = Stored
           /\ \A q \in Payments : payments'[q] = IF q = p THEN row ELSE payments[q]
<1>1. \A q \in Payments : payments'[q] = IF q = p THEN row ELSE payments[q]
  BY DEF SavePayment, IInv, TypeOK
<1>2. Stored' = Stored
  BY DEF Stored
<1> QED
  BY <1>1, <1>2 DEF IdsAreDense, PaymentsOfStored

\* The checkout.
LEMMA CheckoutSerial ==
    ASSUME IInv, SerialInv, Serial, NEW h \in Processes,
           BeginCheckout(h) \/ CheckoutStep(h)
    PROVE  SerialInv'
<1> USE DEF At, Goto, Begin, Ready, Current, PaymentIsCurrent, SubIsCurrent,
    PlanIsCurrent, BatchIsCurrent, SchoolIsCurrent, PayingSteps, CopySteps,
    OverwritingSteps, PricedSteps, BatchSteps, FreeSteps, AdminSteps, SchoolSteps,
    ExpiringSteps
<1>0. /\ frame[h] \in Frame /\ FrameInv(frame[h]) /\ Current(h)
      /\ OneAtATime /\ IdsAreDense /\ PaymentsOfStored /\ now \in Nat
      /\ subs \in [Subs -> Subscription]
      /\ payments \in [Payments -> Payment]
  BY FrameFacts DEF SerialInv
<1>1. CASE BeginCheckout(h)
  <2>1. PICK action \in {"subscribe", "renew", "upgrade"},
             plan \in planIsActive \ {FreePlan}, s \in {0} \cup Stored :
          /\ (s = 0) <=> (action = "subscribe")
          /\ Become(h, [Idle EXCEPT !.at = "checkout.resolve", !.action = action,
                                    !.plan = plan, !.planIsActive = TRUE, !.s = s])
    BY <1>1 DEF BeginCheckout
  <2> DEFINE g == [Idle EXCEPT !.at = "checkout.resolve", !.action = action,
                               !.plan = plan, !.planIsActive = TRUE, !.s = s]
  <2>2. frame'[h] = g
    BY <2>1, Moved
  <2>3. /\ frame'[h].at = "checkout.resolve" /\ frame'[h].t = 0
        /\ frame'[h].action = action /\ frame'[h].s = s
    BY <2>2 DEF Idle
  <2> HIDE DEF g
  <2>4. Stored' = Stored /\ now' = now /\ (action # "subscribe" => s \in Stored)
    BY <1>1, <2>1 DEF BeginCheckout, Stored, world
  <2>5. Current(h)'
    BY <1>0, <2>3, <2>4
  <2> QED
    BY <1>1, <2>1, <2>5, SerialQuiet DEF BeginCheckout, world
<1>2. CASE ResolveSubscription(h)
  <2>1. CASE Goto(h, "checkout.newSub")
    <3>1. frame'[h] = [frame[h] EXCEPT !.at = "checkout.newSub"]
      BY <2>1, Moved
    <3>2. Current(h)'
      BY <1>0, <1>2, <3>1 DEF ResolveSubscription, Frame, world
    <3> QED
      BY <1>2, <2>1, <3>2, SerialQuiet DEF ResolveSubscription, world
  <2>2. CASE ~Goto(h, "checkout.newSub")
    <3>1. PICK s \in IF frame[h].action = "subscribe"
                     THEN {x \in Newest(ValidActive) : subs[x].plan = frame[h].plan}
                     ELSE {frame[h].s} :
            Become(h, [frame[h] EXCEPT !.at = "checkout.create", !.s = s,
                       !.sub = IF frame[h].action = "upgrade"
                               THEN ChangePlan(subs[s], frame[h].plan) ELSE subs[s]])
      BY <1>2, <2>2 DEF ResolveSubscription
    <3>2. s \in Stored /\ s \in Subs
      BY <1>0, <1>2, <3>1 DEF Newest, ValidActive, Stored, ResolveSubscription
    <3>3. frame'[h] = [frame[h] EXCEPT !.at = "checkout.create", !.s = s,
                       !.sub = IF frame[h].action = "upgrade"
                               THEN ChangePlan(subs[s], frame[h].plan) ELSE subs[s]]
      BY <3>1, Moved
    <3>4. /\ frame'[h].at = "checkout.create" /\ frame'[h].s = s
          /\ frame'[h].t = frame[h].t
          /\ SameButPlan(frame'[h].sub, subs[s])
      BY <1>0, <3>2, <3>3 DEF SameButPlan, ChangePlan, Subscription, Frame
    <3>5. Current(h)'
      BY <1>0, <1>2, <3>2, <3>4 DEF ResolveSubscription, world, Stored, SameButPlan
    <3> QED
      BY <1>2, <3>1, <3>5, SerialQuiet DEF ResolveSubscription, world
  <2> QED
    BY <2>1, <2>2
<1>3. CASE CreatePendingSubscription(h)
  <2> DEFINE row == CreatePending(frame[h].plan)
  <2>1. row.status = "PENDING"
    BY DEF CreatePending, NewSubscription
  <2>2. /\ Stored' = Stored \cup {NewId} /\ IdsAreDense' /\ PaymentsOfStored'
        /\ NewId \in Subs /\ subs'[NewId] = row
    BY <1>0, <1>3, <2>1, NewSaved DEF CreatePendingSubscription
  <2>3. frame'[h] = [frame[h] EXCEPT !.at = "checkout.create", !.s = NewId, !.sub = row]
    BY <1>3, Moved DEF CreatePendingSubscription
  <2>4. /\ frame'[h].at = "checkout.create" /\ frame'[h].s = NewId
        /\ frame'[h].t = frame[h].t /\ frame'[h].sub = row
    BY <1>0, <2>3 DEF Frame
  <2> HIDE DEF row
  <2>5. Current(h)'
    BY <1>0, <1>3, <2>2, <2>4 DEF CreatePendingSubscription, world, SameButPlan
  <2> QED
    BY <1>3, <2>2, <2>5, SerialMove DEF CreatePendingSubscription, world
<1>4. CASE CreatePendingPayment(h)
  <2> DEFINE payment == CreatePayment(frame[h].plan, frame[h].s)
  <2>1. PICK p \in Payments :
          /\ SavePayment(p, payment)
          /\ Become(h, [frame[h] EXCEPT !.at = "checkout.gateway", !.p = p,
                                        !.payment = payment])
    BY <1>4 DEF CreatePendingPayment
  <2>2. payment.sub = frame[h].s /\ payment.plan = frame[h].plan
        /\ frame[h].s \in Stored
        /\ SameButPlan(frame[h].sub, subs[frame[h].s])
    BY <1>0, <1>4 DEF CreatePayment, CreatePendingPayment
  <2>3. frame'[h] = [frame[h] EXCEPT !.at = "checkout.gateway", !.p = p,
                                     !.payment = payment]
    BY <2>1, Moved
  <2>4. /\ frame'[h].at = "checkout.gateway" /\ frame'[h].p = p
        /\ frame'[h].payment = payment /\ frame'[h].s = frame[h].s
        /\ frame'[h].sub = frame[h].sub /\ frame'[h].plan = frame[h].plan
        /\ frame'[h].t = frame[h].t
    BY <1>0, <2>3 DEF Frame
  <2> HIDE DEF payment
  <2>5. /\ IdsAreDense' /\ PaymentsOfStored' /\ Stored' = Stored
        /\ payments'[p] = payment
    BY <1>0, <1>4, <2>1, <2>2, PaymentRowSaved DEF CreatePendingPayment
  <2>6. Current(h)'
    BY <1>0, <1>4, <2>2, <2>4, <2>5 DEF CreatePendingPayment, world, SameButPlan
  <2> QED
    BY <1>4, <2>1, <2>5, <2>6, SerialMove DEF CreatePendingPayment, world
<1>5. CASE GatewayAnswers(h)
  <2>1. CASE Return(h)
    BY <1>5, <2>1, SerialAnswer DEF GatewayAnswers, world
  <2>2. CASE Goto(h, "checkout.save")
    <3>1. frame'[h] = [frame[h] EXCEPT !.at = "checkout.save"]
      BY <2>2, Moved
    <3>2. Current(h)'
      BY <1>0, <1>5, <3>1 DEF GatewayAnswers, Frame, world, SameButPlan, Stored
    <3> QED
      BY <1>5, <2>2, <3>2, SerialQuiet DEF GatewayAnswers, world
  <2> QED
    BY <1>5, <2>1, <2>2 DEF GatewayAnswers
<1>6. CASE SaveProcessing(h)
  <2> DEFINE payment == MarkProcessing(frame[h].payment)
  <2>1. /\ frame[h].p \in Payments /\ frame[h].payment = payments[frame[h].p]
        /\ frame[h].payment.sub \in Stored
        /\ frame[h].s \in Stored /\ frame[h].plan = frame[h].payment.plan
        /\ SameButPlan(frame[h].sub, subs[frame[h].s])
    BY <1>0, <1>6 DEF SaveProcessing, FrameInv, HoldsPayment, PaymentsOfStored
  <2>2. payment.sub = frame[h].payment.sub /\ payment.plan = frame[h].payment.plan
    BY <1>0 DEF MarkProcessing, Frame, Payment
  <2> HIDE DEF payment
  <2>3. /\ IdsAreDense' /\ PaymentsOfStored' /\ Stored' = Stored
        /\ payments'[frame[h].p] = payment
    BY <1>0, <1>6, <2>1, <2>2, PaymentRowSaved DEF SaveProcessing, payment
  <2>4. CASE Return(h)
    BY <1>6, <2>3, <2>4, SerialReturn DEF SaveProcessing, world
  <2>5. CASE ~Return(h)
    <3> DEFINE g == [frame[h] EXCEPT !.at = "confirm.save",
                    !.payment = payment, !.id = GatewayId, !.t = now]
    <3>1. Become(h, g)
      BY <1>6, <2>5 DEF SaveProcessing, payment
    <3>2. frame'[h] = g
      BY <3>1, Moved
    <3>3. /\ frame'[h].at = "confirm.save" /\ frame'[h].p = frame[h].p
          /\ frame'[h].payment = payment /\ frame'[h].s = frame[h].s
          /\ frame'[h].sub = frame[h].sub /\ frame'[h].plan = frame[h].plan
          /\ frame'[h].t = now
      BY <1>0, <3>2 DEF Frame
    <3>4. Current(h)'
      BY <1>0, <1>6, <2>1, <2>2, <2>3, <3>3 DEF SaveProcessing, world, SameButPlan
    <3> QED
      BY <1>6, <2>3, <3>1, <3>4, SerialMove DEF SaveProcessing, world
  <2> QED
    BY <2>4, <2>5
<1> QED
  BY <1>1, <1>2, <1>3, <1>4, <1>5, <1>6 DEF CheckoutStep
\* The confirmation.
LEMMA ConfirmSerial ==
    ASSUME IInv, SerialInv, Serial, NEW h \in Processes,
           BeginConfirm(h) \/ ConfirmStep(h)
    PROVE  SerialInv'
<1> USE DEF At, Goto, Begin, Ready, Current, PaymentIsCurrent, SubIsCurrent,
    PlanIsCurrent, BatchIsCurrent, SchoolIsCurrent, PayingSteps, CopySteps,
    OverwritingSteps, PricedSteps, BatchSteps, FreeSteps, AdminSteps, SchoolSteps,
    ExpiringSteps
<1>0. /\ frame[h] \in Frame /\ FrameInv(frame[h]) /\ Current(h)
      /\ OneAtATime /\ IdsAreDense /\ PaymentsOfStored /\ now \in Nat
      /\ subs \in [Subs -> Subscription]
      /\ payments \in [Payments -> Payment]
  BY FrameFacts DEF SerialInv
<1>1. CASE BeginConfirm(h)
  <2>1. PICK p \in Payments, given \in GivenIds :
          /\ payments[p].status # "NONE"
          /\ Become(h, [Idle EXCEPT
                !.at = "confirm.subscription", !.p = p, !.payment = payments[p],
                !.s = payments[p].sub,
                !.id = IF given # NoId THEN given
                       ELSE IF payments[p].externalId # NoId
                       THEN payments[p].externalId ELSE DefaultId])
    BY <1>1 DEF BeginConfirm
  <2> DEFINE g == [Idle EXCEPT
                !.at = "confirm.subscription", !.p = p, !.payment = payments[p],
                !.s = payments[p].sub,
                !.id = IF given # NoId THEN given
                       ELSE IF payments[p].externalId # NoId
                       THEN payments[p].externalId ELSE DefaultId]
  <2>a. frame'[h] = g
    BY <2>1, Moved
  <2>2. /\ frame'[h].at = "confirm.subscription" /\ frame'[h].p = p
        /\ frame'[h].payment = payments[p] /\ frame'[h].s = payments[p].sub
        /\ frame'[h].t = 0
    BY <2>a DEF Idle
  <2> HIDE DEF g
  <2>3. UNCHANGED <<now, subs, payments>> /\ Stored' = Stored
    BY <1>1 DEF BeginConfirm, world, Stored
  <2>4. Current(h)'
    BY <1>0, <2>1, <2>2, <2>3 DEF PaymentsOfStored
  <2> QED
    BY <1>1, <2>1, <2>3, <2>4, SerialQuiet DEF BeginConfirm
<1>2. CASE FindSubscription(h)
  <2>1. frame'[h] = [frame[h] EXCEPT !.at = "confirm.plan", !.sub = subs[frame[h].s]]
    BY <1>2, Moved DEF FindSubscription
  <2>2. UNCHANGED <<now, subs, payments>> /\ Stored' = Stored
    BY <1>2 DEF FindSubscription, world, Stored
  <2>3. Current(h)'
    BY <1>0, <1>2, <2>1, <2>2 DEF FindSubscription, Frame, SameButPlan
  <2> QED
    BY <1>2, <2>2, <2>3, SerialQuiet DEF FindSubscription
<1>3. CASE FindPlan(h)
  <2> DEFINE plan == frame[h].payment.plan
  <2>1. frame'[h] = [frame[h] EXCEPT !.at = "confirm.save", !.plan = plan,
                    !.planIsActive = plan \in planIsActive, !.t = now]
    BY <1>3, Moved DEF FindPlan
  <2>2. UNCHANGED <<now, subs, payments>> /\ Stored' = Stored
    BY <1>3 DEF FindPlan, world, Stored
  <2>3. Current(h)'
    BY <1>0, <1>3, <2>1, <2>2 DEF FindPlan, Frame, SameButPlan
  <2> QED
    BY <1>3, <2>2, <2>3, SerialQuiet DEF FindPlan
<1>4. CASE SaveConfirmed(h)
  <2>1. CASE Return(h) /\ UNCHANGED payments
    BY <1>4, <2>1, SerialAnswer DEF SaveConfirmed, world
  <2>2. CASE ~(Return(h) /\ UNCHANGED payments)
    <3> DEFINE payment == ConfirmFromGateway(frame[h].payment, frame[h].id)
               g == [frame[h] EXCEPT !.at = "confirm.revenue", !.payment = payment,
                                     !.alreadyPaid = frame[h].payment.status = "PAID"]
    <3>1. SavePayment(frame[h].p, payment) /\ Become(h, g) /\ now' = now
          /\ UNCHANGED subs
      BY <1>4, <2>2 DEF SaveConfirmed, world
    <3>2. /\ frame[h].p \in Payments /\ frame[h].payment = payments[frame[h].p]
          /\ frame[h].payment.sub \in Stored
          /\ frame[h].s \in Stored /\ frame[h].plan = frame[h].payment.plan
          /\ SameButPlan(frame[h].sub, subs[frame[h].s])
      BY <1>0, <1>4 DEF SaveConfirmed, FrameInv, HoldsPayment, PaymentsOfStored
    <3>3. payment.sub = frame[h].payment.sub /\ payment.plan = frame[h].payment.plan
      BY <1>0 DEF ConfirmFromGateway, Frame, Payment
    <3>a. frame'[h] = g
      BY <3>1, Moved
    <3>4. /\ frame'[h].at = "confirm.revenue" /\ frame'[h].p = frame[h].p
          /\ frame'[h].payment = payment /\ frame'[h].s = frame[h].s
          /\ frame'[h].sub = frame[h].sub /\ frame'[h].plan = frame[h].plan
          /\ frame'[h].t = frame[h].t
      BY <1>0, <3>a DEF Frame
    <3> HIDE DEF payment, g
    <3>5. /\ IdsAreDense' /\ PaymentsOfStored' /\ Stored' = Stored
          /\ payments'[frame[h].p] = payment
      BY <1>0, <3>1, <3>2, <3>3, PaymentRowSaved
    <3>6. Current(h)'
      BY <1>0, <3>1, <3>2, <3>3, <3>4, <3>5 DEF SameButPlan
    <3> QED
      BY <1>4, <3>1, <3>5, <3>6, SerialMove DEF SaveConfirmed
  <2> QED
    BY <2>1, <2>2
<1>5. CASE PostRevenue(h)
  <2>1. frame'[h] = [frame[h] EXCEPT !.at = "confirm.receipt",
                                     !.duplicated = frame[h].p \in revenue]
    BY <1>5, Moved DEF PostRevenue
  <2>2. UNCHANGED <<now, subs, payments>> /\ Stored' = Stored
    BY <1>5 DEF PostRevenue, world, Stored
  <2>3. Current(h)'
    BY <1>0, <1>5, <2>1, <2>2 DEF PostRevenue, Frame, SameButPlan
  <2> QED
    BY <1>5, <2>2, <2>3, SerialQuiet DEF PostRevenue
<1>6. CASE PostReceipt(h)
  <2>1. UNCHANGED <<now, subs, payments>> /\ Stored' = Stored
    BY <1>6 DEF PostReceipt, world, Stored
  <2>2. CASE Return(h)
    BY <1>6, <2>1, <2>2, SerialAnswer DEF PostReceipt
  <2>3. CASE ~Return(h)
    <3>1. Become(h, [frame[h] EXCEPT !.at = "confirm.apply"])
      BY <1>6, <2>3 DEF PostReceipt
    <3>2. frame'[h] = [frame[h] EXCEPT !.at = "confirm.apply"]
      BY <3>1, Moved
    <3>3. Current(h)'
      BY <1>0, <1>6, <2>1, <3>2 DEF PostReceipt, Frame, SameButPlan
    <3> QED
      BY <1>6, <2>1, <3>1, <3>3, SerialQuiet DEF PostReceipt
  <2> QED
    BY <2>2, <2>3
<1>7. CASE SaveSubscription(h)
  <2>1. CASE Return(h) /\ UNCHANGED subs
    BY <1>7, <2>1, SerialAnswer DEF SaveSubscription, world
  <2>2. CASE ~(Return(h) /\ UNCHANGED subs)
    <3> DEFINE row == ApplyPayment(frame[h].sub, frame[h].plan, frame[h].t)
               g == [Idle EXCEPT !.at = "confirm.others", !.p = frame[h].p,
                                 !.s = frame[h].s]
    <3>1. SaveSub(frame[h].s, row) /\ Become(h, g) /\ UNCHANGED <<now, payments>>
      BY <1>7, <2>2 DEF SaveSubscription, world
    <3>2. frame[h].s \in Stored
      BY <1>0, <1>7 DEF SaveSubscription
    <3>3. row.status = "ACTIVE"
      BY <1>0 DEF ApplyPayment, ChangePlan, Frame, Subscription
    <3>a. frame'[h] = g
      BY <3>1, Moved
    <3>4. frame'[h].at = "confirm.others" /\ frame'[h].t = 0
      BY <3>a DEF Idle
    <3> HIDE DEF row, g
    <3>5. IdsAreDense' /\ PaymentsOfStored'
      BY <1>0, <3>1, <3>2, <3>3, StoredSaved
    <3>6. Current(h)'
      BY <1>0, <3>1, <3>4
    <3> QED
      BY <1>7, <3>1, <3>5, <3>6, SerialMove DEF SaveSubscription
  <2> QED
    BY <2>1, <2>2
<1>8. CASE FindOthers(h)
  <2> DEFINE others == ActiveSubs \ {frame[h].s}
             g == [frame[h] EXCEPT
                    !.at = IF others = {} THEN "confirm.school" ELSE "confirm.expire",
                    !.rest = ReadRows(others)]
  <2>1. Become(h, g) /\ frame'[h] = g
    BY <1>8, Moved DEF FindOthers
  <2>2. UNCHANGED <<now, subs, payments>> /\ Stored' = Stored
    BY <1>8 DEF FindOthers, world, Stored
  <2>3. \A item \in ReadRows(others) : item.id \in Stored /\ item.row = subs[item.id]
    BY DEF ReadRows, ActiveSubs
  <2>4. /\ frame'[h].at \in {"confirm.school", "confirm.expire"}
        /\ frame'[h].t = frame[h].t /\ frame'[h].rest = ReadRows(others)
    BY <1>0, <2>1 DEF Frame
  <2> HIDE DEF others, g
  <2>5. Current(h)'
    BY <1>0, <2>2, <2>3, <2>4
  <2> QED
    BY <1>8, <2>1, <2>2, <2>5, SerialQuiet DEF FindOthers
<1>9. CASE ExpireOther(h)
  <2>1. PICK other \in frame[h].rest :
          /\ SaveSub(other.id, Expire(other.row))
          /\ Become(h, [frame[h] EXCEPT !.rest = frame[h].rest \ {other},
                !.at = IF frame[h].rest \ {other} = {}
                       THEN "confirm.school" ELSE "confirm.expire"])
    BY <1>9 DEF ExpireOther
  <2> DEFINE rest == frame[h].rest \ {other}
             g == [frame[h] EXCEPT !.rest = rest,
                !.at = IF rest = {} THEN "confirm.school" ELSE "confirm.expire"]
  <2>a. frame'[h] = g
    BY <2>1, Moved
  <2>2. /\ frame'[h].at \in {"confirm.school", "confirm.expire"}
        /\ frame'[h].t = frame[h].t /\ frame'[h].rest = rest
    BY <1>0, <2>a DEF Frame
  <2>3. /\ other \in Rows /\ other.id \in Stored /\ other.row = subs[other.id]
        /\ \A item \in rest : /\ item.id \in Stored /\ item.row = subs[item.id]
                              /\ item.id # other.id
    BY <1>0, <1>9 DEF ExpireOther, Frame, Rows
  <2>4. Expire(other.row).status = "EXPIRED"
    BY <2>3 DEF Expire, Rows, Subscription
  <2>5. UNCHANGED <<now, payments>>
    BY <1>9 DEF ExpireOther, world
  <2>6. /\ IdsAreDense' /\ PaymentsOfStored' /\ Stored' = Stored
        /\ \A t \in Subs : t # other.id => subs'[t] = subs[t]
    BY <1>0, <2>1, <2>3, <2>4, <2>5, StoredSaved
  <2> HIDE DEF rest, g
  <2>7. Current(h)'
    BY <1>0, <2>2, <2>3, <2>5, <2>6 DEF Stored
  <2> QED
    BY <1>9, <2>1, <2>5, <2>6, <2>7, SerialMove DEF ExpireOther
<1>10. CASE FindSchool(h)
  <2> DEFINE g == [frame[h] EXCEPT !.school = school,
            !.at = IF school = "ACTIVE" THEN "confirm.event" ELSE "confirm.saveSchool"]
  <2>1. Become(h, g) /\ UNCHANGED <<now, subs, payments, school>>
    BY <1>10 DEF FindSchool, world
  <2>a. frame'[h] = g
    BY <2>1, Moved
  <2>2. frame'[h].at \in {"confirm.event", "confirm.saveSchool"}
        /\ frame'[h].t = frame[h].t /\ frame'[h].school = school
    BY <1>0, <2>a DEF Frame
  <2> HIDE DEF g
  <2>3. Current(h)'
    BY <1>0, <2>1, <2>2
  <2> QED
    BY <1>10, <2>1, <2>3, SerialQuiet DEF FindSchool
<1>11. CASE SaveActivatedSchool(h)
  <2> DEFINE g == [frame[h] EXCEPT !.at = "confirm.event"]
  <2>1. Become(h, g) /\ UNCHANGED <<now, subs, payments>>
    BY <1>11 DEF SaveActivatedSchool, world
  <2>2. frame'[h].at = "confirm.event" /\ frame'[h].t = frame[h].t
    BY <1>0, <2>1, Moved DEF Frame
  <2> HIDE DEF g
  <2>3. Current(h)'
    BY <1>0, <2>1, <2>2
  <2> QED
    BY <1>11, <2>1, <2>3, SerialQuiet DEF SaveActivatedSchool
<1>12. CASE RecordEvent(h)
  BY <1>12, SerialAnswer DEF RecordEvent, world
<1> QED
  BY <1>1, <1>2, <1>3, <1>4, <1>5, <1>6, <1>7, <1>8, <1>9, <1>10, <1>11, <1>12
  DEF ConfirmStep
\* The failure of a payment, the cancelled renewal and the dashboard.
LEMMA OneSaveSerial ==
    ASSUME IInv, SerialInv, Serial, NEW h \in Processes,
           \/ BeginFail(h) \/ SaveFailed(h)
           \/ BeginCancel(h) \/ SaveCancelled(h)
           \/ BeginDashboard(h) \/ DashboardStep(h)
    PROVE  SerialInv'
<1> USE DEF At, Goto, Begin, Ready, Current, PaymentIsCurrent, SubIsCurrent,
    PlanIsCurrent, BatchIsCurrent, SchoolIsCurrent, PayingSteps, CopySteps,
    OverwritingSteps, PricedSteps, BatchSteps, FreeSteps, AdminSteps, SchoolSteps,
    ExpiringSteps
<1>0. /\ frame[h] \in Frame /\ FrameInv(frame[h]) /\ Current(h)
      /\ OneAtATime /\ IdsAreDense /\ PaymentsOfStored /\ now \in Nat
      /\ subs \in [Subs -> Subscription]
      /\ payments \in [Payments -> Payment]
  BY FrameFacts DEF SerialInv
<1>1. CASE BeginFail(h)
  <2>1. PICK p \in Payments : Become(h, [Idle EXCEPT !.at = "fail.save", !.p = p,
                                                     !.payment = payments[p]])
    BY <1>1 DEF BeginFail
  <2> DEFINE g == [Idle EXCEPT !.at = "fail.save", !.p = p, !.payment = payments[p]]
  <2>2. frame'[h] = g
    BY <2>1, Moved
  <2>3. /\ frame'[h].at = "fail.save" /\ frame'[h].p = p
        /\ frame'[h].payment = payments[p] /\ frame'[h].t = 0
    BY <2>2 DEF Idle
  <2> HIDE DEF g
  <2>4. UNCHANGED <<now, subs, payments>>
    BY <1>1 DEF BeginFail, world
  <2>5. Current(h)'
    BY <1>0, <2>3, <2>4
  <2> QED
    BY <1>1, <2>1, <2>4, <2>5, SerialQuiet DEF BeginFail
<1>2. CASE SaveFailed(h)
  <2> DEFINE row == FailPayment(frame[h].payment)
  <2>1. /\ frame[h].p \in Payments /\ frame[h].payment = payments[frame[h].p]
        /\ frame[h].payment.sub \in Stored
    BY <1>0, <1>2 DEF SaveFailed, FrameInv, HoldsPayment, PaymentsOfStored
  <2>2. row.sub \in Stored
    BY <1>0, <2>1 DEF FailPayment, Frame, Payment
  <2>3. SavePayment(frame[h].p, row) /\ UNCHANGED <<now, subs>> /\ Return(h)
    BY <1>2 DEF SaveFailed, world
  <2> HIDE DEF row
  <2>4. IdsAreDense' /\ PaymentsOfStored'
    BY <1>0, <2>1, <2>2, <2>3, PaymentRowSaved
  <2> QED
    BY <1>2, <2>3, <2>4, SerialReturn DEF SaveFailed
<1>3. CASE BeginCancel(h)
  <2>1. PICK s \in Stored : Become(h, [Idle EXCEPT !.at = "cancel.save", !.s = s,
                                                   !.sub = subs[s]])
    BY <1>3 DEF BeginCancel
  <2> DEFINE g == [Idle EXCEPT !.at = "cancel.save", !.s = s, !.sub = subs[s]]
  <2>2. frame'[h] = g
    BY <2>1, Moved
  <2>3. /\ frame'[h].at = "cancel.save" /\ frame'[h].s = s
        /\ frame'[h].sub = subs[s] /\ frame'[h].t = 0
    BY <2>2 DEF Idle
  <2> HIDE DEF g
  <2>4. UNCHANGED <<now, subs, payments>> /\ Stored' = Stored
    BY <1>3 DEF BeginCancel, world, Stored
  <2>5. Current(h)'
    BY <1>0, <2>1, <2>3, <2>4
  <2> QED
    BY <1>3, <2>1, <2>4, <2>5, SerialQuiet DEF BeginCancel
<1>4. CASE SaveCancelled(h)
  <2> DEFINE row == ScheduleCancelAtPeriodEnd(frame[h].sub)
  <2>1. frame[h].s \in Stored /\ frame[h].sub = subs[frame[h].s]
    BY <1>0, <1>4 DEF SaveCancelled
  <2>2. row.status # "NONE"
    BY <1>0, <2>1 DEF ScheduleCancelAtPeriodEnd, Subscription, Stored
  <2>3. SaveSub(frame[h].s, row) /\ UNCHANGED <<now, payments>> /\ Return(h)
    BY <1>4 DEF SaveCancelled, world
  <2> HIDE DEF row
  <2>4. IdsAreDense' /\ PaymentsOfStored'
    BY <1>0, <2>1, <2>2, <2>3, StoredSaved
  <2> QED
    BY <1>4, <2>3, <2>4, SerialReturn DEF SaveCancelled
<1>5. CASE BeginDashboard(h)
  <2>1. PICK s \in Newest(Stored) : Become(h, [Idle EXCEPT !.at = "dashboard.save",
                                                   !.s = s, !.sub = subs[s]])
    BY <1>5 DEF BeginDashboard
  <2> DEFINE g == [Idle EXCEPT !.at = "dashboard.save", !.s = s, !.sub = subs[s]]
  <2>2. frame'[h] = g
    BY <2>1, Moved
  <2>3. /\ frame'[h].at = "dashboard.save" /\ frame'[h].s = s
        /\ frame'[h].sub = subs[s] /\ frame'[h].t = 0
    BY <2>2 DEF Idle
  <2> HIDE DEF g
  <2>4. UNCHANGED <<now, subs, payments>> /\ Stored' = Stored
    BY <1>5 DEF BeginDashboard, world, Stored
  <2>5. s \in Stored
    BY <2>1 DEF Newest
  <2>6. Current(h)'
    BY <1>0, <2>3, <2>4, <2>5
  <2> QED
    BY <1>5, <2>1, <2>4, <2>6, SerialQuiet DEF BeginDashboard
<1>6. CASE SaveLatestExpired(h)
  <2> DEFINE row == Expire(frame[h].sub)
             g == [Idle EXCEPT !.at = "dashboard.school"]
  <2>1. frame[h].s \in Stored
    BY <1>0, <1>6 DEF SaveLatestExpired
  <2>2. row.status # "NONE"
    BY <1>0 DEF Expire, Frame, Subscription
  <2>3. /\ SaveSub(frame[h].s, row) /\ UNCHANGED <<now, payments>> /\ Become(h, g)
    BY <1>6 DEF SaveLatestExpired, world
  <2> HIDE DEF row
  <2>4. IdsAreDense' /\ PaymentsOfStored'
    BY <1>0, <2>1, <2>2, <2>3, StoredSaved
  <2>5. frame'[h] = g
    BY <2>3, Moved
  <2>6. frame'[h].at = "dashboard.school" /\ frame'[h].t = 0
    BY <2>5 DEF Idle
  <2> HIDE DEF g
  <2>7. Current(h)'
    BY <1>0, <2>3, <2>6
  <2> QED
    BY <1>6, <2>3, <2>4, <2>7, SerialMove DEF SaveLatestExpired
<1>7. CASE FindSchoolOfLatest(h)
  <2>1. UNCHANGED <<now, subs, payments, school>>
    BY <1>7 DEF FindSchoolOfLatest, world
  <2>2. CASE Return(h)
    BY <1>7, <2>1, <2>2, SerialAnswer DEF FindSchoolOfLatest
  <2>3. CASE ~Return(h)
    <3> DEFINE g == [frame[h] EXCEPT !.at = "dashboard.saveSchool"]
    <3>1. Become(h, g) /\ school = "ACTIVE"
      BY <1>7, <2>3 DEF FindSchoolOfLatest
    <3>2. frame'[h] = g
      BY <3>1, Moved
    <3>3. frame'[h].at = "dashboard.saveSchool" /\ frame'[h].t = frame[h].t
      BY <1>0, <3>2 DEF Frame
    <3> HIDE DEF g
    <3>4. Current(h)'
      BY <1>0, <2>1, <3>1, <3>3
    <3> QED
      BY <1>7, <2>1, <3>1, <3>4, SerialQuiet DEF FindSchoolOfLatest
  <2> QED
    BY <2>2, <2>3
<1>8. CASE ExpireSchoolOfLatest(h)
  BY <1>8, SerialAnswer DEF ExpireSchoolOfLatest, world
<1> QED
  BY <1>1, <1>2, <1>3, <1>4, <1>5, <1>6, <1>7, <1>8 DEF DashboardStep

\* The loop of the job goes on with the rows it has read.
LEMMA NextDueSerial ==
    ASSUME IInv, SerialInv, NEW h \in Processes,
           frame[h].at \in {"job.check", "job.school", "job.saveSchool"},
           NextDue(h), UNCHANGED <<now, subs, payments>>
    PROVE  SerialInv'
<1>0. frame[h] \in Frame /\ Current(h) /\ Ready(h)
  BY FrameFacts DEF SerialInv, Ready, At
<1>1. CASE Return(h)
  BY <1>0, <1>1, SerialAnswer
<1>2. CASE ~Return(h)
  <2> DEFINE g == [frame[h] EXCEPT !.at = "job.save"]
  <2>1. Become(h, g)
    BY <1>2 DEF NextDue, Goto
  <2>2. frame'[h] = g
    BY <2>1, Moved
  <2>3. /\ frame'[h].at = "job.save" /\ frame'[h].t = frame[h].t
        /\ frame'[h].rest = frame[h].rest
    BY <1>0, <2>2 DEF Frame
  <2> HIDE DEF g
  <2>4. Stored' = Stored
    BY DEF Stored
  <2>5. Current(h)'
    BY <1>0, <2>3, <2>4 DEF Current, PaymentIsCurrent, SubIsCurrent,
    PlanIsCurrent, BatchIsCurrent, SchoolIsCurrent, PayingSteps, CopySteps,
    OverwritingSteps, PricedSteps, BatchSteps, FreeSteps, AdminSteps, SchoolSteps,
    ExpiringSteps
  <2> QED
    BY <1>0, <2>1, <2>5, SerialQuiet
<1> QED
  BY <1>1, <1>2

\* The hourly job.
LEMMA JobSerial ==
    ASSUME IInv, SerialInv, Serial, NEW h \in Processes, BeginJob(h) \/ JobStep(h)
    PROVE  SerialInv'
<1> USE DEF At, Goto, Begin, Ready, Current, PaymentIsCurrent, SubIsCurrent,
    PlanIsCurrent, BatchIsCurrent, SchoolIsCurrent, PayingSteps, CopySteps,
    OverwritingSteps, PricedSteps, BatchSteps, FreeSteps, AdminSteps, SchoolSteps,
    ExpiringSteps
<1>0. /\ frame[h] \in Frame /\ FrameInv(frame[h]) /\ Current(h)
      /\ OneAtATime /\ IdsAreDense /\ PaymentsOfStored /\ now \in Nat
      /\ subs \in [Subs -> Subscription]
  BY FrameFacts DEF SerialInv
<1>1. CASE BeginJob(h)
  <2> DEFINE g == [Idle EXCEPT !.at = "job.save", !.t = now,
                               !.rest = ReadRows(DueAt(now))]
  <2>1. Become(h, g) /\ UNCHANGED <<now, subs, payments>> /\ Stored' = Stored
    BY <1>1 DEF BeginJob, world, Stored
  <2>2. frame'[h] = g
    BY <2>1, Moved
  <2>3. /\ frame'[h].at = "job.save" /\ frame'[h].t = now
        /\ frame'[h].rest = ReadRows(DueAt(now))
    BY <2>2 DEF Idle
  <2> HIDE DEF g
  <2>4. \A item \in ReadRows(DueAt(now)) :
           item.id \in Stored /\ item.row = subs[item.id]
    BY DEF ReadRows, DueAt
  <2>5. Current(h)'
    BY <1>0, <2>1, <2>3, <2>4
  <2> QED
    BY <1>1, <2>1, <2>5, SerialQuiet DEF BeginJob
<1>2. CASE SaveDue(h)
  <2>1. PICK due \in frame[h].rest :
          /\ SaveSub(due.id, Expire(due.row))
          /\ Become(h, [frame[h] EXCEPT !.at = "job.check",
                                        !.rest = frame[h].rest \ {due}])
    BY <1>2 DEF SaveDue
  <2> DEFINE rest == frame[h].rest \ {due}
             g == [frame[h] EXCEPT !.at = "job.check", !.rest = rest]
  <2>2. frame'[h] = g
    BY <2>1, Moved
  <2>3. /\ frame'[h].at = "job.check" /\ frame'[h].t = frame[h].t
        /\ frame'[h].rest = rest
    BY <1>0, <2>2 DEF Frame
  <2>4. /\ due \in Rows /\ due.id \in Stored /\ due.row = subs[due.id]
        /\ \A item \in rest : /\ item.id \in Stored /\ item.row = subs[item.id]
                              /\ item.id # due.id
    BY <1>0, <1>2 DEF SaveDue, Frame, Rows
  <2>5. Expire(due.row).status = "EXPIRED"
    BY <2>4 DEF Expire, Rows, Subscription
  <2>6. UNCHANGED <<now, payments>>
    BY <1>2 DEF SaveDue, world
  <2>7. /\ IdsAreDense' /\ PaymentsOfStored' /\ Stored' = Stored
        /\ \A t \in Subs : t # due.id => subs'[t] = subs[t]
    BY <1>0, <2>1, <2>4, <2>5, <2>6, StoredSaved
  <2> HIDE DEF rest, g
  <2>8. Current(h)'
    BY <1>0, <2>3, <2>4, <2>6, <2>7 DEF Stored
  <2> QED
    BY <1>2, <2>1, <2>6, <2>7, <2>8, SerialMove DEF SaveDue
<1>3. CASE CheckStillValid(h)
  <2>1. UNCHANGED <<now, subs, payments, school>> /\ Stored' = Stored
    BY <1>3 DEF CheckStillValid, world, Stored
  <2>2. CASE NextDue(h)
    BY <1>3, <2>1, <2>2, NextDueSerial DEF CheckStillValid
  <2>3. CASE ~NextDue(h)
    <3> DEFINE g == [frame[h] EXCEPT !.at = "job.school"]
    <3>1. Become(h, g)
      BY <1>3, <2>3 DEF CheckStillValid
    <3>2. frame'[h] = g
      BY <3>1, Moved
    <3>3. /\ frame'[h].at = "job.school" /\ frame'[h].t = frame[h].t
          /\ frame'[h].rest = frame[h].rest
      BY <1>0, <3>2 DEF Frame
    <3> HIDE DEF g
    <3>4. frame[h].at = "job.check"
      BY <1>3 DEF CheckStillValid
    <3>5. Current(h)'
      BY <1>0, <2>1, <3>3, <3>4
    <3> QED
      BY <2>1, <3>1, <3>4, <3>5, SerialQuiet
  <2> QED
    BY <2>2, <2>3
<1>4. CASE FindSchoolOfDue(h)
  <2>1. UNCHANGED <<now, subs, payments, school>> /\ Stored' = Stored
    BY <1>4 DEF FindSchoolOfDue, world, Stored
  <2>2. CASE NextDue(h)
    BY <1>4, <2>1, <2>2, NextDueSerial DEF FindSchoolOfDue
  <2>3. CASE ~NextDue(h)
    <3> DEFINE g == [frame[h] EXCEPT !.at = "job.saveSchool"]
    <3>1. Become(h, g) /\ school = "ACTIVE"
      BY <1>4, <2>3 DEF FindSchoolOfDue
    <3>2. frame'[h] = g
      BY <3>1, Moved
    <3>3. /\ frame'[h].at = "job.saveSchool" /\ frame'[h].t = frame[h].t
          /\ frame'[h].rest = frame[h].rest
      BY <1>0, <3>2 DEF Frame
    <3> HIDE DEF g
    <3>4. frame[h].at = "job.school"
      BY <1>4 DEF FindSchoolOfDue
    <3>5. Current(h)'
      BY <1>0, <2>1, <3>1, <3>3, <3>4
    <3> QED
      BY <2>1, <3>1, <3>4, <3>5, SerialQuiet
  <2> QED
    BY <2>2, <2>3
<1>5. CASE ExpireSchoolOfDue(h)
  BY <1>5, NextDueSerial DEF ExpireSchoolOfDue, world
<1> QED
  BY <1>1, <1>2, <1>3, <1>4, <1>5 DEF JobStep
\* The FREE plan.
LEMMA FreePlanSerial ==
    ASSUME IInv, SerialInv, Serial, NEW h \in Processes,
           BeginFreePlan(h) \/ FreePlanStep(h)
    PROVE  SerialInv'
<1> USE DEF At, Goto, Begin, Ready, Current, PaymentIsCurrent, SubIsCurrent,
    PlanIsCurrent, BatchIsCurrent, SchoolIsCurrent, PayingSteps, CopySteps,
    OverwritingSteps, PricedSteps, BatchSteps, FreeSteps, AdminSteps, SchoolSteps,
    ExpiringSteps
<1>0. /\ frame[h] \in Frame /\ FrameInv(frame[h]) /\ Current(h)
      /\ OneAtATime /\ IdsAreDense /\ PaymentsOfStored /\ now \in Nat
      /\ subs \in [Subs -> Subscription]
  BY FrameFacts DEF SerialInv
<1>1. CASE BeginFreePlan(h)
  <2> DEFINE g == [Idle EXCEPT !.at = "free.plan", !.t = now, !.school = school]
  <2>1. Become(h, g) /\ UNCHANGED <<now, subs, payments, school>>
    BY <1>1 DEF BeginFreePlan, world
  <2>2. frame'[h] = g
    BY <2>1, Moved
  <2>3. /\ frame'[h].at = "free.plan" /\ frame'[h].t = now
        /\ frame'[h].school = school
    BY <2>2 DEF Idle
  <2> HIDE DEF g
  <2>4. Current(h)'
    BY <1>0, <2>1, <2>3
  <2> QED
    BY <1>1, <2>1, <2>4, SerialQuiet DEF BeginFreePlan
\* Steps that only move on, to a step that holds nothing new.
<1>2. ASSUME NEW step \in {"free.find", "free.valid", "free.create"},
             frame[h].at \in FreeSteps,
             Goto(h, step), UNCHANGED <<now, subs, payments, school>>
      PROVE  SerialInv'
  <2> DEFINE g == [frame[h] EXCEPT !.at = step]
  <2>1. Become(h, g)
    BY <1>2
  <2>2. frame'[h] = g
    BY <2>1, Moved
  <2>3. /\ frame'[h].at = step /\ frame'[h].t = frame[h].t
        /\ frame'[h].school = frame[h].school
    BY <1>0, <2>2 DEF Frame
  <2> HIDE DEF g
  <2>4. Current(h)'
    BY <1>0, <1>2, <2>3
  <2> QED
    BY <1>2, <2>1, <2>4, SerialQuiet
<1>3. ASSUME Return(h), frame[h].at \in FreeSteps, UNCHANGED <<now, subs, payments>>
      PROVE  SerialInv'
  BY <1>3, SerialAnswer
<1>4. CASE FindFreePlan(h)
  BY <1>2, <1>3, <1>4 DEF FindFreePlan, world
<1>5. CASE FindFree(h)
  <2>1. UNCHANGED <<now, subs, payments, school>> /\ Stored' = Stored
        /\ frame[h].at = "free.find"
    BY <1>5 DEF FindFree, world, Stored
  <2>2. CASE Goto(h, "free.valid")
    BY <1>2, <2>1, <2>2
  <2>3. CASE Return(h)
    BY <1>3, <2>1, <2>3
  <2>4. CASE ~Goto(h, "free.valid") /\ ~Return(h)
    <3>1. PICK s \in Oldest(FreeSubs) :
            Become(h, [frame[h] EXCEPT !.at = "free.save", !.s = s, !.sub = subs[s]])
      BY <1>5, <2>4 DEF FindFree
    <3> DEFINE g == [frame[h] EXCEPT !.at = "free.save", !.s = s, !.sub = subs[s]]
    <3>2. frame'[h] = g
      BY <3>1, Moved
    <3>3. /\ frame'[h].at = "free.save" /\ frame'[h].t = frame[h].t
          /\ frame'[h].s = s /\ frame'[h].sub = subs[s]
          /\ frame'[h].school = frame[h].school
      BY <1>0, <3>2 DEF Frame
    <3> HIDE DEF g
    <3>4. s \in Stored
      BY <3>1 DEF Oldest, FreeSubs
    <3>5. Current(h)'
      BY <1>0, <2>1, <3>3, <3>4
    <3> QED
      BY <2>1, <3>1, <3>5, SerialQuiet
  <2> QED
    BY <2>2, <2>3, <2>4
<1>6. CASE SaveFreeExpired(h)
  <2> DEFINE row == Expire(frame[h].sub)
  <2>1. /\ frame[h].at = "free.save" /\ frame[h].s \in Stored
        /\ frame[h].school = school
    BY <1>0, <1>6 DEF SaveFreeExpired
  <2>2. row.status # "NONE"
    BY <1>0 DEF Expire, Frame, Subscription
  <2>3. SaveSub(frame[h].s, row) /\ UNCHANGED <<now, payments, school>>
    BY <1>6 DEF SaveFreeExpired, world
  <2> HIDE DEF row
  <2>4. IdsAreDense' /\ PaymentsOfStored'
    BY <1>0, <2>1, <2>2, <2>3, StoredSaved
  <2>5. CASE Return(h)
    BY <2>1, <2>3, <2>4, <2>5, SerialReturn
  <2>6. CASE ~Return(h)
    <3> DEFINE g == [frame[h] EXCEPT !.at = "free.saveSchool"]
    <3>1. Become(h, g) /\ school = "ACTIVE"
      BY <1>6, <2>1, <2>6 DEF SaveFreeExpired
    <3>2. frame'[h] = g
      BY <3>1, Moved
    <3>3. /\ frame'[h].at = "free.saveSchool" /\ frame'[h].t = frame[h].t
          /\ frame'[h].school = frame[h].school
      BY <1>0, <3>2 DEF Frame
    <3> HIDE DEF g
    <3>4. Current(h)'
      BY <1>0, <2>1, <2>3, <3>1, <3>3
    <3> QED
      BY <2>1, <2>3, <2>4, <3>1, <3>4, SerialMove
  <2> QED
    BY <2>5, <2>6
<1>7. CASE ExpireSchoolOfFree(h)
  BY <1>3, <1>7 DEF ExpireSchoolOfFree, world
<1>8. CASE FindValidBeforeFree(h)
  <2>1. UNCHANGED <<now, subs, payments, school>> /\ frame[h].at = "free.valid"
    BY <1>8 DEF FindValidBeforeFree, world
  <2>2. Return(h) \/ Goto(h, "free.create")
    BY <1>8 DEF FindValidBeforeFree
  <2> QED
    BY <1>2, <1>3, <2>1, <2>2
<1>9. CASE CreateFree(h)
  <2> DEFINE row == CreateFreePlan(frame[h].t)
  <2>1. row.status # "NONE"
    BY DEF CreateFreePlan, NewSubscription
  <2>2. /\ NewId \in Subs /\ SaveSub(NewId, row) /\ UNCHANGED <<now, payments>>
        /\ Return(h) /\ frame[h].at = "free.create"
    BY <1>9 DEF CreateFree, world
  <2> HIDE DEF row
  <2>3. IdsAreDense' /\ PaymentsOfStored'
    BY <1>0, <2>1, <2>2, NewSaved
  <2> QED
    BY <2>2, <2>3, SerialReturn
<1> QED
  BY <1>1, <1>4, <1>5, <1>6, <1>7, <1>8, <1>9 DEF FreePlanStep

\* The admin.
LEMMA AdminSerial ==
    ASSUME IInv, SerialInv, Serial, NEW h \in Processes,
           BeginChangeStatus(h) \/ AdminStep(h)
    PROVE  SerialInv'
<1> USE DEF At, Goto, Begin, Ready, Current, PaymentIsCurrent, SubIsCurrent,
    PlanIsCurrent, BatchIsCurrent, SchoolIsCurrent, PayingSteps, CopySteps,
    OverwritingSteps, PricedSteps, BatchSteps, FreeSteps, AdminSteps, SchoolSteps,
    ExpiringSteps
<1>0. /\ frame[h] \in Frame /\ FrameInv(frame[h]) /\ Current(h)
      /\ OneAtATime /\ IdsAreDense /\ PaymentsOfStored /\ now \in Nat
      /\ subs \in [Subs -> Subscription]
  BY FrameFacts DEF SerialInv
<1>1. CASE BeginChangeStatus(h)
  <2>1. PICK target \in AdminTargets, plan \in Plans :
          Become(h, [Idle EXCEPT
                !.at = IF "ACTIVE" \in {target, school}
                       THEN "admin.list" ELSE "admin.save",
                !.plan = plan, !.t = now, !.school = school, !.target = target])
    BY <1>1 DEF BeginChangeStatus
  <2> DEFINE g == [Idle EXCEPT
                !.at = IF "ACTIVE" \in {target, school}
                       THEN "admin.list" ELSE "admin.save",
                !.plan = plan, !.t = now, !.school = school, !.target = target]
  <2>2. frame'[h] = g
    BY <2>1, Moved
  <2>3. /\ frame'[h].at \in {"admin.list", "admin.save"} /\ frame'[h].t = now
        /\ frame'[h].school = school
    BY <2>2 DEF Idle
  <2> HIDE DEF g
  <2>4. UNCHANGED <<now, subs, payments, school>>
    BY <1>1 DEF BeginChangeStatus, world
  <2>5. Current(h)'
    BY <1>0, <2>3, <2>4
  <2> QED
    BY <1>1, <2>1, <2>4, <2>5, SerialQuiet DEF BeginChangeStatus
<1>2. CASE ListActive(h)
  <2> DEFINE g == [frame[h] EXCEPT
            !.at = IF ActiveSubs = {} THEN AfterClosing(frame[h]) ELSE "admin.close",
            !.rest = ReadRows(ActiveSubs)]
  <2>1. Become(h, g) /\ UNCHANGED <<now, subs, payments, school>> /\ Stored' = Stored
        /\ frame[h].at = "admin.list"
    BY <1>2 DEF ListActive, world, Stored
  <2>2. frame'[h] = g
    BY <2>1, Moved
  <2>3. /\ frame'[h].at \in {"admin.close", "admin.grant", "admin.save"}
        /\ frame'[h].t = frame[h].t /\ frame'[h].school = frame[h].school
        /\ frame'[h].rest = ReadRows(ActiveSubs)
    BY <1>0, <2>2 DEF Frame, AfterClosing
  <2> HIDE DEF g
  <2>4. \A item \in ReadRows(ActiveSubs) :
           item.id \in Stored /\ item.row = subs[item.id]
    BY DEF ReadRows, ActiveSubs
  <2>5. Current(h)'
    BY <1>0, <2>1, <2>3, <2>4
  <2> QED
    BY <2>1, <2>5, SerialQuiet
<1>3. CASE CloseActive(h)
  <2>1. PICK active \in frame[h].rest :
          /\ SaveSub(active.id, Expire(active.row))
          /\ Become(h, [frame[h] EXCEPT !.rest = frame[h].rest \ {active},
                !.at = IF frame[h].rest \ {active} = {}
                       THEN AfterClosing(frame[h]) ELSE "admin.close"])
    BY <1>3 DEF CloseActive
  <2> DEFINE rest == frame[h].rest \ {active}
             g == [frame[h] EXCEPT !.rest = rest,
                !.at = IF rest = {} THEN AfterClosing(frame[h]) ELSE "admin.close"]
  <2>a. frame'[h] = g
    BY <2>1, Moved
  <2>2. /\ frame'[h].at \in {"admin.close", "admin.grant", "admin.save"}
        /\ frame'[h].t = frame[h].t /\ frame'[h].rest = rest
        /\ frame'[h].school = frame[h].school
    BY <1>0, <2>a DEF Frame, AfterClosing
  <2>3. /\ active \in Rows /\ active.id \in Stored /\ active.row = subs[active.id]
        /\ \A item \in rest : /\ item.id \in Stored /\ item.row = subs[item.id]
                              /\ item.id # active.id
    BY <1>0, <1>3 DEF CloseActive, Frame, Rows
  <2>4. Expire(active.row).status = "EXPIRED"
    BY <2>3 DEF Expire, Rows, Subscription
  <2>5. UNCHANGED <<now, payments, school>> /\ frame[h].at = "admin.close"
    BY <1>3 DEF CloseActive, world
  <2>6. /\ IdsAreDense' /\ PaymentsOfStored' /\ Stored' = Stored
        /\ \A t \in Subs : t # active.id => subs'[t] = subs[t]
    BY <1>0, <2>1, <2>3, <2>4, <2>5, StoredSaved
  <2> HIDE DEF rest, g
  <2>7. Current(h)'
    BY <1>0, <2>2, <2>3, <2>5, <2>6 DEF Stored
  <2> QED
    BY <2>1, <2>5, <2>6, <2>7, SerialMove
<1>4. CASE SaveGrant(h)
  <2> DEFINE row == CreateAdminGrant(frame[h].plan, frame[h].t)
             g == [frame[h] EXCEPT !.at = "admin.save"]
  <2>1. row.status # "NONE"
    BY DEF CreateAdminGrant, NewSubscription
  <2>2. /\ NewId \in Subs /\ SaveSub(NewId, row)
        /\ UNCHANGED <<now, payments, school>>
        /\ Become(h, g) /\ frame[h].at = "admin.grant"
    BY <1>4 DEF SaveGrant, world
  <2> HIDE DEF row
  <2>3. IdsAreDense' /\ PaymentsOfStored'
    BY <1>0, <2>1, <2>2, NewSaved
  <2>4. frame'[h] = g
    BY <2>2, Moved
  <2>5. /\ frame'[h].at = "admin.save" /\ frame'[h].t = frame[h].t
        /\ frame'[h].school = frame[h].school
    BY <1>0, <2>4 DEF Frame
  <2> HIDE DEF g
  <2>6. Current(h)'
    BY <1>0, <2>2, <2>5
  <2> QED
    BY <2>2, <2>3, <2>6, SerialMove
<1>5. CASE SaveAdminStatus(h)
  BY <1>5, SerialAnswer DEF SaveAdminStatus, world
<1> QED
  BY <1>1, <1>2, <1>3, <1>4, <1>5 DEF AdminStep

\* The review of a school.
LEMMA ReviewSerial ==
    ASSUME IInv, SerialInv, Serial, NEW h \in Processes,
           BeginSubmit(h) \/ BeginReview(h) \/ ReviewStep(h)
    PROVE  SerialInv'
<1> USE DEF At, Goto, Begin, Ready, Current, PaymentIsCurrent, SubIsCurrent,
    PlanIsCurrent, BatchIsCurrent, SchoolIsCurrent, PayingSteps, CopySteps,
    OverwritingSteps, PricedSteps, BatchSteps, FreeSteps, AdminSteps, SchoolSteps,
    ExpiringSteps
<1>0. /\ frame[h] \in Frame /\ Current(h) /\ now \in Nat
      /\ subs \in [Subs -> Subscription]
  BY FrameFacts DEF SerialInv
<1>1. CASE BeginSubmit(h)
  <2> DEFINE g == [Idle EXCEPT !.at = "submit.plan", !.school = school]
  <2>1. Become(h, g)
    BY <1>1 DEF BeginSubmit
  <2>2. frame'[h] = g
    BY <2>1, Moved
  <2>3. /\ frame'[h].at = "submit.plan" /\ frame'[h].school = school
        /\ frame'[h].t = 0
    BY <2>2 DEF Idle
  <2> HIDE DEF g
  <2>4. UNCHANGED <<now, subs, payments, school>>
    BY <1>1 DEF BeginSubmit, world
  <2>5. Current(h)'
    BY <1>0, <2>3, <2>4
  <2> QED
    BY <1>1, <2>1, <2>4, <2>5, SerialQuiet DEF BeginSubmit
<1>2. CASE BeginReview(h)
  <2>1. PICK decision \in {"ACTIVE", "REJECTED"} :
          Become(h, [Idle EXCEPT !.at = "review.save", !.school = school,
                                 !.target = decision])
    BY <1>2 DEF BeginReview
  <2> DEFINE g == [Idle EXCEPT !.at = "review.save", !.school = school,
                               !.target = decision]
  <2>2. frame'[h] = g
    BY <2>1, Moved
  <2>3. frame'[h].at = "review.save" /\ frame'[h].t = 0
    BY <2>2 DEF Idle
  <2> HIDE DEF g
  <2>4. UNCHANGED <<now, subs, payments, school>> /\ school = "PENDING_REVIEW"
    BY <1>2 DEF BeginReview, world
  <2>5. Current(h)'
    BY <1>0, <2>3, <2>4
  <2> QED
    BY <1>2, <2>1, <2>4, <2>5, SerialQuiet DEF BeginReview
<1>3. CASE CheckSubscription(h)
  <2>1. /\ UNCHANGED <<now, subs, payments, school>> /\ Stored' = Stored
        /\ frame[h].at = "submit.plan"
    BY <1>3 DEF CheckSubscription, world, Stored
  <2>2. CASE Return(h)
    BY <2>1, <2>2, SerialAnswer
  <2>3. ASSUME Goto(h, "submit.save"), frame[h].school \in Submittable
        PROVE  SerialInv'
    <3> DEFINE g == [frame[h] EXCEPT !.at = "submit.save"]
    <3>1. frame'[h] = g
      BY <2>3, Moved
    <3>2. frame'[h].at = "submit.save" /\ frame'[h].t = frame[h].t
      BY <1>0, <3>1 DEF Frame
    <3>3. Become(h, g)
      BY <2>3
    <3> HIDE DEF g
    <3>4. Current(h)'
      BY <1>0, <2>1, <2>3, <3>2 DEF Submittable
    <3> QED
      BY <2>1, <3>3, <3>4, SerialQuiet
  <2>4. ASSUME NEW s \in Newest(Stored),
               Become(h, [Idle EXCEPT !.at = "dashboard.save", !.s = s, !.sub = subs[s]])
        PROVE  SerialInv'
    <3> DEFINE g == [Idle EXCEPT !.at = "dashboard.save", !.s = s, !.sub = subs[s]]
    <3>1. frame'[h] = g
      BY <2>4, Moved
    <3>2. /\ frame'[h].at = "dashboard.save" /\ frame'[h].s = s
          /\ frame'[h].sub = subs[s] /\ frame'[h].t = 0
      BY <3>1 DEF Idle
    <3>3. Become(h, g) /\ s \in Stored
      BY <2>4 DEF Newest
    <3> HIDE DEF g
    <3>4. Current(h)'
      BY <1>0, <2>1, <3>2, <3>3
    <3> QED
      BY <2>1, <3>3, <3>4, SerialQuiet
  <2> QED
    BY <1>3, <2>2, <2>3, <2>4, SubmissionReads
<1>4. CASE SaveSubmitted(h)
  BY <1>4, SerialAnswer DEF SaveSubmitted, world
<1>5. CASE SaveReview(h)
  BY <1>5, SerialAnswer DEF SaveReview, world
<1> QED
  BY <1>1, <1>2, <1>3, <1>4, <1>5 DEF ReviewStep

\* Time, the plans, a crash.
LEMMA SurroundingsSerial ==
    ASSUME IInv, SerialInv,
           \/ Tick
           \/ \E plan \in SwitchedPlans, isActive \in BOOLEAN : SetPlanActive(plan, isActive)
           \/ \E h \in Processes : Abort(h)
           \/ UNCHANGED vars
    PROVE  SerialInv'
<1>1. CASE \/ Tick
           \/ \E plan \in SwitchedPlans, isActive \in BOOLEAN : SetPlanActive(plan, isActive)
           \/ UNCHANGED vars
  <2>1. UNCHANGED <<subs, payments, frame, school>> /\ now <= now' /\ now' \in Nat
        /\ Stored' = Stored
    BY <1>1 DEF Tick, SetPlanActive, vars, ledger, history, IInv, TypeOK, Stored
  <2>2. now \in Nat /\ \A h \in Processes : frame[h].t \in Nat
    BY DEF IInv, TypeOK, Frame
  <2>3. \A h \in Processes : Current(h)'
    BY <2>1, <2>2 DEF SerialInv, Current, PaymentIsCurrent, SubIsCurrent,
       PlanIsCurrent, BatchIsCurrent, SchoolIsCurrent
  <2>4. OneAtATime' /\ IdsAreDense' /\ PaymentsOfStored'
    BY <2>1 DEF SerialInv, OneAtATime, At, IdsAreDense, PaymentsOfStored
  <2> QED
    BY <2>3, <2>4 DEF SerialInv
<1>2. ASSUME NEW h \in Processes, Abort(h)
      PROVE  SerialInv'
  BY <1>2, SerialAnswer DEF Abort, Ready
<1> QED
  BY <1>1, <1>2

\* Nobody is served, and there are no rows.
LEMMA InitSerial == Init => SerialInv
<1> SUFFICES ASSUME Init PROVE SerialInv
  OBVIOUS
<1>1. Stored = {}
  BY DEF Init, Stored, NoSub
<1>2. IdsAreDense
  BY <1>1, FS_EmptySet DEF IdsAreDense
<1>3. PaymentsOfStored
  BY DEF Init, PaymentsOfStored, NoPayment
<1>4. \A h \in Processes : frame[h] = Idle
  BY DEF Init
<1>5. OneAtATime
  BY <1>4 DEF OneAtATime, At, Idle
<1>6. ASSUME NEW h \in Processes PROVE Current(h)
  <2>1. frame[h].at = "idle" /\ frame[h].t = 0 /\ now = 1
    BY <1>4 DEF Idle, Init
  <2> QED
    BY <2>1 DEF Current, PaymentIsCurrent, SubIsCurrent, PlanIsCurrent, BatchIsCurrent,
       SchoolIsCurrent, PayingSteps, CopySteps, OverwritingSteps, PricedSteps, BatchSteps,
       FreeSteps, AdminSteps, SchoolSteps, ExpiringSteps
<1> QED
  BY <1>2, <1>3, <1>5, <1>6 DEF SerialInv

\* Every step keeps SerialInv.
LEMMA NextSerial ==
    ASSUME IInv, SerialInv, Serial, [Next]_vars
    PROVE  SerialInv'
<1>1. ASSUME NEW h \in Processes,
             PaymentRequest(h) \/ PaymentStep(h)
      PROVE  SerialInv'
  BY <1>1, CheckoutSerial, ConfirmSerial, OneSaveSerial
     DEF PaymentRequest, PaymentStep
<1>2. ASSUME NEW h \in Processes,
             BeginJob(h) \/ SubscriptionRequest(h) \/ SubscriptionStep(h)
      PROVE  SerialInv'
  BY <1>2, OneSaveSerial, JobSerial, FreePlanSerial, AdminSerial, ReviewSerial
     DEF SubscriptionRequest, SubscriptionStep
<1> QED
  BY <1>1, <1>2, SurroundingsSerial DEF Next, Request, Step, Processes

(***************************************************************************)
(* With one request at a time no request ever saves a row that is not the  *)
(* row it read: the whole-row saves overwrite nothing.                     *)
(***************************************************************************)
THEOREM SerialInvariance ==
    ASSUME Serial
    PROVE  Spec => []SerialInv
<1>1. Init => SerialInv
  BY InitSerial
<1>2. IInv /\ SerialInv /\ [Next]_vars => SerialInv'
  BY NextSerial
<1> QED
  BY <1>1, <1>2, Invariance, PTL DEF Spec
-----------------------------------------------------------------------------
(* What a suspension stands against.                                       *)

\* The steps that write the school's status.
LEMMA SchoolWritten ==
    ASSUME [Next]_vars, school' # school
    PROVE  \E h \in Processes :
              \/ At(h, "admin.save") /\ school' = frame[h].target
              \/ At(h, "submit.save") /\ school' = "PENDING_REVIEW"
              \/ At(h, "review.save") /\ school' = frame[h].target
              \/ /\ At(h, "confirm.saveSchool")
                 /\ school' = ActivateAfterPaidSubscription(frame[h].school)
              \/ frame[h].at \in ExpiringSteps /\ school' = "EXPIRED"
<1>1. ASSUME NEW h \in Processes, PaymentRequest(h) \/ PaymentStep(h)
      PROVE  /\ At(h, "confirm.saveSchool")
             /\ school' = ActivateAfterPaidSubscription(frame[h].school)
  <2>1. ~(PaymentRequest(h) \/ CheckoutStep(h) \/ SaveFailed(h))
    BY DEF PaymentRequest, BeginCheckout, BeginConfirm, BeginFail, CheckoutStep,
       ResolveSubscription, CreatePendingSubscription, CreatePendingPayment,
       GatewayAnswers, SaveProcessing, SaveFailed
  <2>2. ConfirmStep(h)
    BY <1>1, <2>1 DEF PaymentStep
  <2>3. SaveActivatedSchool(h)
    BY <2>2 DEF ConfirmStep, FindSubscription, FindPlan, SaveConfirmed, PostRevenue,
       PostReceipt, SaveSubscription, FindOthers, ExpireOther, FindSchool, RecordEvent
  <2> QED
    BY <2>3 DEF SaveActivatedSchool
<1>2. ASSUME NEW h \in Processes,
             BeginJob(h) \/ SubscriptionRequest(h) \/ SubscriptionStep(h)
      PROVE  \/ At(h, "admin.save") /\ school' = frame[h].target
             \/ At(h, "submit.save") /\ school' = "PENDING_REVIEW"
             \/ At(h, "review.save") /\ school' = frame[h].target
             \/ frame[h].at \in ExpiringSteps /\ school' = "EXPIRED"
  <2>1. ~(BeginJob(h) \/ SubscriptionRequest(h) \/ SaveCancelled(h))
    BY DEF SubscriptionRequest, BeginJob, BeginCancel, BeginDashboard, BeginFreePlan,
       BeginChangeStatus, BeginSubmit, BeginReview, SaveCancelled
  <2>2. CASE JobStep(h)
    BY <2>2 DEF JobStep, SaveDue, CheckStillValid, FindSchoolOfDue, ExpireSchoolOfDue,
       At, ExpiringSteps
  <2>3. CASE DashboardStep(h)
    BY <2>3 DEF DashboardStep, SaveLatestExpired, FindSchoolOfLatest,
       ExpireSchoolOfLatest, At, ExpiringSteps
  <2>4. CASE FreePlanStep(h)
    BY <2>4 DEF FreePlanStep, FindFreePlan, FindFree, SaveFreeExpired,
       ExpireSchoolOfFree, FindValidBeforeFree, CreateFree, At, ExpiringSteps
  <2>5. CASE AdminStep(h)
    BY <2>5 DEF AdminStep, ListActive, CloseActive, SaveGrant, SaveAdminStatus
  <2>6. CASE ReviewStep(h)
    BY <2>6 DEF ReviewStep, CheckSubscription, SaveSubmitted, SaveReview
  <2> QED
    BY <1>2, <2>1, <2>2, <2>3, <2>4, <2>5, <2>6 DEF SubscriptionStep
<1>3. ~Tick /\ ~(UNCHANGED vars) /\ \A h \in Processes : ~Abort(h)
  BY DEF Tick, Abort, vars
<1>4. \A plan \in SwitchedPlans, isActive \in BOOLEAN : ~SetPlanActive(plan, isActive)
  BY DEF SetPlanActive
<1>5. \E h \in Processes :
         \/ PaymentRequest(h) \/ PaymentStep(h)
         \/ BeginJob(h) \/ SubscriptionRequest(h) \/ SubscriptionStep(h)
  BY <1>3, <1>4 DEF Next, Request, Step, Processes
<1> QED
  BY <1>1, <1>2, <1>5

(***************************************************************************)
(* SuspensionStands: with one request at a time only                       *)
(* ChangeSchoolStatusUseCase takes a school out of SUSPENDED, through      *)
(* payments, jobs and crashes.                                             *)
(***************************************************************************)
THEOREM OnlyTheAdminLifts ==
    ASSUME Serial
    PROVE  Spec => SuspensionStands
<1> DEFINE A == school = "SUSPENDED" /\ school' # "SUSPENDED"
                   => \E h \in Processes : At(h, "admin.save")
<1>1. SerialInv /\ [Next]_vars => A
  <2> SUFFICES ASSUME SerialInv, [Next]_vars, school = "SUSPENDED", school' # "SUSPENDED"
               PROVE  \E h \in Processes : At(h, "admin.save")
    OBVIOUS
  <2>1. PICK h \in Processes :
              \/ At(h, "admin.save") /\ school' = frame[h].target
              \/ At(h, "submit.save") /\ school' = "PENDING_REVIEW"
              \/ At(h, "review.save") /\ school' = frame[h].target
              \/ /\ At(h, "confirm.saveSchool")
                 /\ school' = ActivateAfterPaidSubscription(frame[h].school)
              \/ frame[h].at \in ExpiringSteps /\ school' = "EXPIRED"
    BY SchoolWritten
  <2>2. Current(h)
    BY DEF SerialInv
  <2> QED
    BY <2>1, <2>2 DEF Current, SchoolIsCurrent, SchoolSteps, ExpiringSteps, Submittable, At,
       ActivateAfterPaidSubscription
<1>2. SerialInv /\ [Next]_vars => [A]_vars
  BY <1>1
<1>3. Spec => [][A]_vars
  BY <1>2, SerialInvariance, PTL DEF Spec
<1> QED
  BY <1>3 DEF SuspensionStands

-----------------------------------------------------------------------------
(* Money.                                                                  *)

\* The applied payments of a subscription are finitely many, their time a number.
LEMMA AppliedSums ==
    ASSUME IInv, NEW s
    PROVE  /\ IsFiniteSet(AppliedFor(s)) /\ AppliedFor(s) \subseteq Payments
           /\ [p \in AppliedFor(s) |-> Period[payments[p].plan]] \in [AppliedFor(s) -> Nat]
           /\ AppliedTime(s) \in Nat
<1>1. AppliedFor(s) \subseteq Payments
  BY DEF AppliedFor, IInv, TypeOK
<1>2. IsFiniteSet(Payments)
  BY FS_Interval, BoundsAssumption DEF Payments
<1>3. IsFiniteSet(AppliedFor(s))
  BY <1>1, <1>2, FS_Subset
<1>4. \A p \in AppliedFor(s) : Period[payments[p].plan] \in Nat
  BY <1>1, PeriodAssumption DEF IInv, TypeOK, Payment
<1>5. [p \in AppliedFor(s) |-> Period[payments[p].plan]] \in [AppliedFor(s) -> Nat]
  BY <1>4
<1>6. AppliedTime(s) \in Nat
  BY <1>3, <1>5, SumIsNat DEF AppliedTime, SumFunction
<1> QED
  BY <1>1, <1>3, <1>5, <1>6

\* A gift is a number of days.
LEMMA GiftsAreNat ==
    ASSUME IInv, NEW s \in Stored
    PROVE  GivenTime(s) \in Nat
BY PlansAssumption, PeriodAssumption, GrantAssumption
   DEF GivenTime, Stored, IInv, TypeOK, Subscription

\* The applied time of a subscription stays when its applied payments and their
\* plans do.
LEMMA AppliedTimeSame ==
    ASSUME IInv, applied' = applied, NEW s,
           \A p \in applied : /\ payments'[p].sub = payments[p].sub
                              /\ payments'[p].plan = payments[p].plan
    PROVE  AppliedTime(s)' = AppliedTime(s)
<1>1. AppliedFor(s)' = AppliedFor(s)
  BY DEF AppliedFor
<1>2. \A p \in AppliedFor(s) : payments'[p].plan = payments[p].plan
  BY DEF AppliedFor
<1>3. [p \in AppliedFor(s)' |-> Period[payments'[p].plan]]
        = [p \in AppliedFor(s) |-> Period[payments[p].plan]]
  BY <1>1, <1>2
<1> QED
  BY <1>3 DEF AppliedTime

\* It grows by the period of a payment newly applied to the subscription.
LEMMA AppliedTimeMore ==
    ASSUME IInv, NEW q \in Payments, q \notin applied, applied' = applied \cup {q},
           payments' = payments, NEW s
    PROVE  AppliedTime(s)' = IF s = payments[q].sub
                             THEN AppliedTime(s) + Period[payments[q].plan]
                             ELSE AppliedTime(s)
<1>1. CASE s # payments[q].sub
  <2>1. AppliedFor(s)' = AppliedFor(s)
    BY <1>1 DEF AppliedFor
  <2> QED
    BY <1>1, <2>1 DEF AppliedTime
<1>2. CASE s = payments[q].sub
  <2>1. AppliedFor(s)' = AppliedFor(s) \cup {q} /\ q \notin AppliedFor(s)
    BY <1>2 DEF AppliedFor
  <2>2. Period[payments[q].plan] \in Nat
    BY PeriodAssumption DEF IInv, TypeOK, Payment
  <2>3. ASSUME NEW S, S = AppliedFor(s),
               NEW f, f = [p \in AppliedFor(s) |-> Period[payments[p].plan]],
               NEW g, g = [p \in AppliedFor(s) \cup {q} |-> Period[payments[p].plan]]
        PROVE  SumFunction(g) = Period[payments[q].plan] + SumFunction(f)
    <3>1. f \in [S -> Int] /\ IsFiniteSet(S) /\ q \notin S
      BY <2>1, <2>3, AppliedSums
    <3>2. g \in [S \cup {q} -> Int] /\ (\A x \in S : g[x] = f[x])
          /\ g[q] = Period[payments[q].plan]
      BY <2>2, <2>3, <3>1
    <3>3. /\ IsFiniteSet(S) /\ q \notin S
          /\ f \in [S -> Int] /\ g \in [S \cup {q} -> Int]
          /\ \A x \in S : g[x] = f[x]
      BY <3>1, <3>2
    <3>4. SumFunction(g) = g[q] + SumFunction(f)
      BY <3>3, SumOfExtension
    <3> QED
      BY <3>2, <3>4
  <2>4. AppliedTime(s)' = SumFunction([p \in AppliedFor(s) \cup {q} |->
                                          Period[payments[p].plan]])
    BY <2>1 DEF AppliedTime
  <2>5. AppliedTime(s)' = Period[payments[q].plan] + AppliedTime(s)
    BY <2>3, <2>4 DEF AppliedTime
  <2>6. AppliedTime(s) \in Nat
    BY AppliedSums
  <2> QED
    BY <1>2, <2>2, <2>5, <2>6
<1> QED
  BY <1>1, <1>2

\* Steps between the save of a payment as PAID and of its subscription.
PostingSteps == {"confirm.revenue", "confirm.receipt", "confirm.apply"}

\* Unapplied asks nothing of other steps.
LEMMA UnappliedElsewhere ==
    ASSUME NEW h \in Processes, frame'[h].at \notin PostingSteps
    PROVE  Unapplied(h)'
BY DEF Unapplied, PostingSteps

\* Of the frames only h's changes.
LEMMA UnappliedMoved ==
    ASSUME IInv, SerialInv, NEW h \in Processes, Ready(h), NEW f, Become(h, f),
           Unapplied(h)'
    PROVE  \A g \in Processes : Unapplied(g)'
<1>1. ASSUME NEW g \in Processes, g # h PROVE Unapplied(g)'
  BY <1>1, OthersIdle, UnappliedElsewhere DEF SerialInv, PostingSteps
<1> QED
  BY <1>1

\* Time passes, payments of the same plans and subscriptions are saved, the ledger grows.
LEMMA MoneyKept ==
    ASSUME IInv, MoneyInv, UNCHANGED <<subs, applied>>, now' \in Nat, now <= now',
           revenue \subseteq revenue',
           \A p \in applied : /\ payments'[p].sub = payments[p].sub
                              /\ payments'[p].plan = payments[p].plan
                              /\ payments'[p].status \in {"PAID", "FAILED"},
           \A g \in Processes : Unapplied(g)'
    PROVE  MoneyInv'
<1>1. \A s : AppliedTime(s)' = AppliedTime(s) /\ AppliedTime(s) \in Nat
  BY AppliedTimeSame, AppliedSums
<1>2. Stored' = Stored
  BY DEF Stored
<1>3. \A s \in Stored : /\ GivenTime(s)' = GivenTime(s) /\ GivenTime(s) \in Nat
                        /\ subs[s].end \in Nat
  BY GiftsAreNat DEF GivenTime, IInv, TypeOK, Stored, Subscription
<1>4. ServiceIsBacked'
  <2> SUFFICES ASSUME NEW s \in Stored
               PROVE  /\ subs'[s].end <= now' + AppliedTime(s)' + GivenTime(s)'
                      /\ subs'[s].status = "ACTIVE" => subs'[s].end # NoDate
    BY <1>2 DEF ServiceIsBacked
  <2>1. /\ subs[s].end <= now + AppliedTime(s) + GivenTime(s)
        /\ subs[s].status = "ACTIVE" => subs[s].end # NoDate
    BY DEF MoneyInv, ServiceIsBacked
  <2>2. now \in Nat
    BY DEF IInv, TypeOK
  <2>3. ASSUME NEW a, a = AppliedTime(s), NEW b, b = GivenTime(s)
        PROVE  subs[s].end <= now' + a + b
    BY <1>1, <1>3, <2>1, <2>2, <2>3
  <2> QED
    BY <1>1, <1>3, <2>1, <2>3
<1>5. AppliedIsClosed'
  BY DEF MoneyInv, AppliedIsClosed
<1> QED
  BY <1>4, <1>5 DEF MoneyInv

\* A step that writes nothing of this.
LEMMA MoneyQuiet ==
    ASSUME IInv, SerialInv, MoneyInv, NEW h \in Processes, Ready(h),
           NEW f, Become(h, f), Unapplied(h)',
           UNCHANGED <<now, subs, payments, revenue, applied>>
    PROVE  MoneyInv'
<1>1. \A g \in Processes : Unapplied(g)'
  BY UnappliedMoved
<1>2. \A p \in applied : payments[p].status \in {"PAID", "FAILED"}
  BY DEF MoneyInv, AppliedIsClosed
<1>3. now \in Nat
  BY DEF IInv, TypeOK
<1> QED
  BY <1>1, <1>2, <1>3, MoneyKept

\* An answer that saves nothing keeps MoneyInv.
LEMMA MoneyAnswer ==
    ASSUME IInv, SerialInv, MoneyInv, NEW h \in Processes, Ready(h), Return(h),
           UNCHANGED <<now, subs, payments, revenue, applied>>
    PROVE  MoneyInv'
<1>1. frame'[h] = Idle
  BY Moved DEF Return
<1>2. Unapplied(h)'
  BY <1>1, UnappliedElsewhere DEF Idle, PostingSteps
<1> QED
  BY <1>2, MoneyQuiet DEF Return

\* A subscription is saved closed, or with its renewal cancelled.
LEMMA MoneyRowSaved ==
    ASSUME IInv, SerialInv, MoneyInv, NEW h \in Processes, Ready(h),
           NEW f, Become(h, f), frame'[h].at \notin PostingSteps,
           NEW s \in Stored, NEW row, SaveSub(s, row), row.status # "NONE",
           row.end = subs[s].end, row.origin = subs[s].origin,
           row.status = "ACTIVE" => subs[s].status = "ACTIVE",
           UNCHANGED <<now, payments, revenue, applied>>
    PROVE  MoneyInv'
<1>1. \A g \in Processes : Unapplied(g)'
  BY UnappliedMoved, UnappliedElsewhere
<1>2. \A t : AppliedTime(t)' = AppliedTime(t)
  BY AppliedTimeSame
<1>3. /\ Stored' = Stored
      /\ \A t \in Subs : subs'[t] = IF t = s THEN row ELSE subs[t]
  BY StoredSaved DEF SerialInv
<1>4. \A t \in Stored : GivenTime(t)' = GivenTime(t)
  BY <1>3 DEF GivenTime, Stored
<1>5. ServiceIsBacked'
  <2> SUFFICES ASSUME NEW t \in Stored
               PROVE  /\ subs'[t].end <= now' + AppliedTime(t)' + GivenTime(t)'
                      /\ subs'[t].status = "ACTIVE" => subs'[t].end # NoDate
    BY <1>3 DEF ServiceIsBacked
  <2>1. /\ subs[t].end <= now + AppliedTime(t) + GivenTime(t)
        /\ subs[t].status = "ACTIVE" => subs[t].end # NoDate
    BY DEF MoneyInv, ServiceIsBacked
  <2>2. subs'[t].end = subs[t].end
        /\ (subs'[t].status = "ACTIVE" => subs[t].status = "ACTIVE")
    BY <1>3 DEF Stored
  <2> QED
    BY <1>2, <1>4, <2>1, <2>2
<1>6. AppliedIsClosed'
  BY DEF MoneyInv, AppliedIsClosed
<1> QED
  BY <1>1, <1>5, <1>6 DEF MoneyInv

\* A subscription begins: waiting for a payment, or given.
LEMMA MoneyNewRow ==
    ASSUME IInv, SerialInv, MoneyInv, NEW h \in Processes, Ready(h),
           NEW f, Become(h, f), frame'[h].at \notin PostingSteps,
           NewId \in Subs, NEW row, SaveSub(NewId, row),
           NEW plan \in Plans, NEW t \in Nat, t <= now,
           row \in {CreatePending(plan), CreateFreePlan(t), CreateAdminGrant(plan, t)},
           UNCHANGED <<now, payments, revenue, applied>>
    PROVE  MoneyInv'
<1>1. \A g \in Processes : Unapplied(g)'
  BY UnappliedMoved, UnappliedElsewhere
<1>2. \A s : AppliedTime(s)' = AppliedTime(s) /\ AppliedTime(s) \in Nat
  BY AppliedTimeSame, AppliedSums
<1>3. row.status # "NONE"
  BY DEF CreatePending, CreateFreePlan, CreateAdminGrant, NewSubscription
<1>4. /\ Stored' = Stored \cup {NewId}
      /\ \A s \in Subs : subs'[s] = IF s = NewId THEN row ELSE subs[s]
  BY <1>3, NewSaved DEF SerialInv
<1>n. PICK n \in Subs : n = NewId
  OBVIOUS
<1>5. n \notin Stored
  BY <1>n, NewIdIsNext DEF SerialInv
<1>6. \A s \in Stored : subs'[s] = subs[s] /\ GivenTime(s)' = GivenTime(s)
  BY <1>n, <1>4, <1>5 DEF GivenTime, Stored
<1>7. /\ row.end <= now + (CASE row.origin = "checkout" -> 0
                             [] row.origin = "free" -> Period[FreePlan]
                             [] row.origin = "grant" -> GrantPeriod)
      /\ row.status = "ACTIVE" => row.end # NoDate
      /\ row.end \in Nat
  <2>1. /\ now \in Nat /\ Period[FreePlan] \in Nat \ {0} /\ GrantPeriod \in Nat \ {0}
    BY PlansAssumption, PeriodAssumption, GrantAssumption DEF IInv, TypeOK
  <2> QED
    BY <2>1 DEF CreatePending, CreateFreePlan, CreateAdminGrant, NewSubscription, NoDate
<1>8. subs'[n] = row
  BY <1>n, <1>4
<1>9. GivenTime(n)' = (CASE row.origin = "checkout" -> 0
                             [] row.origin = "free" -> Period[FreePlan]
                             [] row.origin = "grant" -> GrantPeriod)
      /\ GivenTime(n)' \in Nat
  BY <1>8, PlansAssumption, PeriodAssumption, GrantAssumption
     DEF GivenTime, CreatePending, CreateFreePlan, CreateAdminGrant, NewSubscription
<1>10. ASSUME NEW s \in Stored'
       PROVE  /\ subs'[s].end <= now' + AppliedTime(s)' + GivenTime(s)'
              /\ subs'[s].status = "ACTIVE" => subs'[s].end # NoDate
  <2>1. CASE s \in Stored
    <3>1. /\ subs[s].end <= now + AppliedTime(s) + GivenTime(s)
          /\ subs[s].status = "ACTIVE" => subs[s].end # NoDate
      BY <2>1 DEF MoneyInv, ServiceIsBacked
    <3> QED
      BY <1>2, <1>6, <2>1, <3>1
  <2>2. CASE s = n
    <3>1. ASSUME NEW a \in Nat, NEW b \in Nat, row.end <= now + b
          PROVE  row.end <= now + a + b
      BY <1>7, <3>1 DEF IInv, TypeOK
    <3>2. row.end <= now + GivenTime(n)'
      BY <1>7, <1>9
    <3>3. AppliedTime(n)' \in Nat /\ GivenTime(n)' \in Nat
      BY <1>2, <1>9
    <3>4. row.end <= now + AppliedTime(n)' + GivenTime(n)'
      BY <3>1, <3>2, <3>3
    <3>5. now' = now
      OBVIOUS
    <3> QED
      BY <1>7, <1>8, <2>2, <3>4, <3>5
  <2> QED
    BY <1>n, <1>4, <2>1, <2>2
<1>11. ServiceIsBacked'
  BY <1>10 DEF ServiceIsBacked
<1>12. AppliedIsClosed'
  BY DEF MoneyInv, AppliedIsClosed
<1> QED
  BY <1>1, <1>11, <1>12 DEF MoneyInv
\* The requests that begin, and the steps that only read.
LEMMA ReadsMoney ==
    ASSUME IInv, SerialInv, MoneyInv, NEW h \in Processes, Serial,
           \/ PaymentRequest(h) \/ SubscriptionRequest(h) \/ BeginJob(h)
           \/ ResolveSubscription(h) \/ GatewayAnswers(h)
           \/ FindSubscription(h) \/ FindPlan(h) \/ FindOthers(h) \/ FindSchool(h)
           \/ SaveActivatedSchool(h) \/ RecordEvent(h)
           \/ CheckStillValid(h) \/ FindSchoolOfDue(h) \/ ExpireSchoolOfDue(h)
           \/ FindSchoolOfLatest(h) \/ ExpireSchoolOfLatest(h)
           \/ FindFreePlan(h) \/ FindFree(h) \/ ExpireSchoolOfFree(h)
           \/ FindValidBeforeFree(h) \/ ListActive(h) \/ SaveAdminStatus(h)
           \/ CheckSubscription(h) \/ SaveSubmitted(h) \/ SaveReview(h)
    PROVE  MoneyInv'
<1>0. /\ UNCHANGED <<now, subs, payments, revenue, applied>>
      /\ Ready(h)
  BY DEF PaymentRequest, BeginCheckout, BeginConfirm, BeginFail, SubscriptionRequest,
     BeginCancel, BeginDashboard, BeginFreePlan, BeginChangeStatus, BeginSubmit,
     BeginReview, BeginJob, CheckSubscription, SaveSubmitted, SaveReview,
     ResolveSubscription, GatewayAnswers, FindSubscription, FindPlan, FindOthers,
     FindSchool, SaveActivatedSchool, RecordEvent, CheckStillValid, FindSchoolOfDue,
     ExpireSchoolOfDue, FindSchoolOfLatest, ExpireSchoolOfLatest, FindFreePlan,
     FindFree, ExpireSchoolOfFree, FindValidBeforeFree, ListActive, SaveAdminStatus,
     Begin, Ready, At, world, ledger, history
<1>1. frame[h] \in Frame
  BY FrameFacts
<1>2. SUFFICES frame'[h].at \notin PostingSteps /\ \E g : Become(h, g)
  <2>1. ASSUME frame'[h].at \notin PostingSteps, NEW g, Become(h, g) PROVE MoneyInv'
    <3>1. Unapplied(h)'
      BY <2>1, UnappliedElsewhere
    <3> QED
      BY <1>0, <2>1, <3>1, MoneyQuiet
  <2> QED
    BY <2>1
<1>3. ASSUME NEW g, Become(h, g), g.at \notin PostingSteps
      PROVE  frame'[h].at \notin PostingSteps /\ \E x : Become(h, x)
  BY <1>3, Moved
<1>4. ASSUME NEW step, Become(h, [frame[h] EXCEPT !.at = step]), step \notin PostingSteps
      PROVE  frame'[h].at \notin PostingSteps /\ \E x : Become(h, x)
  <2>1. [frame[h] EXCEPT !.at = step].at = step
    BY <1>1 DEF Frame
  <2> QED
    BY <1>3, <1>4, <2>1
<1>5. ASSUME Return(h)
      PROVE  frame'[h].at \notin PostingSteps /\ \E x : Become(h, x)
  BY <1>3, <1>5 DEF Return, Idle, PostingSteps
<1>6. CASE PaymentRequest(h)
  <2>1. CASE BeginCheckout(h)
    BY <1>3, <2>1 DEF BeginCheckout, Idle, PostingSteps
  <2>2. CASE BeginConfirm(h)
    BY <1>3, <2>2 DEF BeginConfirm, Idle, PostingSteps
  <2>3. CASE BeginFail(h)
    BY <1>3, <2>3 DEF BeginFail, Idle, PostingSteps
  <2> QED
    BY <1>6, <2>1, <2>2, <2>3 DEF PaymentRequest
<1>7. CASE SubscriptionRequest(h) \/ BeginJob(h)
  <2>1. CASE BeginCancel(h)
    BY <1>3, <2>1 DEF BeginCancel, Idle, PostingSteps
  <2>2. CASE BeginDashboard(h)
    BY <1>3, <2>2 DEF BeginDashboard, Idle, PostingSteps
  <2>3. CASE BeginFreePlan(h)
    BY <1>3, <2>3 DEF BeginFreePlan, Idle, PostingSteps
  <2>4. CASE BeginChangeStatus(h)
    BY <1>3, <2>4 DEF BeginChangeStatus, Idle, PostingSteps
  <2>5. CASE BeginJob(h)
    BY <1>3, <2>5 DEF BeginJob, Idle, PostingSteps
  <2>6. CASE BeginSubmit(h)
    BY <1>3, <2>6 DEF BeginSubmit, Idle, PostingSteps
  <2>7. CASE BeginReview(h)
    BY <1>3, <2>7 DEF BeginReview, Idle, PostingSteps
  <2> QED
    BY <1>7, <2>1, <2>2, <2>3, <2>4, <2>5, <2>6, <2>7 DEF SubscriptionRequest
<1>8. CASE ResolveSubscription(h)
  BY <1>1, <1>3, <1>8 DEF ResolveSubscription, Goto, Frame, PostingSteps
<1>9. CASE GatewayAnswers(h)
  BY <1>4, <1>5, <1>9 DEF GatewayAnswers, Goto, PostingSteps
<1>10. CASE FindSubscription(h) \/ FindPlan(h)
  BY <1>1, <1>3, <1>10 DEF FindSubscription, FindPlan, Frame, PostingSteps
<1>11. CASE FindOthers(h) \/ FindSchool(h)
  BY <1>1, <1>3, <1>11 DEF FindOthers, FindSchool, Frame, PostingSteps
<1>12. CASE SaveActivatedSchool(h) \/ RecordEvent(h)
  BY <1>4, <1>5, <1>12 DEF SaveActivatedSchool, RecordEvent, Goto, PostingSteps
<1>13. CASE CheckStillValid(h) \/ FindSchoolOfDue(h) \/ ExpireSchoolOfDue(h)
  BY <1>4, <1>5, <1>13
     DEF CheckStillValid, FindSchoolOfDue, ExpireSchoolOfDue, NextDue, Goto, PostingSteps
<1>14. CASE FindSchoolOfLatest(h) \/ ExpireSchoolOfLatest(h)
  BY <1>4, <1>5, <1>14 DEF FindSchoolOfLatest, ExpireSchoolOfLatest, Goto, PostingSteps
<1>15. CASE FindFreePlan(h) \/ ExpireSchoolOfFree(h) \/ FindValidBeforeFree(h)
  BY <1>4, <1>5, <1>15
     DEF FindFreePlan, ExpireSchoolOfFree, FindValidBeforeFree, Goto, PostingSteps
<1>16. CASE FindFree(h)
  BY <1>1, <1>3, <1>4, <1>5, <1>16 DEF FindFree, Goto, Frame, PostingSteps
<1>17. CASE ListActive(h)
  BY <1>1, <1>3, <1>17 DEF ListActive, AfterClosing, Frame, PostingSteps
<1>18. CASE SaveAdminStatus(h) \/ SaveSubmitted(h) \/ SaveReview(h)
  BY <1>5, <1>18 DEF SaveAdminStatus, SaveSubmitted, SaveReview
<1>19. CASE CheckSubscription(h)
  <2>1. ASSUME NEW latest, Become(h, [Idle EXCEPT !.at = "dashboard.save", !.s = latest,
                                                  !.sub = subs[latest]])
        PROVE  frame'[h].at \notin PostingSteps /\ \E x : Become(h, x)
    BY <1>3, <2>1 DEF Idle, PostingSteps
  <2>2. CASE Return(h) \/ Goto(h, "submit.save")
    BY <1>4, <1>5, <2>2 DEF Goto, PostingSteps
  <2> QED
    BY <1>19, <2>1, <2>2, SubmissionReads
<1> QED
  BY <1>6, <1>7, <1>8, <1>9, <1>10, <1>11, <1>12, <1>13, <1>14, <1>15, <1>16, <1>17,
     <1>18, <1>19
\* A subscription is closed, cancelled, created or given.
LEMMA SavesMoney ==
    ASSUME IInv, SerialInv, MoneyInv, NEW h \in Processes,
           \/ ExpireOther(h) \/ SaveDue(h) \/ SaveLatestExpired(h) \/ SaveFreeExpired(h)
           \/ CloseActive(h) \/ SaveCancelled(h)
           \/ CreatePendingSubscription(h) \/ CreateFree(h) \/ SaveGrant(h)
    PROVE  MoneyInv'
<1>0. /\ frame[h] \in Frame /\ Current(h) /\ now \in Nat
      /\ subs \in [Subs -> Subscription]
  BY FrameFacts DEF SerialInv
<1>1. /\ UNCHANGED <<now, payments, revenue, applied>>
      /\ Ready(h)
  BY DEF ExpireOther, SaveDue, SaveLatestExpired, SaveFreeExpired, CloseActive,
     SaveCancelled, CreatePendingSubscription, CreateFree, SaveGrant,
     Ready, At, world, ledger, history
<1>2. ASSUME NEW item \in frame[h].rest, frame[h].at \in BatchSteps,
             SaveSub(item.id, Expire(item.row)), NEW g, Become(h, g),
             g.at \notin PostingSteps
      PROVE  MoneyInv'
  <2>1. /\ item \in Rows /\ item.id \in Stored /\ item.row = subs[item.id]
    BY <1>0, <1>2 DEF Current, BatchIsCurrent, Frame
  <2>2. frame'[h].at \notin PostingSteps
    BY <1>2, Moved
  <2> DEFINE row == Expire(item.row)
  <2>3. /\ row.status = "EXPIRED" /\ row.end = subs[item.id].end
        /\ row.origin = subs[item.id].origin
    BY <2>1 DEF Expire, Rows, Subscription
  <2> HIDE DEF row
  <2> QED
    BY <1>1, <1>2, <2>1, <2>2, <2>3, MoneyRowSaved DEF row
<1>3. ASSUME NEW row, frame[h].at \in OverwritingSteps,
             row \in {Expire(frame[h].sub), ScheduleCancelAtPeriodEnd(frame[h].sub)},
             SaveSub(frame[h].s, row), NEW g, Become(h, g), g.at \notin PostingSteps
      PROVE  MoneyInv'
  <2>1. frame[h].s \in Stored /\ frame[h].sub = subs[frame[h].s]
        /\ frame[h].sub \in Subscription /\ frame[h].sub.status # "NONE"
    BY <1>0, <1>3 DEF Current, SubIsCurrent, Frame, Stored
  <2>2. frame'[h].at \notin PostingSteps
    BY <1>3, Moved
  <2>3. /\ row.status \in {"EXPIRED", frame[h].sub.status}
        /\ row.end = subs[frame[h].s].end
        /\ row.origin = subs[frame[h].s].origin
    BY <1>3, <2>1 DEF Expire, ScheduleCancelAtPeriodEnd, Subscription
  <2>4. /\ row.status # "NONE"
        /\ row.status = "ACTIVE" => subs[frame[h].s].status = "ACTIVE"
    BY <2>1, <2>3
  <2> QED
    BY <1>1, <1>3, <2>1, <2>2, <2>3, <2>4, MoneyRowSaved
<1>4. ASSUME NEW plan \in Plans, NEW row,
             row \in {CreatePending(plan), CreateFreePlan(frame[h].t),
                      CreateAdminGrant(plan, frame[h].t)},
             NewId \in Subs, SaveSub(NewId, row), NEW g, Become(h, g),
             g.at \notin PostingSteps
      PROVE  MoneyInv'
  <2>1. frame[h].t \in Nat /\ frame[h].t <= now
    BY <1>0 DEF Frame, Current
  <2>2. frame'[h].at \notin PostingSteps
    BY <1>4, Moved
  <2> QED
    BY <1>1, <1>4, <2>1, <2>2, MoneyNewRow
<1>5. \A step : [frame[h] EXCEPT !.at = step].at = step
  BY <1>0 DEF Frame
<1>6. Idle.at \notin PostingSteps
  BY DEF Idle, PostingSteps
<1>7. CASE ExpireOther(h)
  <2>1. PICK other \in frame[h].rest :
          /\ SaveSub(other.id, Expire(other.row))
          /\ Become(h, [frame[h] EXCEPT !.rest = frame[h].rest \ {other},
                !.at = IF frame[h].rest \ {other} = {}
                       THEN "confirm.school" ELSE "confirm.expire"])
    BY <1>7 DEF ExpireOther
  <2>2. [frame[h] EXCEPT !.rest = frame[h].rest \ {other},
                !.at = IF frame[h].rest \ {other} = {}
                       THEN "confirm.school" ELSE "confirm.expire"].at \notin PostingSteps
    BY <1>0 DEF Frame, PostingSteps
  <2>3. frame[h].at \in BatchSteps
    BY <1>7 DEF ExpireOther, At, BatchSteps
  <2> QED
    BY <1>2, <2>1, <2>2, <2>3
<1>8. CASE SaveDue(h)
  <2>1. PICK due \in frame[h].rest :
          /\ SaveSub(due.id, Expire(due.row))
          /\ Become(h, [frame[h] EXCEPT !.at = "job.check",
                                        !.rest = frame[h].rest \ {due}])
    BY <1>8 DEF SaveDue
  <2>2. [frame[h] EXCEPT !.at = "job.check",
                         !.rest = frame[h].rest \ {due}].at \notin PostingSteps
    BY <1>0 DEF Frame, PostingSteps
  <2>3. frame[h].at \in BatchSteps
    BY <1>8 DEF SaveDue, At, BatchSteps
  <2> QED
    BY <1>2, <2>1, <2>2, <2>3
<1>9. CASE CloseActive(h)
  <2>1. PICK active \in frame[h].rest :
          /\ SaveSub(active.id, Expire(active.row))
          /\ Become(h, [frame[h] EXCEPT !.rest = frame[h].rest \ {active},
                !.at = IF frame[h].rest \ {active} = {}
                       THEN AfterClosing(frame[h]) ELSE "admin.close"])
    BY <1>9 DEF CloseActive
  <2>2. [frame[h] EXCEPT !.rest = frame[h].rest \ {active},
                !.at = IF frame[h].rest \ {active} = {}
                       THEN AfterClosing(frame[h]) ELSE "admin.close"].at
           \notin PostingSteps
    BY <1>0 DEF Frame, AfterClosing, PostingSteps
  <2>3. frame[h].at \in BatchSteps
    BY <1>9 DEF CloseActive, At, BatchSteps
  <2> QED
    BY <1>2, <2>1, <2>2, <2>3
<1>10. CASE SaveLatestExpired(h)
  <2>1. /\ frame[h].at \in OverwritingSteps
        /\ SaveSub(frame[h].s, Expire(frame[h].sub))
        /\ Become(h, [Idle EXCEPT !.at = "dashboard.school"])
    BY <1>10 DEF SaveLatestExpired, At, OverwritingSteps
  <2>2. [Idle EXCEPT !.at = "dashboard.school"].at \notin PostingSteps
    BY DEF Idle, PostingSteps
  <2> QED
    BY <1>3, <2>1, <2>2
<1>11. CASE SaveFreeExpired(h)
  <2>1. /\ frame[h].at \in OverwritingSteps
        /\ SaveSub(frame[h].s, Expire(frame[h].sub))
        /\ \/ Become(h, [frame[h] EXCEPT !.at = "free.saveSchool"])
           \/ Become(h, Idle)
    BY <1>11 DEF SaveFreeExpired, At, OverwritingSteps, Goto, Return
  <2>2. "free.saveSchool" \notin PostingSteps
    BY DEF PostingSteps
  <2> QED
    BY <1>3, <1>5, <1>6, <2>1, <2>2
<1>12. CASE SaveCancelled(h)
  <2>1. /\ frame[h].at \in OverwritingSteps
        /\ SaveSub(frame[h].s, ScheduleCancelAtPeriodEnd(frame[h].sub))
        /\ Become(h, Idle)
    BY <1>12 DEF SaveCancelled, At, OverwritingSteps, Return
  <2> QED
    BY <1>3, <1>6, <2>1
<1>13. CASE CreatePendingSubscription(h)
  <2>1. frame[h].plan \in Plans
    BY <1>0 DEF Frame
  <2>2. [frame[h] EXCEPT !.at = "checkout.create", !.s = NewId,
                         !.sub = CreatePending(frame[h].plan)].at \notin PostingSteps
    BY <1>0 DEF Frame, PostingSteps
  <2> QED
    BY <1>4, <1>13, <2>1, <2>2 DEF CreatePendingSubscription
<1>14. CASE CreateFree(h)
  BY <1>4, <1>6, <1>14, PlansAssumption DEF CreateFree, Return
<1>15. CASE SaveGrant(h)
  <2>1. frame[h].plan \in Plans /\ "admin.save" \notin PostingSteps
    BY <1>0 DEF Frame, PostingSteps
  <2> QED
    BY <1>4, <1>5, <1>15, <2>1 DEF SaveGrant, Goto
<1> QED
  BY <1>7, <1>8, <1>9, <1>10, <1>11, <1>12, <1>13, <1>14, <1>15

\* A payment is saved; the request holds the row as it is.
LEMMA MoneyPaymentSaved ==
    ASSUME IInv, SerialInv, MoneyInv, NEW h \in Processes, Ready(h),
           NEW f, Become(h, f), Unapplied(h)',
           NEW p \in Payments, NEW row, SavePayment(p, row),
           p \in applied => /\ row.sub = payments[p].sub
                            /\ row.plan = payments[p].plan
                            /\ row.status \in {"PAID", "FAILED"},
           UNCHANGED <<now, subs, revenue, applied>>
    PROVE  MoneyInv'
<1>1. \A q \in Payments : payments'[q] = IF q = p THEN row ELSE payments[q]
  BY DEF SavePayment, IInv, TypeOK
<1>2. \A q \in applied : q \in Payments /\ payments[q].status \in {"PAID", "FAILED"}
  BY DEF MoneyInv, AppliedIsClosed, IInv, TypeOK
<1>3. \A q \in applied : /\ payments'[q].sub = payments[q].sub
                         /\ payments'[q].plan = payments[q].plan
                         /\ payments'[q].status \in {"PAID", "FAILED"}
  BY <1>1, <1>2
<1>4. \A g \in Processes : Unapplied(g)'
  BY UnappliedMoved
<1>5. now \in Nat
  BY DEF IInv, TypeOK
<1> QED
  BY <1>3, <1>4, <1>5, MoneyKept

\* The checkout, the failure of a payment and a confirmation up to the ledger.
LEMMA PaymentsMoney ==
    ASSUME IInv, SerialInv, MoneyInv, NEW h \in Processes,
           \/ CreatePendingPayment(h) \/ SaveProcessing(h) \/ SaveConfirmed(h)
           \/ SaveFailed(h)
    PROVE  MoneyInv'
<1>0. /\ frame[h] \in Frame /\ FrameInv(frame[h]) /\ Current(h)
      /\ payments \in [Payments -> Payment] /\ now \in Nat
      /\ \A p \in applied : payments[p].status \in {"PAID", "FAILED"}
  BY FrameFacts DEF SerialInv, MoneyInv, AppliedIsClosed
<1>1. /\ UNCHANGED <<now, subs, revenue, applied>>
      /\ Ready(h)
  BY DEF CreatePendingPayment, SaveProcessing, SaveConfirmed, SaveFailed,
     Ready, At, world, ledger, history
<1>3. CASE CreatePendingPayment(h)
  <2>1. PICK p \in Payments :
          /\ payments[p].status = "NONE"
          /\ SavePayment(p, CreatePayment(frame[h].plan, frame[h].s))
          /\ Become(h, [frame[h] EXCEPT !.at = "checkout.gateway", !.p = p,
                             !.payment = CreatePayment(frame[h].plan, frame[h].s)])
    BY <1>3 DEF CreatePendingPayment
  <2> DEFINE g == [frame[h] EXCEPT !.at = "checkout.gateway", !.p = p,
                             !.payment = CreatePayment(frame[h].plan, frame[h].s)]
  <2>2. frame'[h] = g
    BY <2>1, Moved
  <2>3. frame'[h].at = "checkout.gateway"
    BY <1>0, <2>2 DEF Frame
  <2> HIDE DEF g
  <2>4. Unapplied(h)'
    BY <2>3, UnappliedElsewhere DEF PostingSteps
  <2>5. p \notin applied
    BY <1>0, <2>1
  <2> QED
    BY <1>1, <2>1, <2>4, <2>5, MoneyPaymentSaved
<1>4. CASE SaveProcessing(h)
  <2> DEFINE row == MarkProcessing(frame[h].payment)
  <2>1. frame[h].p \in Payments /\ frame[h].payment = payments[frame[h].p]
    BY <1>0, <1>4 DEF SaveProcessing, At, FrameInv, HoldsPayment, PayingSteps,
       Current, PaymentIsCurrent
  <2>2. frame[h].p \in applied => /\ row.sub = payments[frame[h].p].sub
                                  /\ row.plan = payments[frame[h].p].plan
                                  /\ row.status \in {"PAID", "FAILED"}
    BY <1>0, <2>1 DEF MarkProcessing, Payment
  <2>3. /\ SavePayment(frame[h].p, row)
        /\ \/ Become(h, [frame[h] EXCEPT !.at = "confirm.save",
                    !.payment = row, !.id = GatewayId, !.t = now])
           \/ Become(h, Idle)
    BY <1>4 DEF SaveProcessing, Return
  <2> HIDE DEF row
  <2>4. Unapplied(h)' /\ \E g : Become(h, g)
    <3>1. CASE Become(h, Idle)
      BY <3>1, Moved, UnappliedElsewhere DEF Idle, PostingSteps
    <3>2. CASE Become(h, [frame[h] EXCEPT !.at = "confirm.save",
                    !.payment = row, !.id = GatewayId, !.t = now])
      <4>1. frame'[h] = [frame[h] EXCEPT !.at = "confirm.save",
                    !.payment = row, !.id = GatewayId, !.t = now]
        BY <3>2, Moved
      <4>2. frame'[h].at = "confirm.save"
        BY <1>0, <4>1 DEF Frame
      <4> QED
        BY <3>2, <4>2, UnappliedElsewhere DEF PostingSteps
    <3> QED
      BY <2>3, <3>1, <3>2
  <2> QED
    BY <1>1, <2>1, <2>2, <2>3, <2>4, MoneyPaymentSaved
<1>5. CASE SaveConfirmed(h)
  <2>1. frame[h].p \in Payments /\ frame[h].payment = payments[frame[h].p]
    BY <1>0, <1>5 DEF SaveConfirmed, At, FrameInv, HoldsPayment, PayingSteps,
       Current, PaymentIsCurrent
  <2>2. CASE CanConfirm(frame[h].payment, frame[h].id)
    <3> DEFINE row == ConfirmFromGateway(frame[h].payment, frame[h].id)
               g == [frame[h] EXCEPT !.at = "confirm.revenue", !.payment = row,
                                     !.alreadyPaid = frame[h].payment.status = "PAID"]
    <3>1. SavePayment(frame[h].p, row) /\ Become(h, g)
      BY <1>5, <2>2 DEF SaveConfirmed
    <3>2. /\ row.sub = payments[frame[h].p].sub
          /\ row.plan = payments[frame[h].p].plan
          /\ row.status = "PAID"
      BY <1>0, <2>1 DEF ConfirmFromGateway, Payment
    <3>3. frame'[h] = g
      BY <3>1, Moved
    <3>4. /\ frame'[h].at = "confirm.revenue" /\ frame'[h].p = frame[h].p
          /\ frame'[h].payment = row
          /\ frame'[h].alreadyPaid = (frame[h].payment.status = "PAID")
      BY <1>0, <3>3 DEF Frame
    <3>5. frame[h].p \in applied => frame[h].payment.status = "PAID"
      BY <1>0, <2>1, <2>2 DEF CanConfirm
    <3> HIDE DEF row, g
    <3>6. Unapplied(h)'
      BY <1>1, <3>2, <3>4, <3>5 DEF Unapplied
    <3> QED
      BY <1>1, <2>1, <3>1, <3>2, <3>6, MoneyPaymentSaved
  <2>3. CASE ~CanConfirm(frame[h].payment, frame[h].id)
    BY <1>1, <1>5, <2>3, MoneyAnswer DEF SaveConfirmed
  <2> QED
    BY <2>2, <2>3
<1>6. CASE SaveFailed(h)
  <2> DEFINE row == FailPayment(frame[h].payment)
  <2>1. frame[h].p \in Payments /\ frame[h].payment = payments[frame[h].p]
    BY <1>0, <1>6 DEF SaveFailed, At, FrameInv, HoldsPayment,
       Current, PaymentIsCurrent
  <2>2. /\ row.sub = payments[frame[h].p].sub
        /\ row.plan = payments[frame[h].p].plan
        /\ row.status = "FAILED"
    BY <1>0, <2>1 DEF FailPayment, Payment
  <2>3. SavePayment(frame[h].p, row) /\ Become(h, Idle)
    BY <1>6 DEF SaveFailed, Return
  <2> HIDE DEF row
  <2>4. Unapplied(h)'
    BY <2>3, Moved, UnappliedElsewhere DEF Idle, PostingSteps
  <2> QED
    BY <1>1, <2>1, <2>2, <2>3, <2>4, MoneyPaymentSaved
<1> QED
  BY <1>3, <1>4, <1>5, <1>6
\* The step that adds the period of payment p to subscription s, from time t on.
Extends(h, p, s, t) ==
    /\ p \in Payments /\ p \notin applied /\ applied' = applied \cup {p}
    /\ p \in revenue /\ payments[p].status = "PAID" /\ payments[p].sub = s
    /\ Period[payments[p].plan] \in Nat \ {0}
    /\ s \in Stored /\ Stored' = Stored
    /\ \A x \in Subs : x # s => subs'[x] = subs[x]
    /\ subs'[s].status = "ACTIVE" /\ subs'[s].origin = subs[s].origin
    /\ t \in Nat /\ t <= now
    /\ subs'[s].end = (IF IsValidNow(subs[s], t) /\ subs[s].end # NoDate
                       THEN subs[s].end ELSE t) + Period[payments[p].plan]
    /\ Become(h, [Idle EXCEPT !.at = "confirm.others", !.p = p, !.s = s])
    /\ UNCHANGED <<now, payments, revenue>>

\* The save that adds a period to the subscription.
LEMMA PeriodAdded ==
    ASSUME IInv, SerialInv, MoneyInv, NEW h \in Processes, SaveSubscription(h),
           ~(Return(h) /\ UNCHANGED <<subs, applied>>),
           NEW p, p = frame[h].p, NEW s, s = frame[h].s, NEW t, t = frame[h].t
    PROVE  Extends(h, p, s, t)
<1>0. /\ frame[h] \in Frame /\ FrameInv(frame[h]) /\ Current(h) /\ Unapplied(h)
      /\ payments \in [Payments -> Payment] /\ now \in Nat
      /\ frame[h].at = "confirm.apply"
  BY FrameFacts DEF SerialInv, MoneyInv, SaveSubscription, At
<1>1. /\ p \in Payments /\ p \notin applied /\ payments[p].status = "PAID"
      /\ frame[h].payment = payments[p] /\ payments[p].sub = s
      /\ p \in revenue /\ frame[h].plan = payments[p].plan
  BY <1>0 DEF Current, PaymentIsCurrent, PlanIsCurrent, FrameInv, HoldsPayment,
     HoldsSubscription, HoldsRecorded, PayingSteps, PricedSteps, Unapplied
<1>2. Period[payments[p].plan] \in Nat \ {0}
  BY <1>0, <1>1, PeriodAssumption DEF Payment
<1>3. s \in Stored /\ SameButPlan(frame[h].sub, subs[s])
  BY <1>0 DEF Current, SubIsCurrent, CopySteps
<1> DEFINE row == ApplyPayment(frame[h].sub, frame[h].plan, frame[h].t)
<1>4. /\ SaveSub(s, row) /\ applied' = applied \cup {p}
      /\ Become(h, [Idle EXCEPT !.at = "confirm.others", !.p = p, !.s = s])
      /\ UNCHANGED <<now, payments, revenue>>
  BY DEF SaveSubscription, world, ledger
<1>5. /\ row.status = "ACTIVE" /\ row.origin = subs[s].origin
      /\ row.end = (IF IsValidNow(subs[s], frame[h].t) /\ subs[s].end # NoDate
                    THEN subs[s].end ELSE frame[h].t) + Period[payments[p].plan]
  BY <1>0, <1>1, <1>3 DEF ApplyPayment, ChangePlan, PeriodStart, IsValidNow, SameButPlan,
     Frame, Subscription
<1> HIDE DEF row
<1>6. /\ Stored' = Stored
      /\ \A x \in Subs : subs'[x] = IF x = s THEN row ELSE subs[x]
  BY <1>3, <1>4, <1>5, StoredSaved DEF SerialInv
<1>7. frame[h].t \in Nat /\ frame[h].t <= now /\ s \in Subs
  BY <1>0, <1>3 DEF Frame, Current, Stored
<1> QED
  BY <1>1, <1>2, <1>3, <1>4, <1>5, <1>6, <1>7 DEF Extends

\* The save of the paid subscription: the payment was not applied before, and the
\* end moves by its period.
LEMMA ApplyMoney ==
    ASSUME IInv, SerialInv, MoneyInv, NEW h \in Processes,
           PostRevenue(h) \/ PostReceipt(h) \/ SaveSubscription(h)
    PROVE  MoneyInv'
<1>0. /\ frame[h] \in Frame /\ Unapplied(h) /\ Ready(h) /\ now \in Nat
      /\ \A p \in applied : payments[p].status \in {"PAID", "FAILED"} /\ p \in revenue
  BY FrameFacts DEF MoneyInv, AppliedIsClosed, PostRevenue, PostReceipt,
     SaveSubscription, Ready, At
<1>1. CASE PostRevenue(h)
  <2> DEFINE g == [frame[h] EXCEPT !.at = "confirm.receipt",
                                   !.duplicated = frame[h].p \in revenue]
  <2>1. /\ Become(h, g) /\ revenue \subseteq revenue' /\ frame[h].at = "confirm.revenue"
        /\ UNCHANGED <<now, subs, payments, applied>>
    BY <1>1 DEF PostRevenue, At, world, history
  <2>2. frame'[h] = g
    BY <2>1, Moved
  <2>3. /\ frame'[h].at = "confirm.receipt" /\ frame'[h].p = frame[h].p
        /\ frame'[h].payment = frame[h].payment
        /\ frame'[h].alreadyPaid = frame[h].alreadyPaid
        /\ frame'[h].duplicated = (frame[h].p \in revenue)
    BY <1>0, <2>2 DEF Frame
  <2> HIDE DEF g
  <2>4. Unapplied(h)'
    BY <1>0, <2>1, <2>3 DEF Unapplied
  <2>5. \A x \in Processes : Unapplied(x)'
    BY <1>0, <2>1, <2>4, UnappliedMoved
  <2> QED
    BY <1>0, <2>1, <2>5, MoneyKept
<1>2. CASE PostReceipt(h)
  <2>1. UNCHANGED <<now, subs, payments, revenue, applied>>
        /\ frame[h].at = "confirm.receipt"
    BY <1>2 DEF PostReceipt, At, world
  <2>2. CASE Return(h)
    BY <1>0, <2>1, <2>2, MoneyAnswer
  <2>3. CASE ~Return(h)
    <3> DEFINE g == [frame[h] EXCEPT !.at = "confirm.apply"]
    <3>1. Become(h, g) /\ ~(frame[h].alreadyPaid /\ frame[h].duplicated)
      BY <1>2, <2>3 DEF PostReceipt, Goto
    <3>2. frame'[h] = g
      BY <3>1, Moved
    <3>3. /\ frame'[h].at = "confirm.apply" /\ frame'[h].p = frame[h].p
          /\ frame'[h].payment = frame[h].payment
      BY <1>0, <3>2 DEF Frame
    <3> HIDE DEF g
    <3>4. Unapplied(h)'
      BY <1>0, <2>1, <3>1, <3>3 DEF Unapplied
    <3> QED
      BY <1>0, <2>1, <3>1, <3>4, MoneyQuiet
  <2> QED
    BY <2>2, <2>3
<1>3. CASE SaveSubscription(h)
  <2>1. CASE Return(h) /\ UNCHANGED <<subs, applied>>
    BY <1>0, <1>3, <2>1, MoneyAnswer DEF SaveSubscription, world, ledger
  <2>2. CASE ~(Return(h) /\ UNCHANGED <<subs, applied>>)
    <3> PICK p, s, t : p = frame[h].p /\ s = frame[h].s /\ t = frame[h].t
      OBVIOUS
    <3>0. Extends(h, p, s, t)
      BY <1>3, <2>2, PeriodAdded
    <3>1. /\ p \in Payments /\ p \notin applied /\ applied' = applied \cup {p}
          /\ p \in revenue /\ payments[p].status = "PAID" /\ payments[p].sub = s
          /\ Period[payments[p].plan] \in Nat \ {0}
          /\ s \in Stored /\ Stored' = Stored
          /\ \A x \in Subs : x # s => subs'[x] = subs[x]
          /\ subs'[s].status = "ACTIVE" /\ subs'[s].origin = subs[s].origin
          /\ t \in Nat /\ t <= now
          /\ \E start \in {subs[s].end, t} : subs'[s].end = start + Period[payments[p].plan]
          /\ Become(h, [Idle EXCEPT !.at = "confirm.others", !.p = p, !.s = s])
          /\ UNCHANGED <<now, payments, revenue>>
      BY <3>0 DEF Extends
    <3>2. \A x : /\ AppliedTime(x) \in Nat
                 /\ AppliedTime(x)' = IF x = s THEN AppliedTime(x) + Period[payments[p].plan]
                                              ELSE AppliedTime(x)
      BY <3>1, AppliedTimeMore, AppliedSums
    <3>3. \A x \in Stored : /\ x \in Subs /\ subs[x].end \in Nat
                            /\ GivenTime(x) \in Nat /\ GivenTime(x)' = GivenTime(x)
      BY <3>1, GiftsAreNat DEF GivenTime, Stored, IInv, TypeOK, Subscription
    <3>4. ASSUME NEW x \in Stored
          PROVE  /\ subs'[x].end <= now' + AppliedTime(x)' + GivenTime(x)'
                 /\ subs'[x].status = "ACTIVE" => subs'[x].end # NoDate
      <4>1. /\ subs[x].end <= now + AppliedTime(x) + GivenTime(x)
            /\ subs[x].status = "ACTIVE" => subs[x].end # NoDate
        BY DEF MoneyInv, ServiceIsBacked
      <4>2. CASE x # s
        BY <3>1, <3>2, <3>3, <4>1, <4>2
      <4>3. CASE x = s
        <5>1. ASSUME NEW period \in Nat \ {0}, NEW a \in Nat, NEW b \in Nat,
                     NEW u \in Nat, u <= now, NEW end \in Nat, end <= now + a + b,
                     NEW start \in {end, u}
              PROVE  start + period <= now + (a + period) + b /\ start + period # 0
          BY <1>0, <5>1
        <5>2. PICK start \in {subs[x].end, t} :
                 subs'[x].end = start + Period[payments[p].plan]
          BY <3>1, <4>3
        <5>3. /\ start + Period[payments[p].plan]
                   <= now + (AppliedTime(x) + Period[payments[p].plan]) + GivenTime(x)
              /\ start + Period[payments[p].plan] # 0
          BY <3>1, <3>2, <3>3, <4>1, <5>1
        <5>4. /\ AppliedTime(x)' = AppliedTime(x) + Period[payments[p].plan]
              /\ GivenTime(x)' = GivenTime(x) /\ now' = now
          BY <3>1, <3>2, <3>3, <4>3
        <5> QED
          BY <5>2, <5>3, <5>4 DEF NoDate
      <4> QED
        BY <4>2, <4>3
    <3>5. ServiceIsBacked'
      BY <3>1, <3>4 DEF ServiceIsBacked
    <3>6. AppliedIsClosed'
      BY <1>0, <3>1 DEF MoneyInv, AppliedIsClosed
    <3>7. frame'[h] = [Idle EXCEPT !.at = "confirm.others", !.p = p, !.s = s]
      BY <3>1, Moved
    <3>8. frame'[h].at \notin PostingSteps
      BY <3>7 DEF Idle, PostingSteps
    <3>9. \A g \in Processes : Unapplied(g)'
      BY <1>0, <3>1, <3>8, UnappliedMoved, UnappliedElsewhere
    <3> QED
      BY <3>5, <3>6, <3>9 DEF MoneyInv
  <2> QED
    BY <2>1, <2>2
<1> QED
  BY <1>1, <1>2, <1>3

\* Time only takes service away.
LEMMA SurroundingsMoney ==
    ASSUME IInv, SerialInv, MoneyInv,
           \/ Tick
           \/ \E plan \in SwitchedPlans, isActive \in BOOLEAN : SetPlanActive(plan, isActive)
           \/ \E h \in Processes : Abort(h)
           \/ UNCHANGED vars
    PROVE  MoneyInv'
<1>1. CASE \/ Tick
           \/ \E plan \in SwitchedPlans, isActive \in BOOLEAN : SetPlanActive(plan, isActive)
           \/ UNCHANGED vars
  <2>1. UNCHANGED <<subs, payments, frame, revenue, applied>> /\ now <= now' /\ now' \in Nat
    BY <1>1 DEF Tick, SetPlanActive, vars, ledger, history, IInv, TypeOK
  <2>2. \A h \in Processes : Unapplied(h)'
    BY <2>1 DEF MoneyInv, Unapplied
  <2>3. \A p \in applied : payments[p].status \in {"PAID", "FAILED"}
    BY DEF MoneyInv, AppliedIsClosed
  <2> QED
    BY <2>1, <2>2, <2>3, MoneyKept
<1>2. ASSUME NEW h \in Processes, Abort(h)
      PROVE  MoneyInv'
  BY <1>2, MoneyAnswer DEF Abort, Ready, ledger, history
<1> QED
  BY <1>1, <1>2

\* No service, no money.
LEMMA InitMoney == Init => MoneyInv
<1> SUFFICES ASSUME Init PROVE MoneyInv
  OBVIOUS
<1>1. Stored = {} /\ applied = {} /\ \A h \in Processes : frame[h].at = "idle"
  BY DEF Init, Stored, NoSub, Idle
<1> QED
  BY <1>1 DEF MoneyInv, AppliedIsClosed, ServiceIsBacked, Unapplied

\* Every step keeps MoneyInv.
LEMMA NextMoney ==
    ASSUME IInv, SerialInv, MoneyInv, Serial, [Next]_vars
    PROVE  MoneyInv'
<1>1. ASSUME NEW h \in Processes,
             PaymentRequest(h) \/ PaymentStep(h)
      PROVE  MoneyInv'
  BY <1>1, ReadsMoney, SavesMoney, PaymentsMoney, ApplyMoney
     DEF PaymentStep, CheckoutStep, ConfirmStep
<1>2. ASSUME NEW h \in Processes,
             BeginJob(h) \/ SubscriptionRequest(h) \/ SubscriptionStep(h)
      PROVE  MoneyInv'
  BY <1>2, ReadsMoney, SavesMoney
     DEF SubscriptionStep, JobStep, DashboardStep, FreePlanStep, AdminStep, ReviewStep
<1> QED
  BY <1>1, <1>2, SurroundingsMoney DEF Next, Request, Step, Processes

(***************************************************************************)
(* With one request at a time, failures included, no payment is applied    *)
(* twice and no subscription outlasts what was applied and given.          *)
(***************************************************************************)
THEOREM MoneyInvariance ==
    ASSUME Serial
    PROVE  Spec => [](IInv /\ SerialInv /\ MoneyInv)
<1>1. Init => MoneyInv
  BY InitMoney
<1>2. IInv /\ SerialInv /\ MoneyInv /\ [Next]_vars => MoneyInv'
  BY NextMoney
<1> QED
  BY <1>1, <1>2, Invariance, SerialInvariance, PTL DEF Spec

(***************************************************************************)
(* ServiceNeverExceedsPayments: with one request at a time, failures       *)
(* included, a running subscription has no more time left than its         *)
(* recorded payments and its gift add up to (confirm() applies a payment   *)
(* the ledger knows only once).                                            *)
(***************************************************************************)
THEOREM ServiceIsPaidFor ==
    ASSUME Serial
    PROVE  Spec => []ServiceNeverExceedsPayments
<1>1. ASSUME IInv, MoneyInv PROVE ServiceNeverExceedsPayments
  <2> SUFFICES ASSUME NEW s \in ActiveSubs
               PROVE  subs[s].end - now <= PaidTime(s) + GivenTime(s)
    BY DEF ServiceNeverExceedsPayments
  <2>1. s \in Stored /\ subs[s].end \in Nat /\ now \in Nat /\ GivenTime(s) \in Nat
    BY <1>1, GiftsAreNat DEF ActiveSubs, Stored, IInv, TypeOK, Subscription
  <2>2. subs[s].end <= now + AppliedTime(s) + GivenTime(s)
    BY <1>1, <2>1 DEF MoneyInv, ServiceIsBacked
  <2>3. AppliedTime(s) \in Nat /\ PaidTime(s) \in Nat /\ AppliedTime(s) <= PaidTime(s)
    <3>1. /\ AppliedFor(s) \subseteq RecordedFor(s)
          /\ RecordedFor(s) \subseteq Payments
      BY <1>1 DEF AppliedFor, RecordedFor, MoneyInv, AppliedIsClosed, IInv, TypeOK
    <3>2. IsFiniteSet(Payments)
      BY FS_Interval, BoundsAssumption DEF Payments
    <3>3. IsFiniteSet(RecordedFor(s))
      BY <3>1, <3>2, FS_Subset
    <3>4. \A p \in RecordedFor(s) : Period[payments[p].plan] \in Nat
      BY <1>1, <3>1, PeriodAssumption DEF IInv, TypeOK, Payment
    <3>5. ASSUME NEW S, S = AppliedFor(s), NEW T, T = RecordedFor(s),
                 NEW f, f = [p \in AppliedFor(s) |-> Period[payments[p].plan]],
                 NEW g, g = [p \in RecordedFor(s) |-> Period[payments[p].plan]]
          PROVE  /\ SumFunction(f) \in Nat /\ SumFunction(g) \in Nat
                 /\ SumFunction(f) <= SumFunction(g)
      <4>1. /\ IsFiniteSet(T) /\ S \in SUBSET T
            /\ f \in [S -> Nat] /\ g \in [T -> Nat] /\ \A x \in S : g[x] = f[x]
        BY <3>1, <3>3, <3>4, <3>5
      <4>2. SumFunction(f) <= SumFunction(g)
        BY <4>1, SumOfMore
      <4>3. SumFunctionOnSet(f, S) \in Nat /\ SumFunctionOnSet(g, T) \in Nat
        BY <4>1, SumIsNat, FS_Subset
      <4> QED
        BY <4>1, <4>2, <4>3 DEF SumFunction
    <3> QED
      BY <3>5 DEF AppliedTime, PaidTime
  <2>4. ASSUME NEW a \in Nat, NEW b \in Nat, NEW p \in Nat, a <= p,
               subs[s].end <= now + a + b
        PROVE  subs[s].end - now <= p + b
    BY <2>1, <2>4
  <2> QED
    BY <2>1, <2>2, <2>3, <2>4
<1>2. IInv /\ SerialInv /\ MoneyInv => ServiceNeverExceedsPayments
  BY <1>1
<1> QED
  BY <1>2, MoneyInvariance, PTL

\* Payments are applied by SaveSubscription.
LEMMA OnlySaveSubscriptionApplies ==
    ASSUME [Next]_vars, applied' # applied
    PROVE  \E h \in Processes :
              SaveSubscription(h) /\ ~(Return(h) /\ UNCHANGED <<subs, applied>>)
<1>1. ASSUME NEW h \in Processes, PaymentRequest(h) \/ PaymentStep(h)
      PROVE  SaveSubscription(h)
  <2>1. ~(PaymentRequest(h) \/ CheckoutStep(h) \/ SaveFailed(h))
    BY DEF PaymentRequest, BeginCheckout, BeginConfirm, BeginFail, CheckoutStep,
       ResolveSubscription, CreatePendingSubscription, CreatePendingPayment,
       GatewayAnswers, SaveProcessing, SaveFailed, history
  <2>2. ConfirmStep(h)
    BY <1>1, <2>1 DEF PaymentStep
  <2> QED
    BY <2>2 DEF ConfirmStep, FindSubscription, FindPlan, SaveConfirmed, PostRevenue,
       PostReceipt, FindOthers, ExpireOther, FindSchool, SaveActivatedSchool,
       RecordEvent, history
<1>2. ASSUME NEW h \in Processes
      PROVE  ~(BeginJob(h) \/ SubscriptionRequest(h) \/ SubscriptionStep(h))
  <2>1. ~(BeginJob(h) \/ SubscriptionRequest(h) \/ SaveCancelled(h))
    BY DEF SubscriptionRequest, BeginJob, BeginCancel, BeginDashboard, BeginFreePlan,
       BeginChangeStatus, BeginSubmit, BeginReview, SaveCancelled, history
  <2>2. ~JobStep(h) /\ ~DashboardStep(h)
    BY DEF JobStep, SaveDue, CheckStillValid, FindSchoolOfDue, ExpireSchoolOfDue,
       DashboardStep, SaveLatestExpired, FindSchoolOfLatest, ExpireSchoolOfLatest, history
  <2>3. ~FreePlanStep(h) /\ ~AdminStep(h)
    BY DEF FreePlanStep, FindFreePlan, FindFree, SaveFreeExpired,
       ExpireSchoolOfFree, FindValidBeforeFree, CreateFree,
       AdminStep, ListActive, CloseActive, SaveGrant, SaveAdminStatus, history
  <2>4. ~ReviewStep(h)
    BY DEF ReviewStep, CheckSubscription, SaveSubmitted, SaveReview, history
  <2> QED
    BY <2>1, <2>2, <2>3, <2>4 DEF SubscriptionStep
<1>3. ~Tick /\ ~(UNCHANGED vars) /\ \A h \in Processes : ~Abort(h)
  BY DEF Tick, Abort, vars, history
<1>4. \A plan \in SwitchedPlans, isActive \in BOOLEAN : ~SetPlanActive(plan, isActive)
  BY DEF SetPlanActive, history
<1>5. \E h \in Processes :
         \/ PaymentRequest(h) \/ PaymentStep(h)
         \/ BeginJob(h) \/ SubscriptionRequest(h) \/ SubscriptionStep(h)
  BY <1>3, <1>4 DEF Next, Request, Step, Processes
<1>6. PICK h \in Processes : SaveSubscription(h)
  BY <1>1, <1>2, <1>5
<1> QED
  BY <1>6

(***************************************************************************)
(* NoPaidDayLost: with one request at a time, failures included, a         *)
(* payment for a subscription that still runs extends it by the whole      *)
(* period, from its end.                                                   *)
(***************************************************************************)
THEOREM PaidDaysAreKept ==
    ASSUME Serial
    PROVE  Spec => NoPaidDayLost
<1> DEFINE A == \A p \in applied' \ applied :
                   LET s == payments[p].sub IN
                   IsValidNow(subs[s], now) =>
                       subs'[s].end = subs[s].end + Period[payments[p].plan]
<1>1. IInv /\ SerialInv /\ MoneyInv /\ [Next]_vars => A
  <2> SUFFICES ASSUME IInv, SerialInv, MoneyInv, [Next]_vars,
                      NEW p \in applied' \ applied,
                      NEW s, s = payments[p].sub, IsValidNow(subs[s], now)
               PROVE  subs'[s].end = subs[s].end + Period[payments[p].plan]
    OBVIOUS
  <2>1. PICK h \in Processes :
           SaveSubscription(h) /\ ~(Return(h) /\ UNCHANGED <<subs, applied>>)
    BY OnlySaveSubscriptionApplies
  <2>2. PICK q, u, t : q = frame[h].p /\ u = frame[h].s /\ t = frame[h].t
    OBVIOUS
  <2>3. Extends(h, q, u, t)
    BY <2>1, <2>2, PeriodAdded
  <2>4. q = p /\ u = s
    BY <2>3 DEF Extends
  <2>5. /\ s \in Stored /\ t \in Nat /\ t <= now
        /\ subs'[s].end = (IF IsValidNow(subs[s], t) /\ subs[s].end # NoDate
                           THEN subs[s].end ELSE t) + Period[payments[p].plan]
    BY <2>3, <2>4 DEF Extends
  <2>6. subs[s].status = "ACTIVE" /\ subs[s].end # NoDate /\ subs[s].end > now
    BY <2>5 DEF IsValidNow, MoneyInv, ServiceIsBacked
  <2>7. subs[s].end \in Nat /\ now \in Nat
    BY <2>5 DEF IInv, TypeOK, Stored, Subscription
  <2>8. IsValidNow(subs[s], t)
    BY <2>5, <2>6, <2>7 DEF IsValidNow
  <2> QED
    BY <2>5, <2>6, <2>8
<1>2. IInv /\ SerialInv /\ MoneyInv /\ [Next]_vars => [A]_vars
  BY <1>1
<1>3. Spec => [][A]_vars
  BY <1>2, MoneyInvariance, PTL DEF Spec
<1> QED
  BY <1>3 DEF NoPaidDayLost
-----------------------------------------------------------------------------
(* Where a step leads.                                                     *)

\* The step is h's and leads to one of these.
Leads(h, steps) == (\E f : Become(h, f)) /\ frame'[h].at \in steps

\* A frame's step.
LEMMA LeadsTo ==
    ASSUME IInv, NEW h \in Processes, NEW f, Become(h, f), NEW steps, f.at \in steps
    PROVE  Leads(h, steps)
BY Moved DEF Leads

\* A frame that goes on.
LEMMA GotoLeads ==
    ASSUME IInv, NEW h \in Processes, NEW step, Goto(h, step), NEW steps, step \in steps
    PROVE  Leads(h, steps)
<1>1. [frame[h] EXCEPT !.at = step].at = step
  BY FrameFacts DEF Frame
<1> QED
  BY <1>1, LeadsTo DEF Goto

\* An answer leads to idle.
LEMMA ReturnLeads ==
    ASSUME IInv, NEW h \in Processes, Return(h), NEW steps, "idle" \in steps
    PROVE  Leads(h, steps)
BY LeadsTo DEF Return, Idle

\* Where requests begin.
LEMMA RequestLeads ==
    ASSUME IInv, NEW h \in Processes,
           PaymentRequest(h) \/ SubscriptionRequest(h) \/ BeginJob(h)
    PROVE  /\ At(h, "idle")
           /\ Leads(h, {"checkout.resolve", "confirm.subscription", "fail.save",
                        "cancel.save", "dashboard.save", "free.plan", "admin.list",
                        "admin.save", "submit.plan", "review.save", "job.save"})
<1> DEFINE T == {"checkout.resolve", "confirm.subscription", "fail.save",
                 "cancel.save", "dashboard.save", "free.plan", "admin.list",
                 "admin.save", "submit.plan", "review.save", "job.save"}
<1>0. At(h, "idle")
  BY DEF PaymentRequest, BeginCheckout, BeginConfirm, BeginFail, SubscriptionRequest,
     BeginCancel, BeginDashboard, BeginFreePlan, BeginChangeStatus, BeginSubmit,
     BeginReview, BeginJob, Begin
<1>a. ASSUME NEW f, Become(h, f), f.at \in T PROVE Leads(h, T)
  BY <1>a, LeadsTo
<1>1. CASE BeginCheckout(h)
  BY <1>0, <1>a, <1>1 DEF BeginCheckout, Idle
<1>2. CASE BeginConfirm(h)
  BY <1>0, <1>a, <1>2 DEF BeginConfirm, Idle
<1>3. CASE BeginFail(h)
  BY <1>0, <1>a, <1>3 DEF BeginFail, Idle
<1>4. CASE BeginCancel(h)
  BY <1>0, <1>a, <1>4 DEF BeginCancel, Idle
<1>5. CASE BeginDashboard(h)
  BY <1>0, <1>a, <1>5 DEF BeginDashboard, Idle
<1>6. CASE BeginFreePlan(h)
  BY <1>0, <1>a, <1>6 DEF BeginFreePlan, Idle
<1>7. CASE BeginChangeStatus(h)
  BY <1>0, <1>a, <1>7 DEF BeginChangeStatus, Idle
<1>8. CASE BeginJob(h)
  BY <1>0, <1>a, <1>8 DEF BeginJob, Idle
<1>9. CASE BeginSubmit(h)
  BY <1>0, <1>a, <1>9 DEF BeginSubmit, Idle
<1>10. CASE BeginReview(h)
  BY <1>0, <1>a, <1>10 DEF BeginReview, Idle
<1> QED
  BY <1>0, <1>1, <1>2, <1>3, <1>4, <1>5, <1>6, <1>7, <1>8, <1>9, <1>10
     DEF PaymentRequest, SubscriptionRequest

\* Where the steps of a checkout lead.
LEMMA CheckoutLeads ==
    ASSUME IInv, NEW h \in Processes, CheckoutStep(h)
    PROVE  Leads(h, {"checkout.newSub", "checkout.create", "checkout.gateway",
                     "checkout.save", "confirm.save", "idle"})
<1> DEFINE T == {"checkout.newSub", "checkout.create", "checkout.gateway",
                 "checkout.save", "confirm.save", "idle"}
<1>0. frame[h] \in Frame
  BY FrameFacts
<1>1. ASSUME NEW f, Become(h, f), f.at \in T PROVE Leads(h, T)
  BY <1>1, LeadsTo
<1>2. CASE ResolveSubscription(h)
  BY <1>0, <1>1, <1>2 DEF ResolveSubscription, Goto, Frame
<1>3. CASE CreatePendingSubscription(h) \/ CreatePendingPayment(h)
  BY <1>0, <1>1, <1>3 DEF CreatePendingSubscription, CreatePendingPayment, Frame
<1>4. CASE GatewayAnswers(h)
  BY <1>4, GotoLeads, ReturnLeads DEF GatewayAnswers
<1>5. CASE SaveProcessing(h)
  <2>1. CASE Return(h)
    BY <2>1, ReturnLeads
  <2>2. CASE ~Return(h)
    BY <1>0, <1>1, <1>5, <2>2 DEF SaveProcessing, Frame
  <2> QED
    BY <2>1, <2>2
<1> QED
  BY <1>2, <1>3, <1>4, <1>5 DEF CheckoutStep

\* Where the steps of a confirmation lead, up to the ledger.
LEMMA ConfirmLeads ==
    ASSUME IInv, NEW h \in Processes,
           \/ FindSubscription(h) \/ FindPlan(h) \/ SaveConfirmed(h)
           \/ PostRevenue(h) \/ PostReceipt(h)
    PROVE  Leads(h, {"confirm.plan", "confirm.save", "confirm.revenue",
                     "confirm.receipt", "confirm.apply", "idle"})
<1> DEFINE T == {"confirm.plan", "confirm.save", "confirm.revenue",
                 "confirm.receipt", "confirm.apply", "idle"}
<1>0. frame[h] \in Frame
  BY FrameFacts
<1>1. ASSUME NEW f, Become(h, f), f.at \in T PROVE Leads(h, T)
  BY <1>1, LeadsTo
<1>2. CASE FindSubscription(h) \/ FindPlan(h) \/ PostRevenue(h)
  BY <1>0, <1>1, <1>2 DEF FindSubscription, FindPlan, PostRevenue, Frame
<1>3. CASE SaveConfirmed(h)
  <2>1. CASE Return(h)
    BY <2>1, ReturnLeads
  <2>2. CASE ~Return(h)
    BY <1>0, <1>1, <1>3, <2>2 DEF SaveConfirmed, Frame
  <2> QED
    BY <2>1, <2>2
<1>4. CASE PostReceipt(h)
  BY <1>4, GotoLeads, ReturnLeads DEF PostReceipt
<1> QED
  BY <1>2, <1>3, <1>4

\* Where the steps of the job lead.
LEMMA JobLeads ==
    ASSUME IInv, NEW h \in Processes, JobStep(h)
    PROVE  Leads(h, {"job.save", "job.check", "job.school", "job.saveSchool", "idle"})
<1> DEFINE T == {"job.save", "job.check", "job.school", "job.saveSchool", "idle"}
<1>0. frame[h] \in Frame
  BY FrameFacts
<1>a. ASSUME NEW f, Become(h, f), f.at \in T PROVE Leads(h, T)
  BY <1>a, LeadsTo
<1>1. CASE SaveDue(h)
  BY <1>0, <1>a, <1>1 DEF SaveDue, Frame
<1>2. CASE CheckStillValid(h) \/ FindSchoolOfDue(h) \/ ExpireSchoolOfDue(h)
  BY <1>2, GotoLeads, ReturnLeads
     DEF CheckStillValid, FindSchoolOfDue, ExpireSchoolOfDue, NextDue
<1> QED
  BY <1>1, <1>2 DEF JobStep

\* Where the steps of a dashboard lead.
LEMMA DashboardLeads ==
    ASSUME IInv, NEW h \in Processes, DashboardStep(h)
    PROVE  Leads(h, {"dashboard.school", "dashboard.saveSchool", "idle"})
<1>1. CASE SaveLatestExpired(h)
  <2>1. [Idle EXCEPT !.at = "dashboard.school"].at = "dashboard.school"
    BY DEF Idle
  <2> QED
    BY <1>1, <2>1, LeadsTo DEF SaveLatestExpired
<1>2. CASE FindSchoolOfLatest(h) \/ ExpireSchoolOfLatest(h)
  BY <1>2, GotoLeads, ReturnLeads DEF FindSchoolOfLatest, ExpireSchoolOfLatest
<1> QED
  BY <1>1, <1>2 DEF DashboardStep

\* Where the steps of the FREE plan's activation lead.
LEMMA FreePlanLeads ==
    ASSUME IInv, NEW h \in Processes, FreePlanStep(h)
    PROVE  Leads(h, {"free.find", "free.save", "free.saveSchool", "free.valid",
                     "free.create", "idle"})
<1> DEFINE T == {"free.find", "free.save", "free.saveSchool", "free.valid",
                 "free.create", "idle"}
<1>0. frame[h] \in Frame
  BY FrameFacts
<1>a. ASSUME NEW f, Become(h, f), f.at \in T PROVE Leads(h, T)
  BY <1>a, LeadsTo
<1>1. CASE FindFree(h)
  <2>1. CASE Goto(h, "free.valid") \/ Return(h)
    BY <2>1, GotoLeads, ReturnLeads
  <2>2. CASE ~(Goto(h, "free.valid") \/ Return(h))
    BY <1>0, <1>a, <1>1, <2>2 DEF FindFree, Frame
  <2> QED
    BY <2>1, <2>2
<1>2. CASE FindFreePlan(h) \/ SaveFreeExpired(h) \/ ExpireSchoolOfFree(h)
           \/ FindValidBeforeFree(h) \/ CreateFree(h)
  BY <1>2, GotoLeads, ReturnLeads
     DEF FindFreePlan, SaveFreeExpired, ExpireSchoolOfFree, FindValidBeforeFree, CreateFree
<1> QED
  BY <1>1, <1>2 DEF FreePlanStep

\* Where the steps of the admin's change lead.
LEMMA AdminLeads ==
    ASSUME IInv, NEW h \in Processes, AdminStep(h)
    PROVE  Leads(h, {"admin.close", "admin.grant", "admin.save", "idle"})
<1> DEFINE T == {"admin.close", "admin.grant", "admin.save", "idle"}
<1>0. frame[h] \in Frame
  BY FrameFacts
<1>a. ASSUME NEW f, Become(h, f), f.at \in T PROVE Leads(h, T)
  BY <1>a, LeadsTo
<1>1. CASE ListActive(h) \/ CloseActive(h)
  BY <1>0, <1>a, <1>1 DEF ListActive, CloseActive, AfterClosing, Frame
<1>2. CASE SaveGrant(h) \/ SaveAdminStatus(h)
  BY <1>2, GotoLeads, ReturnLeads DEF SaveGrant, SaveAdminStatus
<1> QED
  BY <1>1, <1>2 DEF AdminStep

\* Where the steps of a review lead.
LEMMA ReviewLeads ==
    ASSUME IInv, NEW h \in Processes, ReviewStep(h)
    PROVE  Leads(h, {"dashboard.save", "submit.save", "idle"})
<1> DEFINE T == {"dashboard.save", "submit.save", "idle"}
<1>a. ASSUME NEW f, Become(h, f), f.at \in T PROVE Leads(h, T)
  BY <1>a, LeadsTo
<1>1. ASSUME NEW latest, Become(h, [Idle EXCEPT !.at = "dashboard.save", !.s = latest,
                                                !.sub = subs[latest]])
      PROVE  Leads(h, T)
  BY <1>a, <1>1 DEF Idle
<1>2. CASE CheckSubscription(h)
  <2>1. CASE Return(h) \/ Goto(h, "submit.save")
    BY <2>1, GotoLeads, ReturnLeads
  <2> QED
    BY <1>1, <1>2, <2>1, SubmissionReads
<1>3. CASE SaveSubmitted(h) \/ SaveReview(h)
  BY <1>3, ReturnLeads DEF SaveSubmitted, SaveReview
<1> QED
  BY <1>2, <1>3 DEF ReviewStep
-----------------------------------------------------------------------------
(* The subscription that was paid is the one that runs.                    *)

\* The steps Activating speaks of.
ActivatingSteps ==
    {"confirm.others", "confirm.expire", "confirm.school", "confirm.saveSchool",
     "confirm.event"}

\* Activating asks nothing of other steps.
LEMMA ActivatingElsewhere ==
    ASSUME NEW h \in Processes, frame'[h].at \notin ActivatingSteps
    PROVE  Activating(h)'
BY DEF Activating, ActivatingSteps

\* Of the frames only h's changes.
LEMMA ActivationMoved ==
    ASSUME IInv, SerialInv, NEW h \in Processes, Ready(h), NEW f, Become(h, f),
           Activating(h)'
    PROVE  ActivationInv'
<1>1. ASSUME NEW g \in Processes, g # h PROVE Activating(g)'
  BY <1>1, OthersIdle, ActivatingElsewhere DEF SerialInv, ActivatingSteps
<1> QED
  BY <1>1 DEF ActivationInv

\* A step that leads elsewhere keeps ActivationInv.
LEMMA ActivationElsewhere ==
    ASSUME IInv, SerialInv, NEW h \in Processes, Ready(h),
           NEW steps, Leads(h, steps), steps \cap ActivatingSteps = {}
    PROVE  ActivationInv'
<1>1. Activating(h)'
  BY ActivatingElsewhere DEF Leads
<1> QED
  BY <1>1, ActivationMoved DEF Leads

\* The ids of rows that were just read.
LEMMA IdsOfRows ==
    ASSUME NEW ids
    PROVE  {item.id : item \in ReadRows(ids)} = ids
<1>1. ASSUME NEW x \in {item.id : item \in ReadRows(ids)} PROVE x \in ids
  <2>1. PICK item \in ReadRows(ids) : x = item.id
    OBVIOUS
  <2>2. PICK s \in ids : item = [id |-> s, row |-> subs[s]]
    BY DEF ReadRows
  <2> QED
    BY <2>1, <2>2
<1>2. ASSUME NEW s \in ids PROVE s \in {item.id : item \in ReadRows(ids)}
  <2>1. [id |-> s, row |-> subs[s]] \in ReadRows(ids)
    BY DEF ReadRows
  <2>2. [id |-> s, row |-> subs[s]].id = s
    OBVIOUS
  <2> QED
    BY <2>1, <2>2
<1> QED
  BY <1>1, <1>2

\* The save of the paid subscription, and what confirm() does after it.
LEMMA ConfirmActivation ==
    ASSUME IInv, SerialInv, ActivationInv, NEW h \in Processes,
           \/ SaveSubscription(h) \/ FindOthers(h) \/ ExpireOther(h) \/ FindSchool(h)
           \/ SaveActivatedSchool(h)
    PROVE  ActivationInv'
<1>0. /\ frame[h] \in Frame /\ Current(h) /\ Activating(h) /\ Ready(h)
      /\ IdsAreDense /\ PaymentsOfStored
  BY FrameFacts DEF SerialInv, ActivationInv, SaveSubscription, FindOthers, ExpireOther,
     FindSchool, SaveActivatedSchool, Ready, At
<1>1. CASE SaveSubscription(h)
  <2>1. CASE Return(h)
    BY <1>0, <2>1, ReturnLeads, ActivationElsewhere DEF ActivatingSteps
  <2>2. CASE ~Return(h)
    <3> DEFINE row == ApplyPayment(frame[h].sub, frame[h].plan, frame[h].t)
               g == [Idle EXCEPT !.at = "confirm.others", !.p = frame[h].p,
                                 !.s = frame[h].s]
    <3>1. SaveSub(frame[h].s, row) /\ Become(h, g) /\ UNCHANGED payments
      BY <1>1, <2>2 DEF SaveSubscription
    <3>2. frame[h].s \in Stored
      BY <1>0, <1>1 DEF SaveSubscription, At, Current, SubIsCurrent, CopySteps
    <3>3. row.status = "ACTIVE"
      BY <1>0 DEF ApplyPayment, ChangePlan, Frame, Subscription
    <3>4. frame'[h] = g
      BY <3>1, Moved
    <3>5. frame'[h].at = "confirm.others" /\ frame'[h].s = frame[h].s
      BY <3>4 DEF Idle
    <3> HIDE DEF row, g
    <3>6. Stored' = Stored /\ subs'[frame[h].s].status = "ACTIVE"
      BY <1>0, <3>1, <3>2, <3>3, StoredSaved DEF Stored
    <3>7. Activating(h)'
      BY <3>2, <3>5, <3>6 DEF Activating, ActiveSubs
    <3> QED
      BY <1>0, <3>1, <3>7, ActivationMoved
  <2> QED
    BY <2>1, <2>2
<1>2. CASE FindOthers(h)
  <2> DEFINE others == ActiveSubs \ {frame[h].s}
             g == [frame[h] EXCEPT
                    !.at = IF others = {} THEN "confirm.school" ELSE "confirm.expire",
                    !.rest = ReadRows(others)]
  <2>1. /\ Become(h, g) /\ frame[h].s \in ActiveSubs /\ ActiveSubs' = ActiveSubs
    BY <1>0, <1>2 DEF FindOthers, At, Activating, ActiveSubs, Stored
  <2>2. frame'[h] = g
    BY <2>1, Moved
  <2>3. /\ frame'[h].at = IF others = {} THEN "confirm.school" ELSE "confirm.expire"
        /\ frame'[h].s = frame[h].s /\ frame'[h].rest = ReadRows(others)
    BY <1>0, <2>2 DEF Frame
  <2>4. {item.id : item \in ReadRows(others)} = others
    BY IdsOfRows
  <2> HIDE DEF g
  <2>5. OthersOf(h)' = ActiveSubs \ {frame[h].s}
    BY <2>3, <2>4 DEF OthersOf
  <2>6. Activating(h)'
    BY <2>1, <2>3, <2>5 DEF Activating
  <2> QED
    BY <1>0, <2>1, <2>6, ActivationMoved
<1>3. CASE ExpireOther(h)
  <2>1. PICK other \in frame[h].rest :
          /\ SaveSub(other.id, Expire(other.row))
          /\ Become(h, [frame[h] EXCEPT !.rest = frame[h].rest \ {other},
                !.at = IF frame[h].rest \ {other} = {}
                       THEN "confirm.school" ELSE "confirm.expire"])
    BY <1>3 DEF ExpireOther
  <2> DEFINE rest == frame[h].rest \ {other}
             g == [frame[h] EXCEPT !.rest = rest,
                !.at = IF rest = {} THEN "confirm.school" ELSE "confirm.expire"]
  <2>2. frame'[h] = g
    BY <2>1, Moved
  <2>3. /\ frame'[h].at = IF rest = {} THEN "confirm.school" ELSE "confirm.expire"
        /\ frame'[h].s = frame[h].s /\ frame'[h].rest = rest
    BY <1>0, <2>2 DEF Frame
  <2>a. \A item \in frame[h].rest :
           item \in Rows /\ item.id \in Stored /\ item.row = subs[item.id]
    BY <1>0, <1>3 DEF ExpireOther, At, Frame, Current, BatchIsCurrent, BatchSteps
  <2>4. /\ other \in Rows /\ other.id \in Stored /\ other.row = subs[other.id]
        /\ \A item \in rest : item.id # other.id
    BY <2>a DEF Rows
  <2>5. Expire(other.row).status = "EXPIRED"
    BY <2>4 DEF Expire, Rows, Subscription
  <2>6. UNCHANGED payments
    BY <1>3 DEF ExpireOther
  <2>7. /\ Stored' = Stored
        /\ \A t \in Subs : subs'[t] = IF t = other.id THEN Expire(other.row) ELSE subs[t]
    BY <1>0, <2>1, <2>4, <2>5, <2>6, StoredSaved
  <2>8. ActiveSubs' = ActiveSubs \ {other.id}
    BY <2>5, <2>7 DEF ActiveSubs, Stored
  <2>9. OthersOf(h) = ActiveSubs \ {frame[h].s} /\ frame[h].s \in ActiveSubs
    BY <1>0, <1>3 DEF ExpireOther, At, Activating
  <2>10. other.id \in OthersOf(h) /\ OthersOf(h)' = OthersOf(h) \ {other.id}
    BY <2>1, <2>3, <2>4 DEF OthersOf
  <2>11. rest = {} => OthersOf(h)' = {}
    BY <2>3 DEF OthersOf
  <2> HIDE DEF rest, g
  <2>12. Activating(h)'
    BY <2>3, <2>8, <2>9, <2>10, <2>11 DEF Activating
  <2> QED
    BY <1>0, <2>1, <2>12, ActivationMoved
<1>4. CASE FindSchool(h)
  <2> DEFINE g == [frame[h] EXCEPT !.school = school,
            !.at = IF school = "ACTIVE" THEN "confirm.event" ELSE "confirm.saveSchool"]
  <2>1. Become(h, g) /\ school' = school /\ ActiveSubs' = ActiveSubs
        /\ ActiveSubs = {frame[h].s}
    BY <1>0, <1>4 DEF FindSchool, At, Activating, ActiveSubs, Stored
  <2>2. frame'[h] = g
    BY <2>1, Moved
  <2>3. /\ frame'[h].at = IF school = "ACTIVE" THEN "confirm.event" ELSE "confirm.saveSchool"
        /\ frame'[h].s = frame[h].s
    BY <1>0, <2>2 DEF Frame
  <2> HIDE DEF g
  <2>4. Activating(h)'
    BY <2>1, <2>3 DEF Activating
  <2> QED
    BY <1>0, <2>1, <2>4, ActivationMoved
<1>5. CASE SaveActivatedSchool(h)
  <2> DEFINE g == [frame[h] EXCEPT !.at = "confirm.event"]
  <2>1. Become(h, g) /\ school' = ActivateAfterPaidSubscription(frame[h].school)
        /\ ActiveSubs' = ActiveSubs /\ ActiveSubs = {frame[h].s}
    BY <1>0, <1>5 DEF SaveActivatedSchool, Goto, At, Activating, ActiveSubs, Stored
  <2>2. frame'[h] = g
    BY <2>1, Moved
  <2>3. frame'[h].at = "confirm.event" /\ frame'[h].s = frame[h].s
    BY <1>0, <2>2 DEF Frame
  <2> HIDE DEF g
  <2>4. school' \notin {"DRAFT", "PENDING_PAYMENT", "EXPIRED"}
    BY <2>1 DEF ActivateAfterPaidSubscription
  <2>5. Activating(h)'
    BY <2>1, <2>3, <2>4 DEF Activating
  <2> QED
    BY <1>0, <2>1, <2>5, ActivationMoved
<1> QED
  BY <1>1, <1>2, <1>3, <1>4, <1>5

\* So does one that changes no frame, subscription or school.
LEMMA ActivationUnmoved ==
    ASSUME ActivationInv, UNCHANGED <<frame, subs, school>>
    PROVE  ActivationInv'
<1>1. ActiveSubs' = ActiveSubs
  BY DEF ActiveSubs, Stored
<1>2. ASSUME NEW h \in Processes PROVE Activating(h)'
  <2>1. Activating(h)
    BY DEF ActivationInv
  <2>2. OthersOf(h)' = OthersOf(h) /\ frame'[h] = frame[h] /\ school' = school
    BY DEF OthersOf
  <2> QED
    BY <1>1, <2>1, <2>2 DEF Activating
<1> QED
  BY <1>2 DEF ActivationInv

\* Every step keeps ActivationInv.
LEMMA NextActivation ==
    ASSUME IInv, SerialInv, ActivationInv, Serial, [Next]_vars
    PROVE  ActivationInv'
<1>1. ASSUME NEW h \in Processes, NEW steps, Leads(h, steps),
             steps \cap ActivatingSteps = {}, Ready(h)
      PROVE  ActivationInv'
  BY <1>1, ActivationElsewhere
<1>2. ASSUME NEW h \in Processes,
             PaymentRequest(h) \/ SubscriptionRequest(h) \/ BeginJob(h)
      PROVE  ActivationInv'
  <2>1. Ready(h)
    BY <1>2 DEF PaymentRequest, BeginCheckout, BeginConfirm, BeginFail,
       SubscriptionRequest, BeginCancel, BeginDashboard, BeginFreePlan,
       BeginChangeStatus, BeginSubmit, BeginReview, BeginJob, Begin, Ready
  <2> QED
    BY <1>1, <1>2, <2>1, RequestLeads DEF ActivatingSteps
<1>3. ASSUME NEW h \in Processes, PaymentStep(h)
      PROVE  ActivationInv'
  <2>1. CASE \/ SaveSubscription(h) \/ FindOthers(h) \/ ExpireOther(h) \/ FindSchool(h)
             \/ SaveActivatedSchool(h)
    BY <2>1, ConfirmActivation
  <2>2. CASE CheckoutStep(h)
    <3>1. Ready(h)
      BY <2>2 DEF CheckoutStep, ResolveSubscription, CreatePendingSubscription,
         CreatePendingPayment, GatewayAnswers, SaveProcessing, Ready, At
    <3> QED
      BY <1>1, <2>2, <3>1, CheckoutLeads DEF ActivatingSteps
  <2>3. CASE \/ FindSubscription(h) \/ FindPlan(h) \/ SaveConfirmed(h)
             \/ PostRevenue(h) \/ PostReceipt(h)
    <3>1. Ready(h)
      BY <2>3 DEF FindSubscription, FindPlan, SaveConfirmed, PostRevenue, PostReceipt,
         Ready, At
    <3> QED
      BY <1>1, <2>3, <3>1, ConfirmLeads DEF ActivatingSteps
  <2>4. CASE RecordEvent(h) \/ SaveFailed(h)
    <3>1. Ready(h) /\ Return(h)
      BY <2>4 DEF RecordEvent, SaveFailed, Ready, At
    <3> QED
      BY <1>1, <3>1, ReturnLeads DEF ActivatingSteps
  <2> QED
    BY <1>3, <2>1, <2>2, <2>3, <2>4 DEF PaymentStep, ConfirmStep
<1>4. ASSUME NEW h \in Processes, SubscriptionStep(h)
      PROVE  ActivationInv'
  <2>1. Ready(h)
    BY <1>4 DEF SubscriptionStep, SaveCancelled, JobStep, SaveDue, CheckStillValid,
       FindSchoolOfDue, ExpireSchoolOfDue, DashboardStep, SaveLatestExpired,
       FindSchoolOfLatest, ExpireSchoolOfLatest, FreePlanStep, FindFreePlan, FindFree,
       SaveFreeExpired, ExpireSchoolOfFree, FindValidBeforeFree, CreateFree,
       AdminStep, ListActive, CloseActive, SaveGrant, SaveAdminStatus,
       ReviewStep, CheckSubscription, SaveSubmitted, SaveReview, Ready, At
  <2>2. CASE SaveCancelled(h)
    BY <1>1, <2>1, <2>2, ReturnLeads DEF SaveCancelled, ActivatingSteps
  <2>3. CASE JobStep(h)
    BY <1>1, <2>1, <2>3, JobLeads DEF ActivatingSteps
  <2>4. CASE DashboardStep(h)
    BY <1>1, <2>1, <2>4, DashboardLeads DEF ActivatingSteps
  <2>5. CASE FreePlanStep(h)
    BY <1>1, <2>1, <2>5, FreePlanLeads DEF ActivatingSteps
  <2>6. CASE AdminStep(h)
    BY <1>1, <2>1, <2>6, AdminLeads DEF ActivatingSteps
  <2>7. CASE ReviewStep(h)
    BY <1>1, <2>1, <2>7, ReviewLeads DEF ActivatingSteps
  <2> QED
    BY <1>4, <2>2, <2>3, <2>4, <2>5, <2>6, <2>7 DEF SubscriptionStep
<1>5. ASSUME NEW h \in Processes, Abort(h)
      PROVE  ActivationInv'
  BY <1>1, <1>5, ReturnLeads DEF Abort, ActivatingSteps, Ready
<1>6. CASE \/ Tick
           \/ \E plan \in SwitchedPlans, isActive \in BOOLEAN : SetPlanActive(plan, isActive)
           \/ UNCHANGED vars
  BY <1>6, ActivationUnmoved DEF Tick, SetPlanActive, vars
<1> QED
  BY <1>2, <1>3, <1>4, <1>5, <1>6 DEF Next, Request, Step, Processes

\* Nobody is activating.
LEMMA InitActivation == Init => ActivationInv
<1> SUFFICES ASSUME Init PROVE ActivationInv
  OBVIOUS
<1>1. \A h \in Processes : frame[h].at = "idle"
  BY DEF Init, Idle
<1> QED
  BY <1>1 DEF ActivationInv, Activating

(***************************************************************************)
(* With one request at a time a confirmation that activates a              *)
(* subscription goes on until it is the only one ACTIVE.                   *)
(***************************************************************************)
THEOREM ActivationInvariance ==
    ASSUME Serial
    PROVE  Spec => []ActivationInv
<1>1. IInv /\ SerialInv /\ ActivationInv /\ [Next]_vars => ActivationInv'
  BY NextActivation
<1> QED
  BY <1>1, InitActivation, Invariance, SerialInvariance, PTL DEF Spec

(***************************************************************************)
(* NotifiedIsActive: with one request at a time, failures included, the    *)
(* owners are told a subscription is active when it is the one that is,    *)
(* and the school is not left waiting for a payment.                       *)
(***************************************************************************)
THEOREM OwnersAreToldTheTruth ==
    ASSUME Serial
    PROVE  Spec => []NotifiedIsActive
<1>1. ActivationInv => NotifiedIsActive
  BY DEF ActivationInv, Activating, NotifiedIsActive, At
<1> QED
  BY <1>1, ActivationInvariance, PTL
-----------------------------------------------------------------------------
(* One valid subscription at a time.                                       *)

\* The steps Replacing speaks of.
ReplacingSteps == {"confirm.others", "confirm.expire"}

\* The steps Unserved speaks of.
UnservedSteps ==
    {"job.school", "job.saveSchool",
     "dashboard.save", "dashboard.school", "dashboard.saveSchool",
     "free.save", "free.saveSchool", "free.valid", "free.create",
     "admin.close", "admin.grant", "admin.save"}

\* Unserved asks nothing of other steps.
LEMMA UnservedElsewhere ==
    ASSUME NEW h \in Processes, frame'[h].at \notin UnservedSteps
    PROVE  Unserved(h)'
BY DEF Unserved, UnservedSteps

\* A step of h that keeps what its own frame needs and the order keeps OrderInv.
LEMMA OrderKept ==
    ASSUME IInv, SerialInv, OrderInv, NEW h \in Processes, Ready(h),
           NEW f, Become(h, f), faults' = faults,
           frame'[h].at \in ReplacingSteps \/ NewestRuns', Unserved(h)'
    PROVE  OrderInv'
<1>1. ASSUME NEW g \in Processes, g # h PROVE Unserved(g)'
  BY <1>1, OthersIdle, UnservedElsewhere DEF SerialInv, UnservedSteps
<1>2. (Replacing \/ NewestRuns)'
  BY DEF Replacing, ReplacingSteps
<1> QED
  BY <1>1, <1>2 DEF OrderInv

\* Nobody is replacing the others: the order of ids tells what runs.
LEMMA NewestHolds ==
    ASSUME IInv, SerialInv, OrderInv, NEW h \in Processes, Ready(h),
           frame[h].at \notin ReplacingSteps
    PROVE  NewestRuns
<1>1. ASSUME NEW g \in Processes PROVE frame[g].at \notin ReplacingSteps
  BY <1>1 DEF SerialInv, OneAtATime, Ready, At, ReplacingSteps
<1> QED
  BY <1>1 DEF OrderInv, Replacing, ReplacingSteps

\* With the same or fewer ACTIVE subscriptions, the same rows and later, the
\* newest one still runs.
LEMMA NewestKept ==
    ASSUME IInv, NewestRuns, ActiveSubs' \subseteq ActiveSubs, now' \in Nat, now <= now',
           \A s \in ActiveSubs' : /\ subs'[s].end = subs[s].end
                                  /\ subs'[s].plan = subs[s].plan
    PROVE  NewestRuns'
<1> SUFFICES ASSUME NEW s \in ActiveSubs', NEW t \in ActiveSubs', s < t
             PROVE  IsDue(subs'[s], now') /\ subs'[s].plan # FreePlan
  BY DEF NewestRuns
<1>1. IsDue(subs[s], now) /\ subs[s].plan # FreePlan
  BY DEF NewestRuns
<1>2. subs'[s].status = "ACTIVE" /\ now \in Nat /\ subs[s].end \in Nat
  BY DEF ActiveSubs, IInv, TypeOK, Stored, Subscription
<1> QED
  BY <1>1, <1>2 DEF IsDue

\* Nothing happens to a subscription that is ACTIVE.
LEMMA OrderQuiet ==
    ASSUME IInv, SerialInv, OrderInv, NEW h \in Processes, Ready(h),
           frame[h].at \notin ReplacingSteps, NEW f, Become(h, f), Unserved(h)',
           ActiveSubs' = ActiveSubs, \A s \in ActiveSubs : subs'[s] = subs[s],
           faults' = faults, now' = now
    PROVE  OrderInv'
<1>1. now \in Nat
  BY DEF IInv, TypeOK
<1>2. NewestRuns'
  BY <1>1, NewestHolds, NewestKept
<1> QED
  BY <1>2, OrderKept

\* The stored subscription s is saved EXPIRED.
LEMMA ClosedSaved ==
    ASSUME IInv, SerialInv, NEW s \in Stored, NEW row, row.status = "EXPIRED",
           SaveSub(s, row), UNCHANGED <<payments, now>>
    PROVE  /\ ActiveSubs' = ActiveSubs \ {s}
           /\ \A t \in ActiveSubs' : subs'[t] = subs[t]
           /\ ValidActive' \subseteq ValidActive
<1>1. /\ Stored' = Stored
      /\ \A t \in Subs : subs'[t] = IF t = s THEN row ELSE subs[t]
  BY StoredSaved DEF SerialInv
<1>2. ActiveSubs' = ActiveSubs \ {s}
  BY <1>1 DEF ActiveSubs, Stored
<1>3. \A t \in ActiveSubs' : subs'[t] = subs[t]
  BY <1>1 DEF ActiveSubs, Stored
<1>4. ValidActive' \subseteq ValidActive
  BY <1>1 DEF ValidActive, IsValidNow, Stored
<1> QED
  BY <1>2, <1>3, <1>4

\* A subscription closed between requests leaves the order.
LEMMA OrderClosed ==
    ASSUME IInv, SerialInv, OrderInv, NEW h \in Processes, Ready(h),
           frame[h].at \notin ReplacingSteps, NEW f, Become(h, f), Unserved(h)',
           NEW s \in Stored, NEW row, row.status = "EXPIRED",
           SaveSub(s, row), UNCHANGED <<payments, now, faults>>
    PROVE  OrderInv'
<1>1. /\ ActiveSubs' = ActiveSubs \ {s}
      /\ \A t \in ActiveSubs' : subs'[t] = subs[t]
  BY ClosedSaved
<1>2. now \in Nat
  BY DEF IInv, TypeOK
<1>3. NewestRuns'
  BY <1>1, <1>2, NewestHolds, NewestKept
<1> QED
  BY <1>3, OrderKept

\* A valid subscription is ACTIVE and not due.
LEMMA ValidIsActive ==
    ASSUME IInv
    PROVE  /\ ValidActive \subseteq ActiveSubs
           /\ \A s \in ActiveSubs : s \in Nat /\ s \in Stored
           /\ \A s \in ValidActive : ~IsDue(subs[s], now)
           /\ \A s \in ActiveSubs : s \notin ValidActive => IsDue(subs[s], now)
<1>1. now \in Nat /\ \A s \in Stored : s \in Nat /\ subs[s].end \in Nat
  BY IdsAreNat DEF IInv, TypeOK, Stored, Subscription
<1> QED
  BY <1>1 DEF ValidActive, ActiveSubs, IsValidNow, IsDue, Stored

\* A set of subscriptions has a newest one.
LEMMA NewestExists ==
    ASSUME NEW ids \in SUBSET Subs, ids # {}
    PROVE  Newest(ids) # {}
<1> DEFINE Gaps == {MaxSubs - s : s \in ids}
<1>1. \A s \in ids : s \in Nat /\ s <= MaxSubs /\ MaxSubs \in Nat
  BY BoundsAssumption DEF Subs
<1>2. Gaps \in SUBSET Nat /\ Gaps # {}
  BY <1>1
<1>3. PICK n \in Gaps : \A m \in Gaps : n <= m
  <2> HIDE DEF Gaps
  <2> QED
    BY <1>2, LeastNat
<1>4. PICK s \in ids : n = MaxSubs - s
  BY <1>3
<1>5. \A other \in ids : other <= s
  BY <1>1, <1>3, <1>4
<1> QED
  BY <1>4, <1>5 DEF Newest
\* Requests for payments and their steps before and after the others are replaced.
LEMMA PaymentOrder ==
    ASSUME IInv, SerialInv, OrderInv, ActivationInv, ActivationInv', Serial,
           NEW h \in Processes, PaymentRequest(h) \/ PaymentStep(h)
    PROVE  OrderInv'
<1>0. Ready(h) /\ faults' = faults /\ now' = now
  BY DEF PaymentRequest, BeginCheckout, BeginConfirm, BeginFail,
     PaymentStep, CheckoutStep, ResolveSubscription, CreatePendingSubscription,
     CreatePendingPayment, GatewayAnswers, SaveProcessing,
     ConfirmStep, FindSubscription, FindPlan, SaveConfirmed, PostRevenue, PostReceipt,
     SaveSubscription, FindOthers, ExpireOther, FindSchool, SaveActivatedSchool,
     RecordEvent, SaveFailed, Begin, Ready, At, world
<1>1. ASSUME NEW steps, Leads(h, steps), steps \cap UnservedSteps = {},
             frame[h].at \notin ReplacingSteps,
             ActiveSubs' = ActiveSubs, \A s \in ActiveSubs : subs'[s] = subs[s]
      PROVE  OrderInv'
  BY <1>0, <1>1, UnservedElsewhere, OrderQuiet DEF Leads
<1>2. ASSUME UNCHANGED subs
      PROVE  ActiveSubs' = ActiveSubs /\ \A s \in ActiveSubs : subs'[s] = subs[s]
  BY <1>2 DEF ActiveSubs, Stored
<1>3. CASE PaymentRequest(h)
  <2>1. UNCHANGED subs
    BY <1>3 DEF PaymentRequest, BeginCheckout, BeginConfirm, BeginFail
  <2>2. CASE BeginCheckout(h)
    <3>1. \A f : Become(h, f) /\ f.at = "checkout.resolve" => Leads(h, {"checkout.resolve"})
      BY LeadsTo
    <3>2. Leads(h, {"checkout.resolve"})
      BY <2>2, <3>1 DEF BeginCheckout, Idle
    <3> QED
      BY <1>1, <1>2, <2>1, <2>2, <3>2
         DEF BeginCheckout, Begin, At, UnservedSteps, ReplacingSteps
  <2>3. CASE BeginConfirm(h)
    <3>1. \A f : Become(h, f) /\ f.at = "confirm.subscription"
                   => Leads(h, {"confirm.subscription"})
      BY LeadsTo
    <3>2. Leads(h, {"confirm.subscription"})
      BY <2>3, <3>1 DEF BeginConfirm, Idle
    <3> QED
      BY <1>1, <1>2, <2>1, <2>3, <3>2
         DEF BeginConfirm, Begin, At, UnservedSteps, ReplacingSteps
  <2>4. CASE BeginFail(h)
    <3>1. \A f : Become(h, f) /\ f.at = "fail.save" => Leads(h, {"fail.save"})
      BY LeadsTo
    <3>2. Leads(h, {"fail.save"})
      BY <2>4, <3>1 DEF BeginFail, Idle
    <3> QED
      BY <1>1, <1>2, <2>1, <2>4, <3>2
         DEF BeginFail, Begin, At, UnservedSteps, ReplacingSteps
  <2> QED
    BY <1>3, <2>2, <2>3, <2>4 DEF PaymentRequest
<1>4. CASE CheckoutStep(h)
  <2>1. frame[h].at \notin ReplacingSteps
    BY <1>4 DEF CheckoutStep, ResolveSubscription, CreatePendingSubscription,
       CreatePendingPayment, GatewayAnswers, SaveProcessing, At, ReplacingSteps
  <2>2. ActiveSubs' = ActiveSubs /\ \A s \in ActiveSubs : subs'[s] = subs[s]
    <3>1. CASE CreatePendingSubscription(h)
      <4> DEFINE row == CreatePending(frame[h].plan)
      <4>1. row.status = "PENDING"
        BY DEF CreatePending, NewSubscription
      <4>2. SaveSub(NewId, row) /\ NewId \in Subs /\ UNCHANGED payments
        BY <3>1 DEF CreatePendingSubscription
      <4> HIDE DEF row
      <4>3. /\ Stored' = Stored \cup {NewId} /\ NewId \notin Stored
            /\ \A t \in Subs : subs'[t] = IF t = NewId THEN row ELSE subs[t]
        BY <4>1, <4>2, NewSaved, NewIdIsNext DEF SerialInv
      <4> QED
        BY <4>1, <4>2, <4>3 DEF ActiveSubs, Stored
    <3>2. CASE ~CreatePendingSubscription(h)
      BY <1>2, <1>4, <3>2 DEF CheckoutStep, ResolveSubscription, CreatePendingPayment,
         GatewayAnswers, SaveProcessing
    <3> QED
      BY <3>1, <3>2
  <2> QED
    BY <1>1, <1>4, <2>1, <2>2, CheckoutLeads DEF UnservedSteps
<1>5. CASE \/ FindSubscription(h) \/ FindPlan(h) \/ SaveConfirmed(h)
           \/ PostRevenue(h) \/ PostReceipt(h)
  <2>1. UNCHANGED subs /\ frame[h].at \notin ReplacingSteps
    BY <1>5 DEF FindSubscription, FindPlan, SaveConfirmed, PostRevenue, PostReceipt,
       At, ReplacingSteps
  <2> QED
    BY <1>1, <1>2, <1>5, <2>1, ConfirmLeads DEF UnservedSteps
<1>6. CASE SaveSubscription(h)
  <2>1. CASE Return(h) /\ UNCHANGED subs
    BY <1>1, <1>2, <1>6, <2>1, ReturnLeads
       DEF SaveSubscription, At, UnservedSteps, ReplacingSteps
  <2>2. CASE ~(Return(h) /\ UNCHANGED subs)
    <3>1. Become(h, [Idle EXCEPT !.at = "confirm.others", !.p = frame[h].p,
                                 !.s = frame[h].s])
      BY <1>6, <2>2 DEF SaveSubscription
    <3>2. frame'[h] = [Idle EXCEPT !.at = "confirm.others", !.p = frame[h].p,
                                   !.s = frame[h].s]
      BY <3>1, Moved
    <3>3. frame'[h].at = "confirm.others"
      BY <3>2 DEF Idle
    <3> QED
      BY <1>0, <3>1, <3>3, UnservedElsewhere, OrderKept DEF UnservedSteps, ReplacingSteps
  <2> QED
    BY <2>1, <2>2
<1>7. CASE FindOthers(h) \/ ExpireOther(h)
  <2>1. (\E f : Become(h, f)) /\ frame'[h].at \in {"confirm.expire", "confirm.school"}
    <3>1. ASSUME NEW f, Become(h, f), f.at \in {"confirm.expire", "confirm.school"}
          PROVE  (\E g : Become(h, g)) /\ frame'[h].at \in {"confirm.expire", "confirm.school"}
      BY <3>1, Moved
    <3>2. frame[h] \in Frame
      BY FrameFacts
    <3> QED
      BY <1>7, <3>1, <3>2 DEF FindOthers, ExpireOther, Frame
  <2>2. Activating(h)'
    BY DEF ActivationInv
  <2>3. CASE frame'[h].at = "confirm.expire"
    BY <1>0, <2>1, <2>3, UnservedElsewhere, OrderKept DEF UnservedSteps, ReplacingSteps
  <2>4. CASE frame'[h].at = "confirm.school"
    <3>1. ActiveSubs' = {frame'[h].s}
      BY <2>2, <2>4 DEF Activating
    <3>2. NewestRuns'
      <4>1. \A s \in Subs : s \in Nat
        BY IdsAreNat
      <4>2. \A s, t \in ActiveSubs' : s = t /\ s \in Nat
        BY <3>1, <4>1 DEF ActiveSubs, Stored
      <4> QED
        BY <4>2 DEF NewestRuns
    <3> QED
      BY <1>0, <2>1, <2>4, <3>2, UnservedElsewhere, OrderKept DEF UnservedSteps
  <2> QED
    BY <2>1, <2>3, <2>4
<1>8. CASE FindSchool(h)
  <2>1. \A f : Become(h, f) /\ f.at \in {"confirm.event", "confirm.saveSchool"}
                 => Leads(h, {"confirm.event", "confirm.saveSchool"})
    BY LeadsTo
  <2>2. frame[h] \in Frame
    BY FrameFacts
  <2>3. Leads(h, {"confirm.event", "confirm.saveSchool"})
    BY <1>8, <2>1, <2>2 DEF FindSchool, Frame
  <2> QED
    BY <1>1, <1>2, <1>8, <2>3 DEF FindSchool, At, UnservedSteps, ReplacingSteps
<1>9. CASE SaveActivatedSchool(h)
  <2>1. Leads(h, {"confirm.event"})
    BY <1>9, GotoLeads DEF SaveActivatedSchool
  <2> QED
    BY <1>1, <1>2, <1>9, <2>1 DEF SaveActivatedSchool, At, UnservedSteps, ReplacingSteps
<1>10. CASE RecordEvent(h) \/ SaveFailed(h)
  BY <1>1, <1>2, <1>10, ReturnLeads
     DEF RecordEvent, SaveFailed, At, UnservedSteps, ReplacingSteps
<1> QED
  BY <1>3, <1>4, <1>5, <1>6, <1>7, <1>8, <1>9, <1>10
     DEF PaymentStep, ConfirmStep
\* The same rows are ACTIVE and valid, and as they were.
RowsStand ==
    /\ ActiveSubs' = ActiveSubs /\ ValidActive' = ValidActive /\ FreeSubs' = FreeSubs
    /\ \A s \in ActiveSubs : subs'[s] = subs[s]

\* A step that saves no subscription leaves the rows.
LEMMA UnchangedStands ==
    ASSUME UNCHANGED <<subs, now>>
    PROVE  RowsStand
BY DEF RowsStand, ActiveSubs, ValidActive, FreeSubs, Stored

\* The step moves on to a step with nothing to promise.
LEMMA OrderElsewhere ==
    ASSUME IInv, SerialInv, OrderInv, NEW h \in Processes, Ready(h),
           frame[h].at \notin ReplacingSteps,
           NEW steps, Leads(h, steps), steps \cap UnservedSteps = {},
           UNCHANGED <<subs, now, faults>>
    PROVE  OrderInv'
<1>1. Unserved(h)'
  BY UnservedElsewhere DEF Leads
<1> QED
  BY <1>1, UnchangedStands, OrderQuiet DEF Leads, RowsStand

\* The step moves on with the subscriptions as they are.
LEMMA OrderMoves ==
    ASSUME IInv, SerialInv, OrderInv, NEW h \in Processes, Ready(h),
           frame[h].at \notin ReplacingSteps,
           NEW f, Become(h, f), Unserved(h)', UNCHANGED <<subs, now, faults>>
    PROVE  OrderInv'
BY UnchangedStands, OrderQuiet DEF RowsStand

\* Cancelling changes no date.
LEMMA CancelOrder ==
    ASSUME IInv, SerialInv, OrderInv, Serial, NEW h \in Processes,
           BeginCancel(h) \/ SaveCancelled(h)
    PROVE  OrderInv'
<1>0. frame[h] \in Frame /\ Current(h)
  BY FrameFacts DEF SerialInv
<1>1. CASE BeginCancel(h)
  <2>1. \A f : Become(h, f) /\ f.at = "cancel.save" => Leads(h, {"cancel.save"})
    BY LeadsTo
  <2>2. Leads(h, {"cancel.save"})
    BY <1>1, <2>1 DEF BeginCancel, Idle
  <2> QED
    BY <1>1, <2>2, OrderElsewhere
       DEF BeginCancel, Begin, Ready, At, ReplacingSteps, UnservedSteps, world
<1>2. CASE SaveCancelled(h)
  <2> DEFINE row == ScheduleCancelAtPeriodEnd(frame[h].sub)
  <2>1. frame[h].s \in Stored /\ frame[h].sub = subs[frame[h].s]
        /\ frame[h].sub \in Subscription
    BY <1>0, <1>2 DEF SaveCancelled, At, Current, SubIsCurrent, OverwritingSteps, Frame
  <2>2. /\ row.status = subs[frame[h].s].status /\ row.end = subs[frame[h].s].end
        /\ row.plan = subs[frame[h].s].plan /\ row.status # "NONE"
    BY <2>1 DEF ScheduleCancelAtPeriodEnd, Subscription, Stored
  <2>3. SaveSub(frame[h].s, row) /\ UNCHANGED <<now, payments, faults>> /\ Return(h)
        /\ Ready(h) /\ frame[h].at \notin ReplacingSteps
    BY <1>2 DEF SaveCancelled, world, Ready, At, ReplacingSteps
  <2> HIDE DEF row
  <2>4. /\ Stored' = Stored
        /\ \A t \in Subs : subs'[t] = IF t = frame[h].s THEN row ELSE subs[t]
    BY <2>1, <2>2, <2>3, StoredSaved DEF SerialInv
  <2>5. /\ ActiveSubs' \subseteq ActiveSubs
        /\ \A t \in ActiveSubs' : /\ subs'[t].end = subs[t].end
                                  /\ subs'[t].plan = subs[t].plan
    BY <2>1, <2>2, <2>4 DEF ActiveSubs, Stored
  <2>6. now \in Nat
    BY DEF IInv, TypeOK
  <2>7. NewestRuns'
    BY <2>3, <2>5, <2>6, NewestHolds, NewestKept
  <2>8. Leads(h, {"idle"})
    BY <2>3, ReturnLeads
  <2> QED
    BY <2>3, <2>7, <2>8, UnservedElsewhere, OrderKept DEF Leads, UnservedSteps
<1> QED
  BY <1>1, <1>2

\* The job closes only what is due.
LEMMA JobOrder ==
    ASSUME IInv, SerialInv, OrderInv, Serial, NEW h \in Processes,
           BeginJob(h) \/ JobStep(h)
    PROVE  OrderInv'
<1>0. frame[h] \in Frame /\ Current(h) /\ Unserved(h)
  BY FrameFacts DEF SerialInv, OrderInv
<1>1. CASE BeginJob(h)
  <2>1. \A f : Become(h, f) /\ f.at = "job.save" => Leads(h, {"job.save"})
    BY LeadsTo
  <2>2. Leads(h, {"job.save"})
    BY <1>1, <2>1 DEF BeginJob, Idle
  <2> QED
    BY <1>1, <2>2, OrderElsewhere
       DEF BeginJob, Begin, Ready, At, ReplacingSteps, UnservedSteps, world
<1>2. CASE SaveDue(h)
  <2>1. PICK due \in frame[h].rest :
          /\ SaveSub(due.id, Expire(due.row))
          /\ Become(h, [frame[h] EXCEPT !.at = "job.check",
                                        !.rest = frame[h].rest \ {due}])
    BY <1>2 DEF SaveDue
  <2>2. frame'[h] = [frame[h] EXCEPT !.at = "job.check", !.rest = frame[h].rest \ {due}]
    BY <2>1, Moved
  <2>3. frame'[h].at = "job.check"
    BY <1>0, <2>2 DEF Frame
  <2>4. Unserved(h)'
    BY <2>3, UnservedElsewhere DEF UnservedSteps
  <2>5. due.id \in Stored /\ Expire(due.row).status = "EXPIRED"
    <3>1. due \in Rows /\ due.id \in Stored
      BY <1>0, <1>2 DEF SaveDue, At, Frame, Current, BatchIsCurrent, BatchSteps
    <3> QED
      BY <3>1 DEF Expire, Rows, Subscription
  <2>6. Ready(h) /\ frame[h].at \notin ReplacingSteps /\ UNCHANGED <<payments, now, faults>>
    BY <1>2 DEF SaveDue, Ready, At, ReplacingSteps, world
  <2> QED
    BY <2>1, <2>4, <2>5, <2>6, OrderClosed
<1>3. CASE CheckStillValid(h) \/ FindSchoolOfDue(h) \/ ExpireSchoolOfDue(h)
  <2>1. /\ Ready(h) /\ frame[h].at \notin ReplacingSteps /\ UNCHANGED <<subs, now, faults>>
    BY <1>3 DEF CheckStillValid, FindSchoolOfDue, ExpireSchoolOfDue, Ready, At,
       ReplacingSteps, world
  <2>2. CASE NextDue(h)
    <3>1. Leads(h, {"idle", "job.save"})
      BY <2>2, GotoLeads, ReturnLeads DEF NextDue
    <3> QED
      BY <2>1, <3>1, OrderElsewhere DEF UnservedSteps
  <2>3. CASE ~NextDue(h)
    <3>1. ValidActive = {} /\ Leads(h, {"job.school", "job.saveSchool"})
      BY <1>0, <1>3, <2>3, GotoLeads
         DEF CheckStillValid, FindSchoolOfDue, ExpireSchoolOfDue, At, Unserved
    <3>2. ValidActive' = {}
      BY <2>1, <3>1, UnchangedStands DEF RowsStand
    <3>3. Unserved(h)'
      BY <3>1, <3>2 DEF Unserved, Leads
    <3> QED
      BY <2>1, <3>1, <3>3, OrderMoves DEF Leads
  <2> QED
    BY <2>2, <2>3
<1> QED
  BY <1>1, <1>2, <1>3 DEF JobStep

\* When the latest subscription is due, no other one is valid.
LEMMA LatestExpires ==
    ASSUME IInv, SerialInv, OrderInv, NEW h \in Processes, Ready(h),
           frame[h].at \notin ReplacingSteps, NEW latest \in Newest(Stored),
           IsDue(subs[latest], now), UNCHANGED <<subs, now, faults>>,
           Become(h, [Idle EXCEPT !.at = "dashboard.save", !.s = latest,
                                  !.sub = subs[latest]])
    PROVE  OrderInv'
<1>1. NewestRuns
  BY NewestHolds
<1>2. latest \in ActiveSubs /\ \A s \in Stored : s <= latest
  BY DEF Newest, IsDue, ActiveSubs
<1>3. ValidActive = {}
  <2> SUFFICES ASSUME NEW s \in ValidActive PROVE FALSE
    OBVIOUS
  <2>1. s \in ActiveSubs /\ s \in Stored /\ ~IsDue(subs[s], now) /\ s \in Nat
        /\ latest \in Nat
    BY <1>2, ValidIsActive
  <2>2. s < latest
    BY <1>2, <2>1
  <2> QED
    BY <1>1, <1>2, <2>1, <2>2 DEF NewestRuns
<1>4. frame'[h] = [Idle EXCEPT !.at = "dashboard.save", !.s = latest,
                               !.sub = subs[latest]]
  BY Moved
<1>5. frame'[h].at = "dashboard.save"
  BY <1>4 DEF Idle
<1>6. Unserved(h)'
  BY <1>3, <1>5, UnchangedStands DEF Unserved, RowsStand
<1> QED
  BY <1>6, OrderMoves

\* A dashboard closes only the latest subscription, and only when due.
LEMMA DashboardOrder ==
    ASSUME IInv, SerialInv, OrderInv, Serial, NEW h \in Processes,
           BeginDashboard(h) \/ DashboardStep(h)
    PROVE  OrderInv'
<1>0. frame[h] \in Frame /\ Current(h) /\ Unserved(h)
  BY FrameFacts DEF SerialInv, OrderInv
<1>1. CASE BeginDashboard(h)
  <2>1. /\ Ready(h) /\ frame[h].at \notin ReplacingSteps /\ UNCHANGED <<subs, now, faults>>
    BY <1>1 DEF BeginDashboard, Begin, Ready, At, ReplacingSteps, world
  <2> QED
    BY <1>1, <2>1, LatestExpires DEF BeginDashboard
<1>2. CASE SaveLatestExpired(h)
  <2> DEFINE row == Expire(frame[h].sub)
             g == [Idle EXCEPT !.at = "dashboard.school"]
  <2>1. /\ SaveSub(frame[h].s, row) /\ Become(h, g) /\ Ready(h)
        /\ frame[h].at \notin ReplacingSteps /\ UNCHANGED <<payments, now, faults>>
    BY <1>2 DEF SaveLatestExpired, Ready, At, ReplacingSteps, world
  <2>2. frame[h].s \in Stored /\ row.status = "EXPIRED"
    BY <1>0, <1>2 DEF SaveLatestExpired, At, Current, SubIsCurrent, OverwritingSteps,
       Expire, Frame, Subscription
  <2>3. frame'[h] = g
    BY <2>1, Moved
  <2>4. frame'[h].at = "dashboard.school"
    BY <2>3 DEF Idle
  <2> HIDE DEF row, g
  <2>5. ValidActive' \subseteq ValidActive
    BY <2>1, <2>2, ClosedSaved
  <2>6. ValidActive = {}
    BY <1>0, <1>2 DEF SaveLatestExpired, At, Unserved
  <2>7. Unserved(h)'
    BY <2>4, <2>5, <2>6 DEF Unserved
  <2> QED
    BY <2>1, <2>2, <2>7, OrderClosed
<1>3. CASE FindSchoolOfLatest(h) \/ ExpireSchoolOfLatest(h)
  <2>1. /\ Ready(h) /\ frame[h].at \notin ReplacingSteps /\ UNCHANGED <<subs, now, faults>>
    BY <1>3 DEF FindSchoolOfLatest, ExpireSchoolOfLatest, Ready, At, ReplacingSteps, world
  <2>2. CASE Return(h)
    <3>1. Leads(h, {"idle"})
      BY <2>2, ReturnLeads
    <3> QED
      BY <2>1, <3>1, OrderElsewhere DEF UnservedSteps
  <2>3. CASE ~Return(h)
    <3>1. ValidActive = {} /\ Leads(h, {"dashboard.saveSchool"})
      BY <1>0, <1>3, <2>3, GotoLeads
         DEF FindSchoolOfLatest, ExpireSchoolOfLatest, At, Unserved
    <3>2. Unserved(h)'
      BY <2>1, <3>1, UnchangedStands DEF Unserved, Leads, RowsStand
    <3> QED
      BY <2>1, <3>1, <3>2, OrderMoves DEF Leads
  <2> QED
    BY <2>2, <2>3
<1> QED
  BY <1>1, <1>2, <1>3 DEF DashboardStep

\* A review closes nothing, but a submission may find the latest subscription due.
LEMMA ReviewOrder ==
    ASSUME IInv, SerialInv, OrderInv, Serial, NEW h \in Processes,
           BeginSubmit(h) \/ BeginReview(h) \/ ReviewStep(h)
    PROVE  OrderInv'
<1>1. /\ Ready(h) /\ frame[h].at \notin ReplacingSteps /\ UNCHANGED <<subs, now, faults>>
  BY DEF BeginSubmit, BeginReview, ReviewStep, CheckSubscription, SaveSubmitted,
     SaveReview, Begin, Ready, At, ReplacingSteps, world
<1>2. ASSUME NEW f, Become(h, f), f.at \in {"submit.plan", "submit.save", "review.save"}
      PROVE  Leads(h, {"submit.plan", "submit.save", "review.save"})
  BY <1>2, LeadsTo
<1>3. ASSUME Leads(h, {"submit.plan", "submit.save", "review.save"}) \/ Leads(h, {"idle"})
      PROVE  OrderInv'
  BY <1>1, <1>3, OrderElsewhere DEF UnservedSteps
<1>4. CASE BeginSubmit(h) \/ BeginReview(h)
  <2>1. CASE BeginSubmit(h)
    BY <1>2, <1>3, <2>1 DEF BeginSubmit, Idle
  <2>2. CASE BeginReview(h)
    BY <1>2, <1>3, <2>2 DEF BeginReview, Idle
  <2> QED
    BY <1>4, <2>1, <2>2
<1>5. CASE CheckSubscription(h)
  <2>1. CASE Return(h) \/ Goto(h, "submit.save")
    BY <1>3, <2>1, ReturnLeads, GotoLeads
  <2>2. ASSUME NEW latest \in Newest(Stored), IsDue(subs[latest], now),
               Become(h, [Idle EXCEPT !.at = "dashboard.save", !.s = latest,
                                      !.sub = subs[latest]])
        PROVE  OrderInv'
    BY <1>1, <2>2, LatestExpires
  <2> QED
    BY <1>5, <2>1, <2>2, SubmissionReads
<1>6. CASE SaveSubmitted(h) \/ SaveReview(h)
  BY <1>3, <1>6, ReturnLeads DEF SaveSubmitted, SaveReview
<1> QED
  BY <1>4, <1>5, <1>6 DEF ReviewStep

\* The newest subscription runs, the older ones are due and of paid plans.
LEMMA NewestWithOneMore ==
    ASSUME IInv, SerialInv, NewId \in Subs, NEW row, row.status = "ACTIVE",
           SaveSub(NewId, row), UNCHANGED <<payments, now>>,
           ActiveSubs = {} \/ (ValidActive = {} /\ FreeSubs = {}), NewestRuns
    PROVE  NewestRuns'
<1>1. PICK n \in Subs : n = NewId
  OBVIOUS
<1>2. /\ Stored' = Stored \cup {n} /\ n \notin Stored
      /\ \A t \in Subs : subs'[t] = IF t = n THEN row ELSE subs[t]
      /\ \A s \in Stored : s \in Nat /\ s < n
  BY <1>1, NewSaved, NewIdIsNext DEF SerialInv
<1>3. ActiveSubs' = ActiveSubs \cup {n} /\ \A s \in ActiveSubs : subs'[s] = subs[s]
  BY <1>2 DEF ActiveSubs, Stored
<1>4. \A s \in ActiveSubs : /\ s \in Stored /\ s \notin ValidActive
                            /\ IsDue(subs[s], now) /\ subs[s].plan # FreePlan
  BY ValidIsActive DEF FreeSubs
<1> SUFFICES ASSUME NEW s \in ActiveSubs', NEW t \in ActiveSubs', s < t
             PROVE  IsDue(subs'[s], now') /\ subs'[s].plan # FreePlan
  BY DEF NewestRuns
<1>5. n \in Nat
  BY IdsAreNat
<1>6. s # n
  BY <1>2, <1>3, <1>4, <1>5
<1> QED
  BY <1>3, <1>4, <1>6

\* The FREE plan comes when no paid subscription is valid and no other is FREE.
LEMMA FreePlanOrder ==
    ASSUME IInv, SerialInv, OrderInv, Serial, NEW h \in Processes,
           BeginFreePlan(h) \/ FreePlanStep(h)
    PROVE  OrderInv'
<1>0. frame[h] \in Frame /\ Current(h) /\ Unserved(h)
  BY FrameFacts DEF SerialInv, OrderInv
<1>1. /\ Ready(h) /\ frame[h].at \notin ReplacingSteps /\ UNCHANGED <<now, payments, faults>>
  BY DEF BeginFreePlan, FreePlanStep, FindFreePlan, FindFree, SaveFreeExpired,
     ExpireSchoolOfFree, FindValidBeforeFree, CreateFree, Begin, Ready, At,
     ReplacingSteps, world
<1>2. ASSUME Leads(h, {"idle", "free.plan", "free.find"}), UNCHANGED subs
      PROVE  OrderInv'
  BY <1>1, <1>2, OrderElsewhere DEF UnservedSteps
<1>3. ASSUME Return(h), UNCHANGED subs PROVE OrderInv'
  BY <1>2, <1>3, ReturnLeads
<1>4. CASE BeginFreePlan(h)
  <2>1. \A f : Become(h, f) /\ f.at = "free.plan"
                 => Leads(h, {"idle", "free.plan", "free.find"})
    BY LeadsTo
  <2> QED
    BY <1>2, <1>4, <2>1 DEF BeginFreePlan, Idle
<1>5. CASE FindFreePlan(h)
  <2>1. UNCHANGED subs /\ Leads(h, {"idle", "free.plan", "free.find"})
    BY <1>5, GotoLeads, ReturnLeads DEF FindFreePlan
  <2> QED
    BY <1>2, <2>1
<1>6. CASE FindFree(h)
  <2>0. UNCHANGED subs
    BY <1>6 DEF FindFree
  <2>1. CASE Return(h)
    BY <1>3, <2>0, <2>1
  <2>2. CASE ~Return(h) /\ FreeSubs = {}
    <3>1. Leads(h, {"free.valid"})
      BY <1>6, <2>2, GotoLeads DEF FindFree, Oldest
    <3>2. Unserved(h)'
      BY <1>1, <2>0, <2>2, <3>1, UnchangedStands DEF Unserved, Leads, RowsStand
    <3> QED
      BY <1>1, <2>0, <3>1, <3>2, OrderMoves DEF Leads
  <2>3. CASE ~Return(h) /\ FreeSubs # {}
    <3>1. PICK s \in Oldest(FreeSubs) :
            /\ IsDue(subs[s], frame[h].t)
            /\ Become(h, [frame[h] EXCEPT !.at = "free.save", !.s = s, !.sub = subs[s]])
      BY <1>6, <2>3 DEF FindFree
    <3>2. frame'[h] = [frame[h] EXCEPT !.at = "free.save", !.s = s, !.sub = subs[s]]
      BY <3>1, Moved
    <3>3. frame'[h].at = "free.save"
      BY <1>0, <3>2 DEF Frame
    <3>4. s \in FreeSubs /\ s \in Stored /\ subs[s].plan = FreePlan
      BY <3>1 DEF Oldest, FreeSubs
    <3>5. frame[h].t <= now /\ frame[h].t \in Nat /\ now \in Nat
      BY <1>0 DEF Current, Frame, IInv, TypeOK
    <3>6. subs[s].end \in Nat
      BY <3>4 DEF IInv, TypeOK, Stored, Subscription
    <3>7. IsDue(subs[s], now) /\ s \in ActiveSubs
      BY <3>1, <3>4, <3>5, <3>6 DEF IsDue, ActiveSubs
    <3>8. NewestRuns
      BY <1>1, NewestHolds
    <3>9. ValidActive = {}
      <4> SUFFICES ASSUME NEW t \in ValidActive PROVE FALSE
        OBVIOUS
      <4>1. t \in ActiveSubs /\ ~IsDue(subs[t], now) /\ t \in Nat /\ s \in Nat
        BY <3>7, ValidIsActive
      <4>2. t < s \/ s < t
        BY <3>7, <4>1
      <4> QED
        BY <3>4, <3>7, <3>8, <4>1, <4>2 DEF NewestRuns
    <3>10. Unserved(h)'
      BY <1>1, <2>0, <3>3, <3>9, UnchangedStands DEF Unserved, RowsStand
    <3> QED
      BY <1>1, <2>0, <3>1, <3>10, OrderMoves
  <2> QED
    BY <2>1, <2>2, <2>3
<1>7. CASE SaveFreeExpired(h)
  <2> DEFINE row == Expire(frame[h].sub)
  <2>1. SaveSub(frame[h].s, row) /\ (Return(h) \/ Goto(h, "free.saveSchool"))
    BY <1>7 DEF SaveFreeExpired
  <2>2. frame[h].s \in Stored /\ row.status = "EXPIRED"
    BY <1>0, <1>7 DEF SaveFreeExpired, At, Current, SubIsCurrent, OverwritingSteps,
       Expire, Frame, Subscription
  <2> HIDE DEF row
  <2>3. ValidActive' \subseteq ValidActive
    BY <1>1, <2>1, <2>2, ClosedSaved
  <2>4. ValidActive = {}
    BY <1>0, <1>7 DEF SaveFreeExpired, At, Unserved
  <2>5. Leads(h, {"idle", "free.saveSchool"})
    BY <2>1, GotoLeads, ReturnLeads
  <2>6. Unserved(h)'
    BY <2>3, <2>4, <2>5 DEF Unserved, Leads
  <2> QED
    BY <1>1, <2>1, <2>2, <2>5, <2>6, OrderClosed DEF Leads
<1>8. CASE ExpireSchoolOfFree(h)
  BY <1>3, <1>8 DEF ExpireSchoolOfFree
<1>9. CASE FindValidBeforeFree(h)
  <2>0. UNCHANGED subs
    BY <1>9 DEF FindValidBeforeFree
  <2>1. CASE Return(h)
    BY <1>3, <2>0, <2>1
  <2>2. CASE ~Return(h)
    <3>1. /\ ~(\E s \in Newest(ValidActive) : subs[s].plan # FreePlan)
          /\ Leads(h, {"free.create"})
      BY <1>9, <2>2, GotoLeads DEF FindValidBeforeFree
    <3>2. FreeSubs = {}
      BY <1>0, <1>9 DEF FindValidBeforeFree, At, Unserved
    <3>3. \A s \in ValidActive : subs[s].plan # FreePlan /\ s \in Subs
      BY <3>2 DEF FreeSubs, ValidActive, Stored
    <3>4. Newest(ValidActive) = {}
      BY <3>1, <3>3 DEF Newest
    <3>5. ValidActive = {}
      BY <3>3, <3>4, NewestExists
    <3>6. Unserved(h)'
      BY <1>1, <2>0, <3>1, <3>2, <3>5, UnchangedStands DEF Unserved, Leads, RowsStand
    <3> QED
      BY <1>1, <2>0, <3>1, <3>6, OrderMoves DEF Leads
  <2> QED
    BY <2>1, <2>2
<1>10. CASE CreateFree(h)
  <2> DEFINE row == CreateFreePlan(frame[h].t)
  <2>1. NewId \in Subs /\ SaveSub(NewId, row) /\ Return(h)
    BY <1>10 DEF CreateFree
  <2>2. row.status = "ACTIVE"
    BY DEF CreateFreePlan, NewSubscription
  <2> HIDE DEF row
  <2>3. ValidActive = {} /\ FreeSubs = {}
    BY <1>0, <1>10 DEF CreateFree, At, Unserved
  <2>4. NewestRuns'
    BY <1>1, <2>1, <2>2, <2>3, NewestHolds, NewestWithOneMore
  <2>5. Leads(h, {"idle"})
    BY <2>1, ReturnLeads
  <2> QED
    BY <1>1, <2>4, <2>5, UnservedElsewhere, OrderKept DEF Leads, UnservedSteps
<1> QED
  BY <1>4, <1>5, <1>6, <1>7, <1>8, <1>9, <1>10 DEF FreePlanStep

\* The admin closes every ACTIVE subscription before granting one.
LEMMA AdminOrder ==
    ASSUME IInv, SerialInv, OrderInv, Serial, NEW h \in Processes,
           BeginChangeStatus(h) \/ AdminStep(h)
    PROVE  OrderInv'
<1>0. frame[h] \in Frame /\ Current(h) /\ Unserved(h) /\ IdsAreDense /\ PaymentsOfStored
  BY FrameFacts DEF SerialInv, OrderInv
<1>1. /\ Ready(h) /\ frame[h].at \notin ReplacingSteps /\ UNCHANGED <<now, payments, faults>>
  BY DEF BeginChangeStatus, AdminStep, ListActive, CloseActive, SaveGrant,
     SaveAdminStatus, Begin, Ready, At, ReplacingSteps, world
<1>2. CASE BeginChangeStatus(h)
  <2>1. PICK target \in AdminTargets, plan \in Plans :
          Become(h, [Idle EXCEPT
                !.at = IF "ACTIVE" \in {target, school}
                       THEN "admin.list" ELSE "admin.save",
                !.plan = plan, !.t = now, !.school = school, !.target = target])
    BY <1>2 DEF BeginChangeStatus
  <2> DEFINE g == [Idle EXCEPT
                !.at = IF "ACTIVE" \in {target, school}
                       THEN "admin.list" ELSE "admin.save",
                !.plan = plan, !.t = now, !.school = school, !.target = target]
  <2>2. frame'[h] = g
    BY <2>1, Moved
  <2>3. /\ frame'[h].at \in {"admin.list", "admin.save"}
        /\ frame'[h].at = "admin.save" => frame'[h].school # "ACTIVE"
    BY <2>2 DEF Idle
  <2> HIDE DEF g
  <2>4. Unserved(h)'
    BY <2>3 DEF Unserved
  <2> QED
    BY <1>1, <1>2, <2>1, <2>4, OrderMoves DEF BeginChangeStatus
<1>3. CASE ListActive(h)
  <2> DEFINE g == [frame[h] EXCEPT
            !.at = IF ActiveSubs = {} THEN AfterClosing(frame[h]) ELSE "admin.close",
            !.rest = ReadRows(ActiveSubs)]
  <2>1. Become(h, g) /\ UNCHANGED subs
    BY <1>3 DEF ListActive
  <2>2. frame'[h] = g
    BY <2>1, Moved
  <2>3. /\ \/ frame'[h].at = "admin.close"
           \/ ActiveSubs = {} /\ frame'[h].at = "admin.grant" /\ frame[h].target = "ACTIVE"
           \/ ActiveSubs = {} /\ frame'[h].at = "admin.save"
        /\ frame'[h].target = frame[h].target
        /\ frame'[h].rest = ReadRows(ActiveSubs)
    BY <1>0, <2>2 DEF Frame, AfterClosing
  <2> HIDE DEF g
  <2>4. OthersOf(h)' = ActiveSubs
    BY <2>3, IdsOfRows DEF OthersOf
  <2>5. ActiveSubs' = ActiveSubs
    BY <1>1, <2>1, UnchangedStands DEF RowsStand
  <2>6. Unserved(h)'
    BY <2>3, <2>4, <2>5 DEF Unserved
  <2> QED
    BY <1>1, <2>1, <2>6, OrderMoves
<1>4. CASE CloseActive(h)
  <2>1. PICK active \in frame[h].rest :
          /\ SaveSub(active.id, Expire(active.row))
          /\ Become(h, [frame[h] EXCEPT !.rest = frame[h].rest \ {active},
                !.at = IF frame[h].rest \ {active} = {}
                       THEN AfterClosing(frame[h]) ELSE "admin.close"])
    BY <1>4 DEF CloseActive
  <2> DEFINE rest == frame[h].rest \ {active}
             g == [frame[h] EXCEPT !.rest = rest,
                !.at = IF rest = {} THEN AfterClosing(frame[h]) ELSE "admin.close"]
  <2>2. frame'[h] = g
    BY <2>1, Moved
  <2>3. /\ \/ frame'[h].at = "admin.close"
           \/ rest = {} /\ frame'[h].at = "admin.grant" /\ frame[h].target = "ACTIVE"
           \/ rest = {} /\ frame'[h].at = "admin.save"
        /\ frame'[h].target = frame[h].target
        /\ frame'[h].rest = rest
    BY <1>0, <2>2 DEF Frame, AfterClosing
  <2>4. \A item \in frame[h].rest :
           item \in Rows /\ item.id \in Stored /\ item.row = subs[item.id]
    BY <1>0, <1>4 DEF CloseActive, At, Frame, Current, BatchIsCurrent, BatchSteps
  <2>5. /\ active \in Rows /\ active.id \in Stored
        /\ \A item \in rest : item.id # active.id
    BY <2>4 DEF Rows
  <2>6. Expire(active.row).status = "EXPIRED"
    BY <2>5 DEF Expire, Rows, Subscription
  <2>7. ActiveSubs' = ActiveSubs \ {active.id}
    BY <1>1, <2>1, <2>5, <2>6, ClosedSaved
  <2>8. OthersOf(h) = ActiveSubs
    BY <1>0, <1>4 DEF CloseActive, At, Unserved
  <2>9. OthersOf(h)' = OthersOf(h) \ {active.id}
    BY <2>1, <2>3, <2>5 DEF OthersOf
  <2>10. rest = {} => OthersOf(h)' = {}
    BY <2>3 DEF OthersOf
  <2> HIDE DEF rest, g
  <2>11. Unserved(h)'
    BY <2>3, <2>7, <2>8, <2>9, <2>10 DEF Unserved
  <2> QED
    BY <1>1, <2>1, <2>5, <2>6, <2>11, OrderClosed
<1>5. CASE SaveGrant(h)
  <2> DEFINE row == CreateAdminGrant(frame[h].plan, frame[h].t)
             g == [frame[h] EXCEPT !.at = "admin.save"]
  <2>1. NewId \in Subs /\ SaveSub(NewId, row) /\ Become(h, g)
    BY <1>5 DEF SaveGrant, Goto
  <2>2. row.status = "ACTIVE"
    BY DEF CreateAdminGrant, NewSubscription
  <2>3. frame'[h] = g
    BY <2>1, Moved
  <2>4. frame'[h].at = "admin.save" /\ frame'[h].target = frame[h].target
    BY <1>0, <2>3 DEF Frame
  <2> HIDE DEF row, g
  <2>5. ActiveSubs = {} /\ frame[h].target = "ACTIVE"
    BY <1>0, <1>5 DEF SaveGrant, At, Unserved
  <2>6. NewestRuns'
    BY <1>1, <2>1, <2>2, <2>5, NewestHolds, NewestWithOneMore
  <2>7. Unserved(h)'
    BY <2>4, <2>5 DEF Unserved
  <2> QED
    BY <1>1, <2>1, <2>6, <2>7, OrderKept
<1>6. CASE SaveAdminStatus(h)
  <2>1. UNCHANGED subs /\ Leads(h, {"idle"})
    BY <1>6, ReturnLeads DEF SaveAdminStatus
  <2> QED
    BY <1>1, <2>1, OrderElsewhere DEF UnservedSteps
<1> QED
  BY <1>2, <1>3, <1>4, <1>5, <1>6 DEF AdminStep

\* Time, and the plans.
LEMMA SurroundingsOrder ==
    ASSUME IInv, OrderInv,
           \/ Tick
           \/ \E plan \in SwitchedPlans, isActive \in BOOLEAN : SetPlanActive(plan, isActive)
           \/ UNCHANGED vars
    PROVE  OrderInv'
<1>1. UNCHANGED <<subs, frame, faults>> /\ now <= now' /\ now' \in Nat /\ now \in Nat
  BY DEF Tick, SetPlanActive, vars, IInv, TypeOK
<1>2. Stored' = Stored /\ ActiveSubs' = ActiveSubs /\ FreeSubs' = FreeSubs
  BY <1>1 DEF ActiveSubs, FreeSubs, Stored
<1>3. ValidActive' \subseteq ValidActive
  <2>1. \A s \in Stored : subs[s].end \in Nat
    BY DEF Stored, IInv, TypeOK, Subscription
  <2> QED
    BY <1>1, <1>2, <2>1 DEF ValidActive, IsValidNow
<1>4. NewestRuns => NewestRuns'
  BY <1>1, <1>2, NewestKept
<1>5. Replacing => Replacing'
  BY <1>1 DEF Replacing
<1>6. ASSUME NEW h \in Processes PROVE Unserved(h)'
  <2>1. Unserved(h) /\ frame'[h] = frame[h] /\ OthersOf(h)' = OthersOf(h)
    BY <1>1 DEF OrderInv, OthersOf
  <2> QED
    BY <1>2, <1>3, <2>1 DEF Unserved
<1> QED
  BY <1>1, <1>4, <1>5, <1>6 DEF OrderInv

\* No subscription is ACTIVE.
LEMMA InitOrder == Init => OrderInv
<1> SUFFICES ASSUME Init PROVE OrderInv
  OBVIOUS
<1>1. Stored = {} /\ \A h \in Processes : frame[h].at = "idle"
  BY DEF Init, Stored, NoSub, Idle
<1>2. NewestRuns
  BY <1>1 DEF NewestRuns, ActiveSubs
<1> QED
  BY <1>1, <1>2 DEF Init, OrderInv, Unserved

\* Every step keeps OrderInv.
LEMMA NextOrder ==
    ASSUME IInv, SerialInv, ActivationInv, OrderInv, Serial, MaxFaults = 0, [Next]_vars
    PROVE  OrderInv'
<1>1. ASSUME NEW h \in Processes, PaymentRequest(h) \/ PaymentStep(h)
      PROVE  OrderInv'
  BY <1>1, NextActivation, PaymentOrder
<1>2. ASSUME NEW h \in Processes,
             BeginJob(h) \/ SubscriptionRequest(h) \/ SubscriptionStep(h)
      PROVE  OrderInv'
  BY <1>2, CancelOrder, JobOrder, DashboardOrder, FreePlanOrder, AdminOrder, ReviewOrder
     DEF SubscriptionRequest, SubscriptionStep
<1>3. \A h \in Processes : ~Abort(h)
  BY DEF Abort, OrderInv
<1> QED
  BY <1>1, <1>2, <1>3, SurroundingsOrder DEF Next, Request, Step, Processes

(***************************************************************************)
(* With one request at a time and no failure the newest ACTIVE             *)
(* subscription is the only one that is not due, except while a            *)
(* confirmation closes the others.                                         *)
(***************************************************************************)
THEOREM OrderInvariance ==
    ASSUME Serial, MaxFaults = 0
    PROVE  Spec => []OrderInv
<1>1. IInv /\ SerialInv /\ ActivationInv /\ OrderInv /\ [Next]_vars => OrderInv'
  BY NextOrder
<1> QED
  BY <1>1, InitOrder, Invariance, SerialInvariance, ActivationInvariance, PTL DEF Spec

(***************************************************************************)
(* AtMostOneValid: with one request at a time and no failure, between      *)
(* requests at most one subscription is valid. A crash before the others   *)
(* are closed would leave two.                                             *)
(***************************************************************************)
THEOREM OneValidAtATime ==
    ASSUME Serial, MaxFaults = 0
    PROVE  Spec => []AtMostOneValid
<1>1. ASSUME IInv, OrderInv, AllIdle PROVE Cardinality(ValidActive) <= 1
  <2>1. ~Replacing
    BY <1>1 DEF AllIdle, At, Replacing
  <2>2. NewestRuns
    BY <1>1, <2>1 DEF OrderInv
  <2>3. ASSUME NEW s \in ValidActive, NEW t \in ValidActive PROVE s = t
    <3>1. /\ s \in ActiveSubs /\ ~IsDue(subs[s], now) /\ s \in Nat
          /\ t \in ActiveSubs /\ ~IsDue(subs[t], now) /\ t \in Nat
      BY <1>1, ValidIsActive
    <3>2. ~(s < t) /\ ~(t < s)
      BY <2>2, <3>1 DEF NewestRuns
    <3> QED
      BY <3>1, <3>2
  <2>4. CASE ValidActive = {}
    BY <2>4, FS_EmptySet
  <2>5. ASSUME NEW s \in ValidActive PROVE Cardinality(ValidActive) <= 1
    <3>1. ValidActive = {s}
      BY <2>3, <2>5
    <3>2. Cardinality({s}) = 1
      BY FS_Singleton
    <3> QED
      BY <3>1, <3>2
  <2> QED
    BY <2>4, <2>5
<1>2. IInv /\ OrderInv => AtMostOneValid
  BY <1>1 DEF AtMostOneValid
<1> QED
  BY <1>2, Invariance, OrderInvariance, PTL

(***************************************************************************)
(* SchoolExpiresOnlyUnserved: with one request at a time and no failure    *)
(* the job, a dashboard and the FREE plan expire a school only when no     *)
(* subscription serves it.                                                 *)
(***************************************************************************)
THEOREM SchoolExpiresUnserved ==
    ASSUME Serial, MaxFaults = 0
    PROVE  Spec => SchoolExpiresOnlyUnserved
<1> DEFINE A == school = "ACTIVE" /\ school' = "EXPIRED" => ValidActive = {}
<1>1. IInv /\ SerialInv /\ OrderInv /\ [Next]_vars => A
  <2> SUFFICES ASSUME IInv, SerialInv, OrderInv, [Next]_vars,
                      school = "ACTIVE", school' = "EXPIRED"
               PROVE  ValidActive = {}
    OBVIOUS
  <2>1. PICK h \in Processes :
              \/ At(h, "admin.save") /\ school' = frame[h].target
              \/ At(h, "submit.save") /\ school' = "PENDING_REVIEW"
              \/ At(h, "review.save") /\ school' = frame[h].target
              \/ /\ At(h, "confirm.saveSchool")
                 /\ school' = ActivateAfterPaidSubscription(frame[h].school)
              \/ frame[h].at \in ExpiringSteps /\ school' = "EXPIRED"
    BY SchoolWritten
  <2>2. SchoolIsCurrent(h) /\ Unserved(h)
    BY DEF SerialInv, OrderInv, Current
  <2>3. CASE At(h, "admin.save") /\ school' = frame[h].target
    <3>1. frame[h].school = "ACTIVE"
      BY <2>2, <2>3 DEF At, SchoolIsCurrent, SchoolSteps, AdminSteps
    <3>2. ActiveSubs = {}
      BY <2>2, <2>3, <3>1 DEF At, Unserved
    <3> QED
      BY <3>2, ValidIsActive
  <2>4. CASE /\ At(h, "confirm.saveSchool")
             /\ school' = ActivateAfterPaidSubscription(frame[h].school)
    BY <2>2, <2>4 DEF At, SchoolIsCurrent, SchoolSteps, ActivateAfterPaidSubscription
  <2>5. CASE frame[h].at \in ExpiringSteps
    BY <2>2, <2>5 DEF ExpiringSteps, Unserved
  <2>6. CASE \/ At(h, "submit.save") /\ school' = "PENDING_REVIEW"
             \/ At(h, "review.save")
    BY <2>2, <2>6 DEF At, SchoolIsCurrent
  <2> QED
    BY <2>1, <2>3, <2>4, <2>5, <2>6
<1>2. IInv /\ SerialInv /\ OrderInv /\ [Next]_vars => [A]_vars
  BY <1>1
<1>3. Spec => [][A]_vars
  BY <1>2, Invariance, SerialInvariance, OrderInvariance, PTL DEF Spec
<1> QED
  BY <1>3 DEF SchoolExpiresOnlyUnserved
-----------------------------------------------------------------------------
\* The steps Applying speaks of.
ApplyingSteps == {"confirm.revenue", "confirm.receipt", "confirm.apply"}

\* The steps Priced speaks of.
PlannedSteps ==
    {"checkout.resolve", "checkout.newSub", "checkout.create"} \cup PricedSteps

\* Priced asks nothing of other steps.
LEMMA PricedElsewhere ==
    ASSUME NEW h \in Processes, frame'[h].at \notin PlannedSteps
    PROVE  Priced(h)'
BY DEF Priced, PlannedSteps, PricedSteps

\* While h is served nobody else applies a payment.
LEMMA NobodyApplies ==
    ASSUME SerialInv, NEW h \in Processes, Ready(h), NEW p, Applying(p)
    PROVE  frame[h].at \in ApplyingSteps /\ frame[h].p = p
<1>1. PICK g \in Processes : frame[g].p = p /\ frame[g].at \in ApplyingSteps
  BY DEF Applying, ApplyingSteps
<1>2. frame[g].at # "idle"
  BY <1>1 DEF ApplyingSteps
<1>3. g = h
  BY <1>2 DEF SerialInv, OneAtATime, Ready, At
<1> QED
  BY <1>1, <1>3

\* A step of h keeps CompletionInv when the payments and its new frame do their
\* part.
LEMMA CompletionMoved ==
    ASSUME IInv, SerialInv, CompletionInv, NEW h \in Processes, Ready(h),
           NEW f, Become(h, f), UNCHANGED planIsActive, Priced(h)',
           \A p \in Payments :
              /\ payments'[p].status # "NONE" => payments'[p].plan # FreePlan
              /\ payments'[p].status = "PAID" => p \in applied' \/ Applying(p)',
           AlreadyProcessedMeansApplied'
    PROVE  CompletionInv'
<1>1. \A g \in Processes : g # h => frame'[g].at = "idle"
  BY OthersIdle DEF SerialInv
<1>2. ASSUME NEW g \in Processes PROVE Priced(g)'
  <2>1. CASE g = h
    BY <2>1
  <2>2. CASE g # h
    <3>1. frame'[g].at \notin PlannedSteps
      BY <1>1, <2>2 DEF PlannedSteps, PricedSteps
    <3> QED
      BY <3>1, PricedElsewhere
  <2> QED
    BY <2>1, <2>2
<1> QED
  BY <1>2 DEF CompletionInv

\* A step that saves no payment keeps CompletionInv when its new frame does its
\* part, and it goes on with the payment it was applying.
LEMMA CompletionQuiet ==
    ASSUME IInv, SerialInv, CompletionInv, NEW h \in Processes, Ready(h),
           NEW f, Become(h, f), UNCHANGED <<planIsActive, payments, history>>,
           Priced(h)',
           frame[h].at \in ApplyingSteps =>
              f.at \in ApplyingSteps /\ f.p = frame[h].p
    PROVE  CompletionInv'
<1>1. frame'[h] = f
  BY Moved
<1>2. ASSUME NEW p \in Payments, payments'[p].status = "PAID"
      PROVE  p \in applied' \/ Applying(p)'
  <2>1. CASE p \in applied
    BY <2>1 DEF history
  <2>2. CASE Applying(p)
    <3>1. frame[h].at \in ApplyingSteps /\ frame[h].p = p
      BY <2>2, NobodyApplies
    <3>2. frame'[h].at \in ApplyingSteps /\ frame'[h].p = p
      BY <1>1, <3>1
    <3> QED
      BY <3>2 DEF Applying, ApplyingSteps
  <2> QED
    BY <1>2, <2>1, <2>2 DEF CompletionInv
<1>3. \A p \in Payments : payments'[p].status # "NONE" => payments'[p].plan # FreePlan
  BY DEF CompletionInv
<1>4. AlreadyProcessedMeansApplied'
  BY DEF CompletionInv, AlreadyProcessedMeansApplied, history
<1> QED
  BY <1>2, <1>3, <1>4, CompletionMoved

\* A step without a plan and a payment to apply keeps CompletionInv.
LEMMA CompletionElsewhere ==
    ASSUME IInv, SerialInv, CompletionInv, NEW h \in Processes, Ready(h),
           NEW steps, Leads(h, steps), steps \cap PlannedSteps = {},
           UNCHANGED <<planIsActive, payments, history>>,
           frame[h].at \notin ApplyingSteps
    PROVE  CompletionInv'
<1>1. PICK f : Become(h, f)
  BY DEF Leads
<1>2. Priced(h)'
  BY PricedElsewhere DEF Leads
<1> QED
  BY <1>1, <1>2, CompletionQuiet

\* A checkout: the payment is of an active, priced plan, and not yet PAID.
LEMMA CheckoutCompletion ==
    ASSUME IInv, SerialInv, CompletionInv, Serial, NEW h \in Processes,
           BeginCheckout(h) \/ CheckoutStep(h)
    PROVE  CompletionInv'
<1> USE DEF At, Goto, Begin, Ready
<1>0. /\ frame[h] \in Frame /\ FrameInv(frame[h]) /\ Current(h) /\ Priced(h)
      /\ payments \in [Payments -> Payment]
  BY FrameFacts DEF SerialInv, CompletionInv
<1>1. CASE BeginCheckout(h)
  <2>1. PICK action \in {"subscribe", "renew", "upgrade"},
             plan \in planIsActive \ {FreePlan}, s \in {0} \cup Stored :
          Become(h, [Idle EXCEPT !.at = "checkout.resolve", !.action = action,
                                 !.plan = plan, !.planIsActive = TRUE, !.s = s])
    BY <1>1 DEF BeginCheckout
  <2> DEFINE g == [Idle EXCEPT !.at = "checkout.resolve", !.action = action,
                               !.plan = plan, !.planIsActive = TRUE, !.s = s]
  <2>2. frame'[h] = g
    BY <2>1, Moved
  <2>3. g.at = "checkout.resolve" /\ g.plan = plan /\ g.planIsActive
    BY DEF Idle
  <2> HIDE DEF g
  <2>4. Priced(h)'
    BY <2>1, <2>2, <2>3 DEF Priced, PricedSteps
  <2>5. Ready(h) /\ UNCHANGED <<planIsActive, payments, history>>
        /\ frame[h].at \notin ApplyingSteps
    BY <1>1 DEF BeginCheckout, world, ApplyingSteps
  <2> QED
    BY <2>1, <2>4, <2>5, CompletionQuiet
<1>2. CASE ResolveSubscription(h) \/ CreatePendingSubscription(h) \/ GatewayAnswers(h)
  <2>1. Ready(h) /\ UNCHANGED <<planIsActive, payments, history>>
        /\ frame[h].at \notin ApplyingSteps
    BY <1>2 DEF ResolveSubscription, CreatePendingSubscription, GatewayAnswers, world,
       ApplyingSteps
  <2>2. CASE Return(h)
    BY <2>1, <2>2, ReturnLeads, CompletionElsewhere DEF PlannedSteps, PricedSteps
  <2>a. ASSUME NEW f, Become(h, f), f.plan = frame[h].plan,
               f.planIsActive = frame[h].planIsActive,
               \/ /\ frame[h].at \in {"checkout.resolve", "checkout.newSub"}
                  /\ f.at \in {"checkout.newSub", "checkout.create"}
               \/ frame[h].at = "checkout.gateway" /\ f.at = "checkout.save"
        PROVE  CompletionInv'
    <3>1. frame'[h] = f
      BY <2>a, Moved
    <3>2. Priced(h)'
      BY <1>0, <2>a, <3>1 DEF Priced, PricedSteps
    <3> QED
      BY <2>1, <2>a, <3>2, CompletionQuiet
  <2>3. CASE ResolveSubscription(h)
    <3>1. CASE Goto(h, "checkout.newSub")
      <4> DEFINE g == [frame[h] EXCEPT !.at = "checkout.newSub"]
      <4>1. g.at = "checkout.newSub" /\ g.plan = frame[h].plan
            /\ g.planIsActive = frame[h].planIsActive /\ Become(h, g)
        BY <1>0, <3>1 DEF Frame
      <4> HIDE DEF g
      <4> QED
        BY <2>3, <2>a, <4>1 DEF ResolveSubscription
    <3>2. CASE ~Goto(h, "checkout.newSub")
      <4>1. PICK s, sub : Become(h, [frame[h] EXCEPT !.at = "checkout.create",
                                                     !.s = s, !.sub = sub])
        BY <2>3, <3>2 DEF ResolveSubscription
      <4> DEFINE g == [frame[h] EXCEPT !.at = "checkout.create", !.s = s, !.sub = sub]
      <4>2. g.at = "checkout.create" /\ g.plan = frame[h].plan
            /\ g.planIsActive = frame[h].planIsActive /\ Become(h, g)
        BY <1>0, <4>1 DEF Frame
      <4> HIDE DEF g
      <4> QED
        BY <2>3, <2>a, <4>2 DEF ResolveSubscription
    <3> QED
      BY <3>1, <3>2
  <2>4. CASE CreatePendingSubscription(h)
    <3> DEFINE g == [frame[h] EXCEPT !.at = "checkout.create", !.s = NewId,
                                     !.sub = CreatePending(frame[h].plan)]
    <3>1. g.at = "checkout.create" /\ g.plan = frame[h].plan
          /\ g.planIsActive = frame[h].planIsActive
      BY <1>0 DEF Frame
    <3>2. Become(h, g)
      BY <2>4 DEF CreatePendingSubscription
    <3> HIDE DEF g
    <3> QED
      BY <2>4, <2>a, <3>1, <3>2 DEF CreatePendingSubscription
  <2>5. CASE GatewayAnswers(h) /\ ~Return(h)
    <3> DEFINE g == [frame[h] EXCEPT !.at = "checkout.save"]
    <3>1. g.at = "checkout.save" /\ g.plan = frame[h].plan
          /\ g.planIsActive = frame[h].planIsActive
      BY <1>0 DEF Frame
    <3>2. Become(h, g)
      BY <2>5 DEF GatewayAnswers
    <3> HIDE DEF g
    <3> QED
      BY <2>5, <2>a, <3>1, <3>2 DEF GatewayAnswers
  <2> QED
    BY <1>2, <2>2, <2>3, <2>4, <2>5
<1>3. CASE CreatePendingPayment(h)
  <2> DEFINE payment == CreatePayment(frame[h].plan, frame[h].s)
             g(p) == [frame[h] EXCEPT !.at = "checkout.gateway", !.p = p,
                                      !.payment = payment]
  <2>1. PICK p \in Payments :
          /\ SavePayment(p, payment)
          /\ Become(h, g(p))
    BY <1>3 DEF CreatePendingPayment
  <2>2. /\ frame'[h].at = "checkout.gateway"
        /\ frame'[h].planIsActive = frame[h].planIsActive
    <3>1. frame'[h] = g(p)
      BY <2>1, Moved
    <3> QED
      BY <1>0, <3>1 DEF Frame
  <2>3. payment.status = "PENDING" /\ payment.plan = frame[h].plan
    BY DEF CreatePayment
  <2>4. \A q \in Payments : payments'[q] = IF q = p THEN payment ELSE payments[q]
    BY <1>0, <2>1 DEF SavePayment
  <2> HIDE DEF payment, g
  <2>5. /\ Ready(h) /\ UNCHANGED <<planIsActive, history>>
        /\ frame[h].at = "checkout.create"
    BY <1>3 DEF CreatePendingPayment, world
  <2>6. Priced(h)'
    BY <1>0, <2>2, <2>5 DEF Priced, PricedSteps
  <2>7. ASSUME NEW q \in Payments, payments[q].status = "PAID" PROVE q \in applied
    BY <2>5, <2>7, NobodyApplies DEF CompletionInv, ApplyingSteps
  <2>8. \A q \in Payments :
          /\ payments'[q].status # "NONE" => payments'[q].plan # FreePlan
          /\ payments'[q].status = "PAID" => q \in applied' \/ Applying(q)'
    BY <1>0, <2>3, <2>4, <2>5, <2>7 DEF CompletionInv, Priced, history
  <2>9. AlreadyProcessedMeansApplied'
    BY <2>5 DEF CompletionInv, AlreadyProcessedMeansApplied, history
  <2> QED
    BY <2>1, <2>5, <2>6, <2>8, <2>9, CompletionMoved
<1>4. CASE SaveProcessing(h)
  <2> DEFINE payment == MarkProcessing(frame[h].payment)
             g == [frame[h] EXCEPT !.at = "confirm.save",
                    !.payment = payment, !.id = GatewayId, !.t = now]
  <2>1. /\ frame[h].p \in Payments /\ frame[h].payment = payments[frame[h].p]
        /\ frame[h].payment.status # "NONE" /\ frame[h].planIsActive
    BY <1>0, <1>4 DEF SaveProcessing, FrameInv, HoldsPayment, Current, PaymentIsCurrent,
       PayingSteps, Priced, PricedSteps
  <2>2. /\ payment.plan = payments[frame[h].p].plan
        /\ payment.status = "PAID" => payments[frame[h].p].status = "PAID"
    BY <1>0, <2>1 DEF MarkProcessing, Frame, Payment
  <2>3. \A q \in Payments : payments'[q] = IF q = frame[h].p THEN payment ELSE payments[q]
    BY <1>0, <1>4 DEF SavePayment, SaveProcessing
  <2>4. g.at = "confirm.save" /\ g.planIsActive = frame[h].planIsActive
    BY <1>0 DEF Frame
  <2>5. Become(h, g) \/ Return(h)
    BY <1>4 DEF SaveProcessing
  <2> HIDE DEF payment, g
  <2>6. (\E f : Become(h, f)) /\ Priced(h)'
    <3>1. CASE Become(h, g)
      <4>1. frame'[h] = g
        BY <3>1, Moved
      <4>2. Priced(h)'
        BY <2>1, <2>4, <4>1 DEF Priced, PricedSteps
      <4> QED
        BY <3>1, <4>2
    <3>2. CASE Return(h)
      <4>1. Leads(h, {"idle"})
        BY <3>2, ReturnLeads
      <4> QED
        BY <4>1, PricedElsewhere DEF Leads, PlannedSteps, PricedSteps
    <3> QED
      BY <2>5, <3>1, <3>2
  <2>7. Ready(h) /\ UNCHANGED <<planIsActive, history>> /\ frame[h].at = "checkout.save"
    BY <1>4 DEF SaveProcessing, world
  <2>8. ASSUME NEW q \in Payments, payments[q].status = "PAID" PROVE q \in applied
    BY <2>7, <2>8, NobodyApplies DEF CompletionInv, ApplyingSteps
  <2>9. \A q \in Payments :
          /\ payments'[q].status # "NONE" => payments'[q].plan # FreePlan
          /\ payments'[q].status = "PAID" => q \in applied' \/ Applying(q)'
    BY <2>1, <2>2, <2>3, <2>7, <2>8 DEF CompletionInv, history
  <2>10. AlreadyProcessedMeansApplied'
    BY <2>7 DEF CompletionInv, AlreadyProcessedMeansApplied, history
  <2> QED
    BY <2>6, <2>7, <2>9, <2>10, CompletionMoved
<1> QED
  BY <1>1, <1>2, <1>3, <1>4 DEF CheckoutStep

\* A confirmation: once the payment is PAID nothing stops it before the period
\* is added.
LEMMA ConfirmCompletion ==
    ASSUME IInv, SerialInv, CompletionInv, NEW h \in Processes, ConfirmStep(h)
    PROVE  CompletionInv'
<1> USE DEF At, Goto, Ready
<1>0. /\ frame[h] \in Frame /\ FrameInv(frame[h]) /\ Current(h) /\ Priced(h)
      /\ payments \in [Payments -> Payment]
  BY FrameFacts DEF SerialInv, CompletionInv
<1>a. ASSUME NEW f, Become(h, f), f.at \notin PlannedSteps, Ready(h),
             frame[h].at \notin ApplyingSteps,
             UNCHANGED <<planIsActive, payments, history>>
      PROVE  CompletionInv'
  <2>1. Leads(h, {f.at})
    BY <1>a, LeadsTo
  <2> QED
    BY <1>a, <2>1, CompletionElsewhere
<1>b. ASSUME frame[h].at \notin ApplyingSteps, Ready(h),
             NEW q \in Payments, payments[q].status = "PAID"
      PROVE  q \in applied
  BY <1>b, NobodyApplies DEF CompletionInv
<1>1. CASE FindSubscription(h)
  <2> DEFINE g == [frame[h] EXCEPT !.at = "confirm.plan", !.sub = subs[frame[h].s]]
  <2>1. g.at = "confirm.plan" /\ Become(h, g)
    BY <1>0, <1>1 DEF FindSubscription, Frame
  <2> HIDE DEF g
  <2> QED
    BY <1>1, <1>a, <2>1 DEF FindSubscription, world, PlannedSteps, PricedSteps, ApplyingSteps
<1>2. CASE FindPlan(h)
  <2> DEFINE plan == frame[h].payment.plan
             g == [frame[h] EXCEPT !.at = "confirm.save", !.plan = plan,
                    !.planIsActive = plan \in planIsActive, !.t = now]
  <2>1. /\ g.at = "confirm.save" /\ Become(h, g)
        /\ g.planIsActive = (plan \in planIsActive)
    BY <1>0, <1>2 DEF FindPlan, Frame
  <2>2. frame'[h] = g
    BY <2>1, Moved
  <2>3. /\ frame[h].p \in Payments /\ plan = payments[frame[h].p].plan
        /\ payments[frame[h].p].status # "NONE" /\ plan \in Plans
    BY <1>0, <1>2 DEF FindPlan, FrameInv, HoldsPayment, Current, PaymentIsCurrent,
       PayingSteps, Payment
  <2> HIDE DEF g, plan
  <2>4. plan \in planIsActive
    BY <2>3 DEF CompletionInv
  <2>5. Priced(h)'
    BY <2>1, <2>2, <2>4 DEF Priced, PricedSteps
  <2> QED
    BY <1>2, <2>1, <2>5, CompletionQuiet DEF FindPlan, world, ApplyingSteps
<1>3. CASE SaveConfirmed(h)
  <2> DEFINE payment == ConfirmFromGateway(frame[h].payment, frame[h].id)
             g == [frame[h] EXCEPT !.at = "confirm.revenue", !.payment = payment,
                                   !.alreadyPaid = frame[h].payment.status = "PAID"]
  <2>0. Ready(h) /\ UNCHANGED <<planIsActive, history>> /\ frame[h].at \notin ApplyingSteps
    BY <1>3 DEF SaveConfirmed, world, ApplyingSteps
  <2>1. CASE Return(h) /\ UNCHANGED payments
    <3>1. Leads(h, {"idle"})
      BY <2>1, ReturnLeads
    <3> QED
      BY <2>0, <2>1, <3>1, CompletionElsewhere DEF PlannedSteps, PricedSteps
  <2>2. CASE Become(h, g) /\ SavePayment(frame[h].p, payment)
    <3>1. /\ frame[h].p \in Payments /\ frame[h].payment = payments[frame[h].p]
          /\ payments[frame[h].p].status # "NONE" /\ frame[h].planIsActive
      BY <1>0, <1>3 DEF SaveConfirmed, FrameInv, HoldsPayment, Current, PaymentIsCurrent,
         PayingSteps, Priced, PricedSteps
    <3>2. payment.plan = payments[frame[h].p].plan
      BY <1>0, <3>1 DEF ConfirmFromGateway, Payment
    <3>3. /\ g.at = "confirm.revenue" /\ g.planIsActive = frame[h].planIsActive
          /\ g.p = frame[h].p /\ g.alreadyPaid = (frame[h].payment.status = "PAID")
      BY <1>0 DEF Frame
    <3>4. \A q \in Payments : payments'[q] = IF q = frame[h].p THEN payment ELSE payments[q]
      BY <1>0, <2>2 DEF SavePayment
    <3>5. frame'[h] = g
      BY <2>2, Moved
    <3> HIDE DEF g, payment
    <3>6. ASSUME NEW q \in Payments, q = frame[h].p PROVE Applying(q)'
      BY <3>3, <3>5, <3>6 DEF Applying
    <3>7. frame[h].payment.status = "PAID" => frame[h].p \in applied'
      BY <1>b, <2>0, <3>1 DEF history
    <3>8. Priced(h)'
      BY <3>1, <3>3, <3>5, <3>7 DEF Priced, PricedSteps
    <3>9. ASSUME NEW q \in Payments
          PROVE  /\ payments'[q].status # "NONE" => payments'[q].plan # FreePlan
                 /\ payments'[q].status = "PAID" => q \in applied' \/ Applying(q)'
      <4>1. CASE q = frame[h].p
        BY <3>1, <3>2, <3>4, <3>6, <4>1 DEF CompletionInv
      <4>2. CASE q # frame[h].p
        BY <1>b, <2>0, <3>4, <4>2 DEF CompletionInv, history
      <4> QED
        BY <4>1, <4>2
    <3>10. AlreadyProcessedMeansApplied'
      BY <2>0 DEF CompletionInv, AlreadyProcessedMeansApplied, history
    <3> QED
      BY <2>0, <2>2, <3>8, <3>9, <3>10, CompletionMoved
  <2> QED
    BY <1>3, <2>1, <2>2 DEF SaveConfirmed
<1>4. CASE PostRevenue(h)
  <2> DEFINE g == [frame[h] EXCEPT !.at = "confirm.receipt",
                                   !.duplicated = frame[h].p \in revenue]
  <2>1. /\ g.at = "confirm.receipt" /\ Become(h, g) /\ g.p = frame[h].p
        /\ g.planIsActive = frame[h].planIsActive
        /\ g.alreadyPaid = frame[h].alreadyPaid
    BY <1>0, <1>4 DEF PostRevenue, Frame
  <2>2. frame'[h] = g
    BY <2>1, Moved
  <2> HIDE DEF g
  <2>3. Ready(h) /\ UNCHANGED <<planIsActive, payments, history>>
        /\ frame[h].at = "confirm.revenue"
    BY <1>4 DEF PostRevenue, world
  <2>4. Priced(h)'
    BY <1>0, <2>1, <2>2, <2>3 DEF Priced, PricedSteps, history
  <2> QED
    BY <2>1, <2>3, <2>4, CompletionQuiet DEF ApplyingSteps
<1>5. CASE PostReceipt(h)
  <2>0. Ready(h) /\ UNCHANGED <<planIsActive, payments, applied>>
        /\ frame[h].at = "confirm.receipt" /\ frame[h].p \in Payments
    BY <1>0, <1>5 DEF PostReceipt, world, FrameInv, HoldsRecorded, Settled
  <2>1. CASE /\ frame[h].alreadyPaid
             /\ alreadyProcessed' = alreadyProcessed \cup {frame[h].p} /\ Return(h)
    <3>1. frame[h].p \in applied
      BY <1>0, <2>0, <2>1 DEF Priced
    <3>2. Leads(h, {"idle"})
      BY <2>1, ReturnLeads
    <3>3. Priced(h)' /\ \E f : Become(h, f)
      BY <3>2, PricedElsewhere DEF Leads, PlannedSteps, PricedSteps
    <3>4. ASSUME NEW q \in Payments, payments[q].status = "PAID" PROVE q \in applied
      BY <2>0, <3>1, <3>4, NobodyApplies DEF CompletionInv
    <3>5. \A q \in Payments :
            /\ payments'[q].status # "NONE" => payments'[q].plan # FreePlan
            /\ payments'[q].status = "PAID" => q \in applied' \/ Applying(q)'
      BY <2>0, <3>4 DEF CompletionInv
    <3>6. AlreadyProcessedMeansApplied'
      BY <2>0, <2>1, <3>1 DEF CompletionInv, AlreadyProcessedMeansApplied
    <3> QED
      BY <2>0, <3>3, <3>5, <3>6, CompletionMoved
  <2>2. CASE Goto(h, "confirm.apply") /\ UNCHANGED alreadyProcessed
    <3> DEFINE g == [frame[h] EXCEPT !.at = "confirm.apply"]
    <3>1. /\ g.at = "confirm.apply" /\ Become(h, g) /\ g.p = frame[h].p
          /\ g.planIsActive = frame[h].planIsActive
      BY <1>0, <2>2 DEF Frame
    <3>2. frame'[h] = g
      BY <3>1, Moved
    <3> HIDE DEF g
    <3>3. Priced(h)'
      BY <1>0, <2>0, <3>1, <3>2 DEF Priced, PricedSteps
    <3>4. UNCHANGED <<planIsActive, payments, history>>
      BY <2>0, <2>2 DEF history
    <3> QED
      BY <2>0, <3>1, <3>3, <3>4, CompletionQuiet DEF ApplyingSteps
  <2> QED
    BY <1>5, <2>1, <2>2 DEF PostReceipt
<1>6. CASE SaveSubscription(h)
  <2> DEFINE g == [Idle EXCEPT !.at = "confirm.others", !.p = frame[h].p, !.s = frame[h].s]
  <2>0. Ready(h) /\ UNCHANGED <<planIsActive, payments, alreadyProcessed>>
        /\ frame[h].at = "confirm.apply"
    BY <1>6 DEF SaveSubscription, world
  <2>1. frame[h].planIsActive
    BY <1>0, <2>0 DEF Priced, PricedSteps
  <2>2. applied' = applied \cup {frame[h].p} /\ Become(h, g)
    BY <1>6, <2>1 DEF SaveSubscription, CanApplyPayment
  <2>3. g.at = "confirm.others"
    BY DEF Idle
  <2>4. Priced(h)'
    <3>1. frame'[h] = g
      BY <2>2, Moved
    <3>2. frame'[h].at \notin PlannedSteps
      BY <2>3, <3>1 DEF PlannedSteps, PricedSteps
    <3> QED
      BY <3>2, PricedElsewhere
  <2> HIDE DEF g
  <2>5. ASSUME NEW q \in Payments, payments[q].status = "PAID" PROVE q \in applied'
    BY <2>0, <2>2, <2>5, NobodyApplies DEF CompletionInv
  <2>6. \A q \in Payments :
          /\ payments'[q].status # "NONE" => payments'[q].plan # FreePlan
          /\ payments'[q].status = "PAID" => q \in applied' \/ Applying(q)'
    BY <2>0, <2>5 DEF CompletionInv
  <2>7. AlreadyProcessedMeansApplied'
    BY <2>0, <2>2 DEF CompletionInv, AlreadyProcessedMeansApplied
  <2> QED
    BY <2>0, <2>2, <2>4, <2>6, <2>7, CompletionMoved
<1>7. CASE FindOthers(h) \/ ExpireOther(h) \/ FindSchool(h) \/ SaveActivatedSchool(h)
           \/ RecordEvent(h)
  <2>1. Ready(h) /\ UNCHANGED <<planIsActive, payments, history>>
        /\ frame[h].at \notin ApplyingSteps
    BY <1>7 DEF FindOthers, ExpireOther, FindSchool, SaveActivatedSchool, RecordEvent,
       world, ApplyingSteps
  <2>2. ASSUME NEW f, Become(h, f),
               f.at \in {"confirm.expire", "confirm.school", "confirm.event",
                         "confirm.saveSchool", "idle"}
        PROVE  CompletionInv'
    <3>1. f.at \notin PlannedSteps
      BY <2>2 DEF PlannedSteps, PricedSteps
    <3> QED
      BY <1>a, <2>1, <2>2, <3>1
  <2>3. CASE FindOthers(h)
    BY <1>0, <2>2, <2>3 DEF FindOthers, Frame
  <2>4. CASE ExpireOther(h)
    BY <1>0, <2>2, <2>4 DEF ExpireOther, Frame
  <2>5. CASE FindSchool(h)
    BY <1>0, <2>2, <2>5 DEF FindSchool, Frame
  <2>6. CASE SaveActivatedSchool(h)
    BY <1>0, <2>2, <2>6 DEF SaveActivatedSchool, Frame
  <2>7. CASE RecordEvent(h)
    BY <2>2, <2>7 DEF RecordEvent, Return, Idle
  <2> QED
    BY <1>7, <2>3, <2>4, <2>5, <2>6, <2>7
<1> QED
  BY <1>1, <1>2, <1>3, <1>4, <1>5, <1>6, <1>7 DEF ConfirmStep
\* The steps that save no payment and hold none, and those that fail one.
LEMMA OthersCompletion ==
    ASSUME IInv, SerialInv, CompletionInv, Serial, NEW h \in Processes,
           \/ BeginConfirm(h) \/ BeginFail(h) \/ BeginJob(h) \/ SubscriptionRequest(h)
           \/ SubscriptionStep(h)
    PROVE  CompletionInv'
<1>1. Ready(h) /\ UNCHANGED <<planIsActive, payments, history>>
      /\ frame[h].at \notin ApplyingSteps
  BY DEF BeginConfirm, BeginFail, BeginJob,
     SubscriptionRequest, BeginCancel, BeginDashboard, BeginFreePlan, BeginChangeStatus,
     BeginSubmit, BeginReview, ReviewStep, CheckSubscription, SaveSubmitted, SaveReview,
     SubscriptionStep, SaveCancelled, JobStep, SaveDue, CheckStillValid,
     FindSchoolOfDue, ExpireSchoolOfDue, DashboardStep, SaveLatestExpired,
     FindSchoolOfLatest, ExpireSchoolOfLatest, FreePlanStep, FindFreePlan, FindFree,
     SaveFreeExpired, ExpireSchoolOfFree, FindValidBeforeFree, CreateFree,
     AdminStep, ListActive, CloseActive, SaveGrant, SaveAdminStatus,
     Begin, Ready, At, world, ApplyingSteps
<1>2. ASSUME NEW steps, Leads(h, steps), steps \cap PlannedSteps = {}
      PROVE  CompletionInv'
  BY <1>1, <1>2, CompletionElsewhere
<1>3. CASE BeginConfirm(h)
  <2>1. \A f : Become(h, f) /\ f.at = "confirm.subscription"
                 => Leads(h, {"confirm.subscription"})
    BY LeadsTo
  <2>2. Leads(h, {"confirm.subscription"})
    BY <1>3, <2>1 DEF BeginConfirm, Idle
  <2> QED
    BY <1>2, <2>2 DEF PlannedSteps, PricedSteps
<1>4. CASE BeginFail(h)
  <2>1. \A f : Become(h, f) /\ f.at = "fail.save" => Leads(h, {"fail.save"})
    BY LeadsTo
  <2>2. Leads(h, {"fail.save"})
    BY <1>4, <2>1 DEF BeginFail, Idle
  <2> QED
    BY <1>2, <2>2 DEF PlannedSteps, PricedSteps
<1>5. CASE BeginJob(h) \/ SubscriptionRequest(h)
  <2> DEFINE T == {"cancel.save", "dashboard.save", "free.plan", "admin.list",
                   "admin.save", "submit.plan", "review.save", "job.save"}
  <2>1. ASSUME NEW f, Become(h, f), f.at \in T PROVE Leads(h, T)
    BY <2>1, LeadsTo
  <2>2. ASSUME BeginJob(h) PROVE Leads(h, T)
    BY <2>1, <2>2 DEF BeginJob, Idle
  <2>3. ASSUME BeginCancel(h) PROVE Leads(h, T)
    BY <2>1, <2>3 DEF BeginCancel, Idle
  <2>4. ASSUME BeginDashboard(h) PROVE Leads(h, T)
    BY <2>1, <2>4 DEF BeginDashboard, Idle
  <2>5. ASSUME BeginFreePlan(h) PROVE Leads(h, T)
    BY <2>1, <2>5 DEF BeginFreePlan, Idle
  <2>6. ASSUME BeginChangeStatus(h) PROVE Leads(h, T)
    BY <2>1, <2>6 DEF BeginChangeStatus, Idle
  <2>7. ASSUME BeginSubmit(h) PROVE Leads(h, T)
    BY <2>1, <2>7 DEF BeginSubmit, Idle
  <2>8. ASSUME BeginReview(h) PROVE Leads(h, T)
    BY <2>1, <2>8 DEF BeginReview, Idle
  <2>9. Leads(h, T)
    BY <1>5, <2>2, <2>3, <2>4, <2>5, <2>6, <2>7, <2>8 DEF SubscriptionRequest
  <2>10. T \cap PlannedSteps = {}
    BY DEF PlannedSteps, PricedSteps
  <2> HIDE DEF T
  <2> QED
    BY <1>2, <2>9, <2>10
<1>6. CASE SubscriptionStep(h)
  <2>1. CASE SaveCancelled(h)
    BY <1>2, <2>1, ReturnLeads DEF SaveCancelled, PlannedSteps, PricedSteps
  <2>2. CASE JobStep(h)
    BY <1>2, <2>2, JobLeads DEF PlannedSteps, PricedSteps
  <2>3. CASE DashboardStep(h)
    BY <1>2, <2>3, DashboardLeads DEF PlannedSteps, PricedSteps
  <2>4. CASE FreePlanStep(h)
    BY <1>2, <2>4, FreePlanLeads DEF PlannedSteps, PricedSteps
  <2>5. CASE AdminStep(h)
    BY <1>2, <2>5, AdminLeads DEF PlannedSteps, PricedSteps
  <2>6. CASE ReviewStep(h)
    BY <1>2, <2>6, ReviewLeads DEF PlannedSteps, PricedSteps
  <2> QED
    BY <1>6, <2>1, <2>2, <2>3, <2>4, <2>5, <2>6 DEF SubscriptionStep
<1> QED
  BY <1>3, <1>4, <1>5, <1>6

\* A failed payment is not PAID.
LEMMA FailCompletion ==
    ASSUME IInv, SerialInv, CompletionInv, NEW h \in Processes, SaveFailed(h)
    PROVE  CompletionInv'
<1>0. /\ frame[h] \in Frame /\ FrameInv(frame[h]) /\ Current(h)
      /\ payments \in [Payments -> Payment]
  BY FrameFacts DEF SerialInv
<1>1. Ready(h) /\ UNCHANGED <<planIsActive, history>> /\ frame[h].at = "fail.save"
      /\ Return(h)
  BY DEF SaveFailed, Ready, At, world
<1>2. /\ frame[h].p \in Payments /\ frame[h].payment = payments[frame[h].p]
      /\ payments[frame[h].p].status # "NONE"
  BY <1>0, <1>1 DEF FrameInv, HoldsPayment, Current, PaymentIsCurrent
<1> DEFINE payment == FailPayment(frame[h].payment)
<1>3. payment.status = "FAILED" /\ payment.plan = payments[frame[h].p].plan
  BY <1>0, <1>2 DEF FailPayment, Payment
<1>4. \A q \in Payments : payments'[q] = IF q = frame[h].p THEN payment ELSE payments[q]
  BY <1>0 DEF SavePayment, SaveFailed
<1> HIDE DEF payment
<1>5. Leads(h, {"idle"})
  BY <1>1, ReturnLeads
<1>6. Priced(h)' /\ \E f : Become(h, f)
  BY <1>5, PricedElsewhere DEF Leads, PlannedSteps, PricedSteps
<1>7. ASSUME NEW q \in Payments, payments[q].status = "PAID" PROVE q \in applied
  BY <1>1, <1>7, NobodyApplies DEF CompletionInv, ApplyingSteps
<1>8. \A q \in Payments :
        /\ payments'[q].status # "NONE" => payments'[q].plan # FreePlan
        /\ payments'[q].status = "PAID" => q \in applied' \/ Applying(q)'
  BY <1>1, <1>2, <1>3, <1>4, <1>7 DEF CompletionInv, history
<1>9. AlreadyProcessedMeansApplied'
  BY <1>1 DEF CompletionInv, AlreadyProcessedMeansApplied, history
<1> QED
  BY <1>1, <1>6, <1>8, <1>9, CompletionMoved

\* Only FREE is switched off, and no payment is of FREE.
LEMMA SurroundingsCompletion ==
    ASSUME CompletionInv, SwitchedPlans \subseteq {FreePlan},
           \/ Tick
           \/ \E plan \in SwitchedPlans, isActive \in BOOLEAN : SetPlanActive(plan, isActive)
           \/ UNCHANGED vars
    PROVE  CompletionInv'
<1>1. UNCHANGED <<payments, frame, applied, alreadyProcessed>>
  BY DEF Tick, SetPlanActive, vars, history
<1>2. Plans \ {FreePlan} \subseteq planIsActive'
  BY DEF Tick, SetPlanActive, vars, CompletionInv
<1>3. \A p \in Payments : Applying(p)' <=> Applying(p)
  BY <1>1 DEF Applying
<1>4. \A h \in Processes : Priced(h)'
  BY <1>1 DEF CompletionInv, Priced
<1> QED
  BY <1>1, <1>2, <1>3, <1>4 DEF CompletionInv, AlreadyProcessedMeansApplied

\* No payment.
LEMMA InitCompletion == Init => CompletionInv
<1> SUFFICES ASSUME Init PROVE CompletionInv
  OBVIOUS
<1>1. \A p \in Payments : payments[p].status = "NONE"
  BY DEF Init, NoPayment
<1>2. \A h \in Processes : frame[h].at = "idle"
  BY DEF Init, Idle
<1> QED
  BY <1>1, <1>2 DEF Init, CompletionInv, AlreadyProcessedMeansApplied, Priced, PricedSteps

\* Every step keeps CompletionInv.
LEMMA NextCompletion ==
    ASSUME IInv, SerialInv, OrderInv, CompletionInv, Serial, MaxFaults = 0,
           SwitchedPlans \subseteq {FreePlan}, [Next]_vars
    PROVE  CompletionInv'
<1>1. ASSUME NEW h \in Processes, PaymentRequest(h) \/ PaymentStep(h)
      PROVE  CompletionInv'
  BY <1>1, CheckoutCompletion, ConfirmCompletion, OthersCompletion, FailCompletion
     DEF PaymentRequest, PaymentStep
<1>2. ASSUME NEW h \in Processes,
             BeginJob(h) \/ SubscriptionRequest(h) \/ SubscriptionStep(h)
      PROVE  CompletionInv'
  BY <1>2, OthersCompletion
<1>3. \A h \in Processes : ~Abort(h)
  BY DEF Abort, OrderInv
<1> QED
  BY <1>1, <1>2, <1>3, SurroundingsCompletion DEF Next, Request, Step, Processes

(***************************************************************************)
(* With one request at a time, no failure and only FREE switched off, a    *)
(* payment that is PAID was applied or is being applied.                   *)
(***************************************************************************)
THEOREM CompletionInvariance ==
    ASSUME Serial, MaxFaults = 0, SwitchedPlans \subseteq {FreePlan}
    PROVE  Spec => []CompletionInv
<1>1. IInv /\ SerialInv /\ OrderInv /\ CompletionInv /\ [Next]_vars => CompletionInv'
  BY NextCompletion
<1> QED
  BY <1>1, InitCompletion, Invariance, SerialInvariance, OrderInvariance, PTL DEF Spec

(***************************************************************************)
(* AlreadyProcessedMeansApplied: with one request at a time, no failure    *)
(* and only FREE switched off, confirm() answers alreadyProcessed only     *)
(* for a payment whose period was added. A crash, or a plan switched off   *)
(* between the save of the payment and the renewal, would make it untrue.  *)
(***************************************************************************)
THEOREM AlreadyProcessedIsTrue ==
    ASSUME Serial, MaxFaults = 0, SwitchedPlans \subseteq {FreePlan}
    PROVE  Spec => []AlreadyProcessedMeansApplied
<1>1. CompletionInv => AlreadyProcessedMeansApplied
  BY DEF CompletionInv
<1> QED
  BY <1>1, CompletionInvariance, PTL
=============================================================================
