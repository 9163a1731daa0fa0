---------------------------- MODULE BillingProofs ----------------------------
(***************************************************************************)
(* For every number of concurrent requests, plans, periods, bounds, and    *)
(* under any crashes: the types, PaidServiceIsRecorded and                 *)
(* RecordedIsNotPending.                                                   *)
(*                                                                         *)
(* Neither property is inductive: a save writes what a request holds in    *)
(* memory.  IInv adds what each frame's copies still have in common with   *)
(* the rows, however stale they are: a copied subscription that had been   *)
(* activated has a recorded payment still, and a payment once settled is   *)
(* still settled.  Both only grow (Stable), so other requests' frames keep *)
(* their part whatever this one saves.                                     *)
(***************************************************************************)
EXTENDS Billing, TLAPS

\* Steps that hold a payment and the subscription it pays.
PayingSteps ==
    {"checkout.gateway", "checkout.save", "confirm.subscription",
     "confirm.plan", "confirm.save", "confirm.revenue", "confirm.receipt",
     "confirm.apply"}

\* Steps that hold a subscription read as ACTIVE, to save it changed.
OverwritingSteps == {"cancel.save", "dashboard.save", "free.save"}

Settled == {p \in Payments : payments[p].status \notin {"NONE", "PENDING"}}

HoldsPayment(f) ==
    f.at \in PayingSteps \cup {"fail.save"} =>
        /\ f.p \in Payments
        /\ payments[f.p].status # "NONE"
        /\ payments[f.p].sub = f.payment.sub
        /\ f.payment.status # "NONE"

HoldsSubscription(f) ==
    /\ f.at \in PayingSteps => f.payment.sub = f.s
    /\ f.at \in PayingSteps \cup {"checkout.create"} => f.s \in Subs
    /\ f.at = "checkout.resolve" /\ f.action # "subscribe" => f.s \in Subs

HoldsRecorded(f) ==
    /\ f.at \in {"confirm.revenue", "confirm.receipt", "confirm.apply"} =>
          f.p \in Settled
    /\ f.at \in {"confirm.receipt", "confirm.apply"} => f.p \in revenue

HoldsPaidRows(f) ==
    /\ f.at \in OverwritingSteps /\ f.sub.origin = "checkout"
          => RecordedFor(f.s) # {}
    /\ \A item \in f.rest :
          item.row.origin = "checkout" => RecordedFor(item.id) # {}

FrameInv(f) ==
    /\ HoldsPayment(f)
    /\ HoldsSubscription(f)
    /\ HoldsRecorded(f)
    /\ HoldsPaidRows(f)

PaymentsBelong ==
    \A p \in Payments : payments[p].status # "NONE" => payments[p].sub \in Subs

RecordedIsSettled == revenue \cup applied \subseteq Settled

DbInv ==
    /\ PaymentsBelong
    /\ RecordedIsSettled
    /\ PaidServiceIsRecorded

IInv == TypeOK /\ DbInv /\ \A h \in Processes : FrameInv(frame[h])

\* What no step takes back.
Stable ==
    /\ revenue \subseteq revenue'
    /\ \A p \in Payments :
          payments[p].status # "NONE" =>
              /\ payments'[p].status # "NONE"
              /\ payments'[p].sub = payments[p].sub
    /\ Settled \subseteq Settled'

-----------------------------------------------------------------------------
\* The absent rows and the idle frame have their types.
LEMMA IdleType == /\ NoSub \in Subscription
                  /\ NoPayment \in Payment
                  /\ Idle \in Frame
BY PlansAssumption DEF NoSub, NoPayment, Idle, Frame, Subscription, Payment,
   NoDate, Steps, SchoolStatus

\* Ids are numbers.
LEMMA IdsAreNat == Subs \subseteq Nat /\ Payments \subseteq Nat
BY BoundsAssumption DEF Subs, Payments

\* An idle frame holds nothing that could be stale.
LEMMA IdleInv == FrameInv(Idle) /\ FrameInv(Idle)'
BY DEF FrameInv, HoldsPayment, HoldsSubscription, HoldsRecorded, HoldsPaidRows,
   Idle, PayingSteps, OverwritingSteps

\* The initial state has no rows and only idle frames.
LEMMA InitIInv == Init => IInv
<1> SUFFICES ASSUME Init PROVE IInv
  OBVIOUS
<1>1. TypeOK
  BY IdleType DEF Init, TypeOK, SchoolStatus
<1>2. DbInv
  BY DEF Init, DbInv, PaymentsBelong, RecordedIsSettled, PaidServiceIsRecorded,
     Stored, NoSub, NoPayment
<1>3. \A h \in Processes : FrameInv(frame[h])
  BY IdleInv DEF Init
<1> QED
  BY <1>1, <1>2, <1>3 DEF IInv

\* A recorded payment of a subscription stays one.
LEMMA RecordedForGrows ==
    ASSUME TypeOK, RecordedIsSettled, Stable, NEW s, RecordedFor(s) # {}
    PROVE  RecordedFor(s)' # {}
<1>1. PICK p \in RecordedFor(s) : TRUE
  OBVIOUS
<1>2. p \in revenue /\ payments[p].sub = s /\ p \in Payments /\ payments[p].status # "NONE"
  BY <1>1 DEF RecordedFor, TypeOK, RecordedIsSettled, Settled
<1>3. p \in revenue' /\ payments'[p].sub = s
  BY <1>2 DEF Stable
<1> QED
  BY <1>3 DEF RecordedFor

\* What a frame holds stays true while the frame does not change.
LEMMA FrameInvStable ==
    ASSUME TypeOK, RecordedIsSettled, Stable, NEW f \in Frame, FrameInv(f)
    PROVE  FrameInv(f)'
<1>1. HoldsPayment(f)'
  BY DEF FrameInv, HoldsPayment, Stable
<1>2. HoldsSubscription(f)'
  BY DEF FrameInv, HoldsSubscription
<1>3. HoldsRecorded(f)'
  BY DEF FrameInv, HoldsRecorded, Stable
<1>4. HoldsPaidRows(f)'
  BY RecordedForGrows DEF FrameInv, HoldsPaidRows
<1> QED
  BY <1>1, <1>2, <1>3, <1>4 DEF FrameInv

\* The frames' part of a step: the request that moves, and the others.
LEMMA FramesKept ==
    ASSUME IInv, Stable, NEW h \in Processes, NEW f \in Frame, Become(h, f),
           FrameInv(f)'
    PROVE  /\ frame' \in [Processes -> Frame]
           /\ (\A g \in Processes : FrameInv(frame[g]))'
<1>1. frame' \in [Processes -> Frame]
  BY DEF IInv, TypeOK, Become
<1>2. \A g \in Processes : frame'[g] = IF g = h THEN f ELSE frame[g]
  BY DEF IInv, TypeOK, Become
<1>3. ASSUME NEW g \in Processes PROVE FrameInv(frame[g])'
  <2>1. CASE g = h
    BY <2>1, <1>2
  <2>2. CASE g # h
    <3>1. frame[g] \in Frame /\ FrameInv(frame[g])
      BY DEF IInv, TypeOK
    <3>2. \A k \in {frame[g]} : FrameInv(k)'
      BY <3>1, FrameInvStable DEF IInv, DbInv
    <3>. QED
      BY <2>2, <1>2, <3>2
  <2>. QED
    BY <2>1, <2>2
<1> QED
  BY <1>1, <1>3

-----------------------------------------------------------------------------
(* What the kinds of steps have in common.                                 *)

\* A step that writes no row of billing: a read, an answer, a crash, a save of
\* the school.
LEMMA RowsUntouched ==
    ASSUME IInv, NEW h \in Processes, NEW f \in Frame, Become(h, f), FrameInv(f),
           UNCHANGED <<subs, payments, ledger, history>>,
           now' \in Nat, planIsActive' \in SUBSET Plans,
           school' \in SchoolStatus, faults' \in Nat
    PROVE  IInv'
<1>1. Stable
  BY DEF Stable, Settled, ledger
<1>2. FrameInv(f)'
  BY DEF FrameInv, HoldsPayment, HoldsSubscription, HoldsRecorded, HoldsPaidRows,
     Settled, RecordedFor, ledger
<1>3. DbInv'
  BY DEF IInv, DbInv, PaymentsBelong, RecordedIsSettled, PaidServiceIsRecorded,
     Settled, RecordedFor, Stored, ledger, history
<1>4. /\ frame' \in [Processes -> Frame]
      /\ (\A g \in Processes : FrameInv(frame[g]))'
  BY <1>1, <1>2, FramesKept
<1>5. TypeOK'
  BY <1>4 DEF IInv, TypeOK, ledger, history
<1> QED
  BY <1>3, <1>4, <1>5 DEF IInv

\* A step that saves one subscription: if it leaves a checkout's subscription
\* activated, a payment of it is recorded.
LEMMA SubscriptionSaved ==
    ASSUME IInv, NEW h \in Processes, NEW f \in Frame, Become(h, f), FrameInv(f),
           NEW s \in Nat, NEW row \in Subscription, SaveSub(s, row),
           row.origin = "checkout" /\ row.status # "PENDING" => RecordedFor(s) # {},
           UNCHANGED <<world, school, payments, ledger, alreadyProcessed>>,
           applied' \subseteq Settled
    PROVE  IInv'
<1>1. Stable
  BY DEF Stable, Settled, ledger
<1>2. FrameInv(f)'
  BY DEF FrameInv, HoldsPayment, HoldsSubscription, HoldsRecorded, HoldsPaidRows,
     Settled, RecordedFor, ledger
<1>3. subs' \in [Subs -> Subscription]
  BY DEF IInv, TypeOK, SaveSub
<1>4. \A other \in Subs : subs'[other] = IF other = s THEN row ELSE subs[other]
  BY DEF IInv, TypeOK, SaveSub
<1>5. PaidServiceIsRecorded'
  BY <1>4 DEF IInv, DbInv, PaidServiceIsRecorded, Stored, RecordedFor, ledger
<1>6. DbInv'
  BY <1>5 DEF IInv, DbInv, PaymentsBelong, RecordedIsSettled, Settled, ledger
<1>7. /\ frame' \in [Processes -> Frame]
      /\ (\A g \in Processes : FrameInv(frame[g]))'
  BY <1>1, <1>2, FramesKept
<1>8. TypeOK'
  BY <1>3, <1>7 DEF IInv, TypeOK, Settled, world, ledger
<1> QED
  BY <1>6, <1>7, <1>8 DEF IInv

\* A step that saves one payment that exists, of the same subscription: it is
\* settled then, or it was not before.
LEMMA PaymentSaved ==
    ASSUME IInv, NEW h \in Processes, NEW f \in Frame, Become(h, f),
           FrameInv(f) \/ FrameInv(f)',
           NEW p \in Payments, NEW row \in Payment, SavePayment(p, row),
           payments[p].status # "NONE", row.sub = payments[p].sub,
           row.status \notin {"NONE", "PENDING"},
           UNCHANGED <<world, school, subs, ledger, history>>
    PROVE  IInv'
<1>1. payments' \in [Payments -> Payment]
  BY DEF IInv, TypeOK, SavePayment
<1>2. \A q \in Payments : payments'[q] = IF q = p THEN row ELSE payments[q]
  BY DEF IInv, TypeOK, SavePayment
<1>3. Stable
  BY <1>2 DEF Stable, Settled, ledger
<1>4. PaymentsBelong'
  BY <1>2 DEF IInv, DbInv, PaymentsBelong
<1>5. RecordedIsSettled'
  BY <1>3 DEF IInv, DbInv, RecordedIsSettled, Stable, ledger, history
<1>6. PaidServiceIsRecorded'
  BY <1>3, RecordedForGrows DEF IInv, DbInv, PaidServiceIsRecorded, Stored
<1>7. /\ frame' \in [Processes -> Frame]
      /\ (\A g \in Processes : FrameInv(frame[g]))'
  <2>1. FrameInv(f)'
    BY <1>3, FrameInvStable DEF IInv, DbInv
  <2> QED
    BY <1>3, <2>1, FramesKept
<1>8. TypeOK'
  BY <1>1, <1>7 DEF IInv, TypeOK, world, ledger, history
<1> QED
  BY <1>4, <1>5, <1>6, <1>7, <1>8 DEF IInv, DbInv

\* Rows read while ACTIVE are typed, and paid for if a checkout began them.
LEMMA ReadRowsInv ==
    ASSUME IInv, NEW ids \in SUBSET ActiveSubs
    PROVE  /\ ReadRows(ids) \in SUBSET Rows
           /\ \A item \in ReadRows(ids) :
                 item.row.origin = "checkout" => RecordedFor(item.id) # {}
BY DEF IInv, DbInv, TypeOK, PaidServiceIsRecorded, ActiveSubs, Stored, ReadRows, Rows

\* The frame of a request, and what is known of it.
LEMMA FrameFacts ==
    ASSUME IInv, NEW h \in Processes
    PROVE  /\ frame[h] \in Frame
           /\ FrameInv(frame[h])
           /\ now \in Nat /\ planIsActive \in SUBSET Plans
           /\ school \in SchoolStatus /\ faults \in Nat
           /\ subs \in [Subs -> Subscription]
           /\ payments \in [Payments -> Payment]
BY DEF IInv, TypeOK

\* A request that answers or throws without saving billing rows.
LEMMA ReturnIInv ==
    ASSUME IInv, NEW h \in Processes, Return(h),
           UNCHANGED <<subs, payments, ledger, history>>,
           now' \in Nat, planIsActive' \in SUBSET Plans,
           school' \in SchoolStatus, faults' \in Nat
    PROVE  IInv'
BY IdleType, IdleInv, RowsUntouched DEF Return

\* Steps whose frame holds no row that is used again.
QuietSteps ==
    Steps \ (PayingSteps \cup OverwritingSteps
                \cup {"fail.save", "checkout.create", "checkout.resolve"})

\* A request that goes on to a step that uses only what it went through before.
LEMMA QuietFrame ==
    ASSUME IInv, NEW h \in Processes, NEW step \in QuietSteps
    PROVE  /\ [frame[h] EXCEPT !.at = step] \in Frame
           /\ FrameInv([frame[h] EXCEPT !.at = step])
<1>1. frame[h] \in Frame /\ FrameInv(frame[h])
  BY FrameFacts
<1>2. [frame[h] EXCEPT !.at = step] \in Frame
  BY <1>1 DEF Frame, QuietSteps
<1>3. FrameInv([frame[h] EXCEPT !.at = step])
  BY <1>1 DEF Frame, FrameInv, HoldsPayment, HoldsSubscription, HoldsRecorded,
     HoldsPaidRows, QuietSteps, PayingSteps, OverwritingSteps
<1> QED
  BY <1>2, <1>3

\* ... while no row of billing is written.
LEMMA QuietGoto ==
    ASSUME IInv, NEW h \in Processes, NEW step \in QuietSteps, Goto(h, step),
           UNCHANGED <<world, subs, payments, ledger, history>>,
           school' \in SchoolStatus
    PROVE  IInv'
BY QuietFrame, FrameFacts, RowsUntouched DEF Goto, world

-----------------------------------------------------------------------------
(* The checkout.                                                           *)

\* The checkout keeps IInv.
LEMMA CheckoutIInv ==
    ASSUME IInv, NEW h \in Processes, BeginCheckout(h) \/ CheckoutStep(h)
    PROVE  IInv'
<1> DEFINE f == frame[h]
<1>0. /\ f \in Frame /\ FrameInv(f)
      /\ now \in Nat /\ school \in SchoolStatus /\ faults \in Nat
      /\ planIsActive \in SUBSET Plans
      /\ subs \in [Subs -> Subscription]
      /\ payments \in [Payments -> Payment]
  BY FrameFacts
<1>1. CASE BeginCheckout(h)
  <2>1. PICK action \in {"subscribe", "renew", "upgrade"},
             plan \in planIsActive \ {FreePlan}, s \in {0} \cup Stored :
          /\ (s = 0) <=> (action = "subscribe")
          /\ Become(h, [Idle EXCEPT !.at = "checkout.resolve", !.action = action,
                                    !.plan = plan, !.planIsActive = TRUE, !.s = s])
    BY <1>1 DEF BeginCheckout
  <2> DEFINE g == [Idle EXCEPT !.at = "checkout.resolve", !.action = action,
                               !.plan = plan, !.planIsActive = TRUE, !.s = s]
  <2>2. g \in Frame
    <3>1. s \in Nat /\ plan \in Plans
      BY <1>0, IdsAreNat DEF Stored
    <3> QED
      BY <3>1, IdleType DEF Frame, Steps
  <2>3. FrameInv(g)
    BY <2>1 DEF FrameInv, HoldsPayment, HoldsSubscription, HoldsRecorded,
       HoldsPaidRows, Idle, PayingSteps, OverwritingSteps, Stored
  <2> QED
    BY <1>0, <1>1, <2>1, <2>2, <2>3, RowsUntouched DEF BeginCheckout, world
<1>2. CASE ResolveSubscription(h)
  <2>1. CASE Goto(h, "checkout.newSub")
    BY <1>0, <1>2, <2>1, QuietGoto DEF ResolveSubscription, QuietSteps, Steps,
       PayingSteps, OverwritingSteps
  <2>2. CASE ~Goto(h, "checkout.newSub")
    <3>1. PICK s \in IF f.action = "subscribe"
                     THEN {x \in Newest(ValidActive) : subs[x].plan = f.plan}
                     ELSE {f.s} :
            Become(h, [f EXCEPT !.at = "checkout.create", !.s = s,
                       !.sub = IF f.action = "upgrade"
                               THEN ChangePlan(subs[s], f.plan) ELSE subs[s]])
      BY <1>2, <2>2 DEF ResolveSubscription
    <3> DEFINE g == [f EXCEPT !.at = "checkout.create", !.s = s,
                       !.sub = IF f.action = "upgrade"
                               THEN ChangePlan(subs[s], f.plan) ELSE subs[s]]
    <3>2. s \in Subs
      BY <1>0, <1>2, <3>1 DEF Newest, ValidActive, Stored, FrameInv, HoldsSubscription,
         ResolveSubscription, At
    <3>3. ChangePlan(subs[s], f.plan) \in Subscription /\ subs[s] \in Subscription
      BY <1>0, <3>2 DEF ChangePlan, Subscription, Frame
    <3>4. g \in Frame
      <4>1. s \in Nat
        BY <3>2, IdsAreNat
      <4> QED
        BY <1>0, <3>3, <4>1 DEF Frame, Steps
    <3>5. FrameInv(g)
      BY <1>0, <3>2 DEF FrameInv, HoldsPayment, HoldsSubscription, HoldsRecorded,
         HoldsPaidRows, PayingSteps, OverwritingSteps, Frame
    <3> QED
      BY <1>0, <1>2, <3>1, <3>4, <3>5, RowsUntouched DEF ResolveSubscription, world
  <2> QED
    BY <2>1, <2>2
<1>3. CASE CreatePendingSubscription(h)
  <2> DEFINE g == [f EXCEPT !.at = "checkout.create", !.s = NewId,
                            !.sub = CreatePending(f.plan)]
  <2>1. CreatePending(f.plan) \in Subscription
    BY <1>0 DEF CreatePending, NewSubscription, Subscription, NoDate, Frame
  <2>2. NewId \in Subs /\ NewId \in Nat
    BY <1>3, BoundsAssumption DEF CreatePendingSubscription, Subs
  <2>3. g \in Frame
    BY <1>0, <2>1, <2>2 DEF Frame, Steps
  <2>4. FrameInv(g)
    BY <1>0, <2>2 DEF FrameInv, HoldsPayment, HoldsSubscription, HoldsRecorded,
       HoldsPaidRows, PayingSteps, OverwritingSteps, Frame
  <2>5. CreatePending(f.plan).status = "PENDING"
    BY DEF CreatePending, NewSubscription
  <2>6. applied' \subseteq Settled /\ alreadyProcessed' = alreadyProcessed
    BY <1>3 DEF CreatePendingSubscription, history, IInv, DbInv, RecordedIsSettled
  <2> QED
    BY <1>3, <2>1, <2>2, <2>3, <2>4, <2>5, <2>6, SubscriptionSaved
    DEF CreatePendingSubscription
<1>4. CASE CreatePendingPayment(h)
  <2>0. PICK fr \in Frame : fr = f
    BY <1>0
  <2> DEFINE payment == CreatePayment(fr.plan, fr.s)
  <2>1. PICK p \in Payments :
          /\ payments[p].status = "NONE"
          /\ SavePayment(p, payment)
          /\ Become(h, [fr EXCEPT !.at = "checkout.gateway", !.p = p,
                                  !.payment = payment])
    BY <1>4, <2>0 DEF CreatePendingPayment
  <2> DEFINE g == [fr EXCEPT !.at = "checkout.gateway", !.p = p, !.payment = payment]
  <2>2. fr.s \in Subs /\ fr.at = "checkout.create" /\ FrameInv(fr)
    BY <1>0, <1>4, <2>0 DEF CreatePendingPayment, At, FrameInv, HoldsSubscription
  <2>3. payment \in Payment /\ payment.status = "PENDING" /\ payment.sub = fr.s
    BY <1>0, <2>0 DEF CreatePayment, Payment, Frame
  <2>4. g \in Frame
    <3>1. p \in Nat
      BY IdsAreNat
    <3> QED
      BY <1>0, <2>3, <3>1 DEF Frame, Steps
  <2>5. payments' \in [Payments -> Payment]
    BY <1>0, <2>1, <2>3 DEF SavePayment
  <2>6. \A q \in Payments : payments'[q] = IF q = p THEN payment ELSE payments[q]
    BY <1>0, <2>1 DEF SavePayment
  <2>7. Stable
    BY <1>4, <2>1, <2>6 DEF Stable, Settled, CreatePendingPayment, ledger
  <2>8. FrameInv(g)'
    <3>1. HoldsPaidRows(g)'
      BY <2>2, <2>7, RecordedForGrows
      DEF FrameInv, HoldsPaidRows, OverwritingSteps, Frame, IInv, DbInv
    <3> QED
      BY <2>2, <2>3, <2>6, <3>1 DEF FrameInv, HoldsPayment, HoldsSubscription,
         HoldsRecorded, PayingSteps, Frame
  <2>9. /\ frame' \in [Processes -> Frame]
        /\ (\A k \in Processes : FrameInv(frame[k]))'
    BY <2>1, <2>4, <2>7, <2>8, FramesKept
  <2>10. PaymentsBelong' /\ RecordedIsSettled'
    BY <1>4, <2>2, <2>3, <2>6, <2>7 DEF PaymentsBelong, RecordedIsSettled, IInv, DbInv,
       Stable, CreatePendingPayment, ledger, history
  <2>11. PaidServiceIsRecorded'
    BY <1>4, <2>7, RecordedForGrows DEF IInv, DbInv, PaidServiceIsRecorded, Stored,
       CreatePendingPayment
  <2>12. TypeOK'
    BY <1>4, <2>5, <2>9 DEF IInv, TypeOK, CreatePendingPayment, world, ledger, history
  <2> QED
    BY <2>9, <2>10, <2>11, <2>12 DEF IInv, DbInv
<1>5. CASE GatewayAnswers(h)
  <2>1. CASE Goto(h, "checkout.save")
    <3> DEFINE g == [f EXCEPT !.at = "checkout.save"]
    <3>1. g \in Frame
      BY <1>0 DEF Frame, Steps
    <3>2. FrameInv(g)
      BY <1>0, <1>5 DEF GatewayAnswers, At, FrameInv, HoldsPayment, HoldsSubscription,
         HoldsRecorded, HoldsPaidRows, PayingSteps, OverwritingSteps, Frame
    <3> QED
      BY <1>0, <1>5, <2>1, <3>1, <3>2, RowsUntouched DEF GatewayAnswers, Goto, world
  <2>2. CASE Return(h)
    BY <1>0, <1>5, <2>2, ReturnIInv DEF GatewayAnswers, world
  <2> QED
    BY <1>5, <2>1, <2>2 DEF GatewayAnswers
<1>6. CASE SaveProcessing(h)
  <2> DEFINE payment == MarkProcessing(f.payment)
  <2> DEFINE g == IF Simulated
                  THEN [f EXCEPT !.at = "confirm.save", !.payment = payment,
                                 !.id = GatewayId, !.t = now]
                  ELSE Idle
  <2>1. /\ f.at = "checkout.save"
        /\ SavePayment(f.p, payment)
        /\ Become(h, g)
    BY <1>6 DEF SaveProcessing, At, Return
  <2>2. /\ f.p \in Payments /\ payments[f.p].status # "NONE"
        /\ payments[f.p].sub = f.payment.sub /\ f.payment.sub = f.s /\ f.s \in Subs
    BY <1>0, <2>1 DEF FrameInv, HoldsPayment, HoldsSubscription, PayingSteps
  <2>3. /\ payment \in Payment /\ payment.sub = f.s
        /\ payment.status \notin {"NONE", "PENDING"}
    <3>1. f.payment.status # "NONE"
      BY <1>0, <2>1 DEF FrameInv, HoldsPayment, PayingSteps
    <3> QED
      BY <1>0, <2>2, <3>1 DEF MarkProcessing, Payment, Frame
  <2>4. g \in Frame
    <3>1. GatewayId \in ExternalIds \cup {NoId}
      BY IdsAssumption
    <3>2. [f EXCEPT !.at = "confirm.save", !.payment = payment,
                    !.id = GatewayId, !.t = now] \in Frame
      BY <1>0, <2>3, <3>1 DEF Frame, Steps
    <3> QED
      BY <3>2, IdleType
  <2>5. FrameInv(g)
    BY <1>0, <2>2, <2>3, IdleInv DEF FrameInv, HoldsPayment, HoldsSubscription,
       HoldsRecorded, HoldsPaidRows, PayingSteps, OverwritingSteps, Frame
  <2>6. PICK fr \in Frame : fr = g
    BY <2>4
  <2> QED
    BY <1>6, <2>1, <2>2, <2>3, <2>5, <2>6, PaymentSaved DEF SaveProcessing
<1> QED
  BY <1>1, <1>2, <1>3, <1>4, <1>5, <1>6 DEF CheckoutStep

-----------------------------------------------------------------------------
(* The confirmation.                                                       *)

\* The reads before confirm() keep IInv.
LEMMA ReadsIInv ==
    ASSUME IInv, NEW h \in Processes,
           BeginConfirm(h) \/ FindSubscription(h) \/ FindPlan(h)
    PROVE  IInv'
<1> DEFINE f == frame[h]
<1>0. /\ f \in Frame /\ FrameInv(f)
      /\ now \in Nat /\ school \in SchoolStatus /\ faults \in Nat
      /\ planIsActive \in SUBSET Plans
      /\ subs \in [Subs -> Subscription]
      /\ payments \in [Payments -> Payment]
  BY FrameFacts
<1>1. CASE BeginConfirm(h)
  <2>1. PICK p \in Payments, id \in ExternalIds :
          /\ payments[p].status # "NONE"
          /\ Become(h, [Idle EXCEPT
                !.at = "confirm.subscription", !.p = p, !.payment = payments[p],
                !.s = payments[p].sub, !.id = id])
    BY <1>0, <1>1, IdsAssumption DEF BeginConfirm, Payment
  <2> DEFINE g == [Idle EXCEPT
                !.at = "confirm.subscription", !.p = p, !.payment = payments[p],
                !.s = payments[p].sub, !.id = id]
  <2>2. p \in Nat /\ payments[p] \in Payment /\ payments[p].sub \in Subs
        /\ payments[p].sub \in Nat
    BY <1>0, <2>1, IdsAreNat DEF IInv, DbInv, PaymentsBelong
  <2>3. g \in Frame
    BY <2>2, IdleType DEF Frame, Steps
  <2>4. FrameInv(g)
    BY <2>1, <2>2 DEF FrameInv, HoldsPayment, HoldsSubscription, HoldsRecorded,
       HoldsPaidRows, Idle, PayingSteps, OverwritingSteps
  <2> QED
    BY <1>0, <1>1, <2>1, <2>3, <2>4, RowsUntouched DEF BeginConfirm, world
<1>2. CASE FindSubscription(h)
  <2> DEFINE g == [f EXCEPT !.at = "confirm.plan", !.sub = subs[f.s]]
  <2>1. f.at = "confirm.subscription" /\ f.s \in Subs
    BY <1>0, <1>2 DEF FindSubscription, At, FrameInv, HoldsSubscription, PayingSteps
  <2>2. g \in Frame
    <3>1. subs[f.s] \in Subscription
      BY <1>0, <2>1
    <3> QED
      BY <1>0, <3>1 DEF Frame, Steps
  <2>3. FrameInv(g)
    BY <1>0, <2>1 DEF FrameInv, HoldsPayment, HoldsSubscription, HoldsRecorded,
       HoldsPaidRows, PayingSteps, OverwritingSteps, Frame
  <2> QED
    BY <1>0, <1>2, <2>2, <2>3, RowsUntouched DEF FindSubscription, world
<1>3. CASE FindPlan(h)
  <2> DEFINE plan == f.payment.plan
             g == [f EXCEPT !.at = "confirm.save", !.plan = plan,
                            !.planIsActive = plan \in planIsActive, !.t = now]
  <2>1. f.at = "confirm.plan"
    BY <1>3 DEF FindPlan, At
  <2>2. plan \in Plans
    BY <1>0 DEF Frame, Payment
  <2>3. g \in Frame
    <3>1. (plan \in planIsActive) \in BOOLEAN
      OBVIOUS
    <3> HIDE DEF plan
    <3>2. \A b \in BOOLEAN : [f EXCEPT !.at = "confirm.save", !.plan = plan,
                                       !.planIsActive = b, !.t = now] \in Frame
      BY <1>0, <2>2 DEF Frame, Steps
    <3> QED
      BY <3>1, <3>2
  <2>4. FrameInv(g)
    BY <1>0, <2>1 DEF FrameInv, HoldsPayment, HoldsSubscription, HoldsRecorded,
       HoldsPaidRows, PayingSteps, OverwritingSteps, Frame
  <2> QED
    BY <1>0, <1>3, <2>3, <2>4, RowsUntouched DEF FindPlan, world
<1> QED
  BY <1>1, <1>2, <1>3

\* A step that posts to the ledger for a payment that is settled.
LEMMA LedgerPosted ==
    ASSUME IInv, NEW h \in Processes, NEW f \in Frame, Become(h, f), FrameInv(f)',
           revenue \subseteq revenue', revenue' \subseteq Settled,
           receipt' \subseteq Payments, alreadyProcessed' \subseteq Payments,
           UNCHANGED <<world, school, subs, payments, applied>>
    PROVE  IInv'
<1>1. Stable
  BY DEF Stable, Settled
<1>2. /\ frame' \in [Processes -> Frame]
      /\ (\A g \in Processes : FrameInv(frame[g]))'
  BY <1>1, FramesKept
<1>3. PaidServiceIsRecorded'
  BY <1>1, RecordedForGrows DEF IInv, DbInv, PaidServiceIsRecorded, Stored
<1>4. PaymentsBelong' /\ RecordedIsSettled'
  BY DEF IInv, DbInv, PaymentsBelong, RecordedIsSettled, Settled
<1>5. TypeOK'
  BY <1>2 DEF IInv, TypeOK, world, Settled
<1> QED
  BY <1>2, <1>3, <1>4, <1>5 DEF IInv, DbInv

\* Saving the confirmed payment keeps IInv: what is saved is settled.
LEMMA SaveConfirmedIInv ==
    ASSUME IInv, NEW h \in Processes, SaveConfirmed(h)
    PROVE  IInv'
<1>0. PICK f \in Frame : f = frame[h] /\ FrameInv(f) /\ f.at = "confirm.save"
  BY FrameFacts DEF SaveConfirmed, At
<1> DEFINE payment == ConfirmFromGateway(f.payment, f.id)
<1>1. CASE ~CanConfirm(f.payment, f.id)
  BY <1>0, <1>1, FrameFacts, ReturnIInv DEF SaveConfirmed, world
<1>2. CASE CanConfirm(f.payment, f.id)
  <2> DEFINE g == [f EXCEPT !.at = "confirm.revenue", !.payment = payment,
                            !.alreadyPaid = f.payment.status = "PAID"]
  <2>1. SavePayment(f.p, payment) /\ Become(h, g)
    BY <1>0, <1>2 DEF SaveConfirmed
  <2>2. /\ f.p \in Payments /\ payments[f.p].status # "NONE"
        /\ payments[f.p].sub = f.payment.sub /\ f.payment.sub = f.s /\ f.s \in Subs
    BY <1>0 DEF FrameInv, HoldsPayment, HoldsSubscription, PayingSteps
  <2>3. payment \in Payment /\ payment.sub = f.s /\ payment.status = "PAID"
    BY <2>2 DEF ConfirmFromGateway, Payment, Frame
  <2>4. g \in Frame
    <3>1. (f.payment.status = "PAID") \in BOOLEAN
      OBVIOUS
    <3> HIDE DEF payment
    <3>2. \A b \in BOOLEAN : [f EXCEPT !.at = "confirm.revenue", !.payment = payment,
                                       !.alreadyPaid = b] \in Frame
      BY <2>3 DEF Frame, Steps
    <3> QED
      BY <3>1, <3>2
  <2>5. \A q \in Payments : payments'[q] = IF q = f.p THEN payment ELSE payments[q]
    BY <2>1, FrameFacts DEF SavePayment
  <2>6. Stable
    BY <1>0, <2>2, <2>3, <2>5 DEF Stable, Settled, SaveConfirmed, ledger
  <2>7. FrameInv(g)'
    <3>1. HoldsPaidRows(g)'
      BY <1>0, <2>6, RecordedForGrows
      DEF FrameInv, HoldsPaidRows, OverwritingSteps, Frame, IInv, DbInv
    <3>2. HoldsPayment(g)' /\ HoldsSubscription(g)'
      BY <2>2, <2>3, <2>5 DEF HoldsPayment, HoldsSubscription, PayingSteps, Frame
    <3>3. HoldsRecorded(g)'
      BY <2>2, <2>3, <2>5 DEF HoldsRecorded, Settled, Frame
    <3> QED
      BY <3>1, <3>2, <3>3 DEF FrameInv
  <2>8. PICK fr \in Frame : fr = g
    BY <2>4
  <2>9. UNCHANGED <<world, school, subs, ledger, history>>
    BY DEF SaveConfirmed
  <2>10. /\ payments[f.p].status # "NONE" /\ payment.sub = payments[f.p].sub
         /\ payment.status \notin {"NONE", "PENDING"}
    BY <2>2, <2>3
  <2> HIDE DEF payment, g
  <2>11. Become(h, fr) /\ FrameInv(fr)'
    BY <2>1, <2>7, <2>8
  <2> QED
    BY <2>1, <2>2, <2>3, <2>9, <2>10, <2>11, PaymentSaved
<1> QED
  BY <1>1, <1>2

\* The two posts keep IInv: the payment was saved as PAID before, and nothing
\* makes it PENDING again.
LEMMA PostsIInv ==
    ASSUME IInv, NEW h \in Processes, PostRevenue(h) \/ PostReceipt(h)
    PROVE  IInv'
<1>0. PICK f \in Frame : f = frame[h] /\ FrameInv(f)
  BY FrameFacts
<1>1. f.at \in {"confirm.revenue", "confirm.receipt"}
  BY <1>0 DEF PostRevenue, PostReceipt, At
<1>2. f.p \in Settled /\ f.p \in Payments /\ revenue \subseteq Settled
  BY <1>0, <1>1 DEF FrameInv, HoldsRecorded, Settled, IInv, DbInv, RecordedIsSettled
<1>3. receipt \subseteq Payments /\ alreadyProcessed \subseteq Payments
  BY DEF IInv, TypeOK
<1>4. CASE PostRevenue(h)
  <2>0. PICK b \in BOOLEAN : b = (f.p \in revenue)
    <3>1. (f.p \in revenue) \in BOOLEAN
      OBVIOUS
    <3>2. \A x \in BOOLEAN : \E y \in BOOLEAN : y = x
      OBVIOUS
    <3> QED
      BY <3>1, <3>2, Zenon
  <2> DEFINE g == [f EXCEPT !.at = "confirm.receipt", !.duplicated = b]
  <2>1. Become(h, g) /\ revenue' = revenue \cup {f.p} /\ f.at = "confirm.revenue"
    BY <1>0, <1>4, <2>0 DEF PostRevenue, At
  <2>2. g \in Frame
    BY DEF Frame, Steps
  <2>3. Stable
    BY <1>4 DEF Stable, Settled, PostRevenue
  <2>4. FrameInv(f)'
    BY <1>0, <2>3, FrameInvStable DEF IInv, DbInv
  <2>5. FrameInv(g)'
    BY <2>1, <2>4 DEF FrameInv, HoldsPayment, HoldsSubscription, HoldsRecorded,
       HoldsPaidRows, PayingSteps, OverwritingSteps, Frame
  <2>6. UNCHANGED <<world, school, subs, payments, receipt, history>>
    BY <1>4 DEF PostRevenue
  <2>7. revenue \subseteq revenue' /\ revenue' \subseteq Settled
    BY <1>2, <2>1
  <2>8. PICK fr \in Frame : fr = g
    BY <2>2
  <2> HIDE DEF g
  <2>9. Become(h, fr) /\ FrameInv(fr)'
    BY <2>1, <2>5, <2>8
  <2> QED
    BY <1>3, <2>6, <2>7, <2>9, LedgerPosted DEF history
<1>5. CASE PostReceipt(h)
  <2> DEFINE g == IF f.alreadyPaid /\ f.duplicated
                  THEN Idle ELSE [f EXCEPT !.at = "confirm.apply"]
  <2>1. Become(h, g) /\ receipt' = receipt \cup {f.p} /\ f.at = "confirm.receipt"
    BY <1>0, <1>5 DEF PostReceipt, At, Return, Goto
  <2>2. g \in Frame
    <3>1. [f EXCEPT !.at = "confirm.apply"] \in Frame
      BY DEF Frame, Steps
    <3> QED
      BY <3>1, IdleType
  <2>3. Stable
    BY <1>5 DEF Stable, Settled, PostReceipt
  <2>4. FrameInv(f)'
    BY <1>0, <2>3, FrameInvStable DEF IInv, DbInv
  <2>5. FrameInv(g)'
    <3>1. FrameInv([f EXCEPT !.at = "confirm.apply"])'
      BY <2>1, <2>4 DEF FrameInv, HoldsPayment, HoldsSubscription, HoldsRecorded,
         HoldsPaidRows, PayingSteps, OverwritingSteps, Frame
    <3> QED
      BY <3>1, IdleInv
  <2>6. UNCHANGED <<world, school, subs, payments, revenue, applied>>
    BY <1>5 DEF PostReceipt
  <2>7. receipt' \subseteq Payments /\ alreadyProcessed' \subseteq Payments
    BY <1>0, <1>2, <1>3, <1>5 DEF PostReceipt
  <2>8. PICK fr \in Frame : fr = g
    BY <2>2
  <2> HIDE DEF g
  <2>9. Become(h, fr) /\ FrameInv(fr)'
    BY <2>1, <2>5, <2>8
  <2> QED
    BY <1>2, <2>6, <2>7, <2>9, LedgerPosted
<1> QED
  BY <1>4, <1>5

\* Applying the payment keeps IInv: its revenue is recorded.
LEMMA SaveSubscriptionIInv ==
    ASSUME IInv, NEW h \in Processes, SaveSubscription(h)
    PROVE  IInv'
<1>0. PICK f \in Frame : f = frame[h] /\ FrameInv(f) /\ f.at = "confirm.apply"
  BY FrameFacts DEF SaveSubscription, At
<1>1. CASE ~CanApplyPayment(f.sub, f.plan, f.planIsActive)
  BY <1>0, <1>1, FrameFacts, ReturnIInv DEF SaveSubscription, world, history
<1>2. CASE CanApplyPayment(f.sub, f.plan, f.planIsActive)
  <2> DEFINE row == ApplyPayment(f.sub, f.plan, f.t)
             g == [Idle EXCEPT !.at = "confirm.others", !.p = f.p, !.s = f.s]
  <2>1. /\ SaveSub(f.s, row) /\ Become(h, g) /\ applied' = applied \cup {f.p}
        /\ UNCHANGED <<world, school, payments, ledger, alreadyProcessed>>
    BY <1>0, <1>2 DEF SaveSubscription
  <2>2. /\ f.p \in Settled /\ f.p \in Payments /\ f.p \in revenue
        /\ payments[f.p].sub = f.s /\ f.s \in Nat
    BY <1>0, IdsAreNat DEF FrameInv, HoldsPayment, HoldsSubscription, HoldsRecorded,
       PayingSteps
  <2>3. row \in Subscription
    <3>1. /\ f.sub \in Subscription /\ f.plan \in Plans /\ f.t \in Nat
          /\ Period[f.plan] \in Nat
      BY PeriodAssumption DEF Frame
    <3>2. PeriodStart(f.sub, f.t) \in Nat
      BY <3>1 DEF PeriodStart, Subscription
    <3>3. PeriodStart(f.sub, f.t) + Period[f.plan] \in Nat
      BY <3>1, <3>2
    <3> QED
      BY <3>1, <3>3 DEF ApplyPayment, ChangePlan, Subscription
  <2>4. g \in Frame
    <3>1. f.p \in Nat
      BY DEF Frame
    <3> QED
      BY <2>2, <3>1, IdleType DEF Frame, Steps
  <2>5. FrameInv(g)
    BY DEF FrameInv, HoldsPayment, HoldsSubscription, HoldsRecorded, HoldsPaidRows,
       Idle, PayingSteps, OverwritingSteps
  <2>6. RecordedFor(f.s) # {}
    BY <2>2 DEF RecordedFor
  <2>7. applied' \subseteq Settled
    BY <2>1, <2>2 DEF IInv, DbInv, RecordedIsSettled
  <2> HIDE DEF row, g
  <2> QED
    BY <2>1, <2>2, <2>3, <2>4, <2>5, <2>6, <2>7, SubscriptionSaved
<1> QED
  BY <1>1, <1>2

\* Reading ACTIVE rows into a frame that uses nothing older.
LEMMA RowsRead ==
    ASSUME IInv, NEW h \in Processes, NEW ids \in SUBSET ActiveSubs,
           NEW step \in QuietSteps,
           Become(h, [frame[h] EXCEPT !.at = step, !.rest = ReadRows(ids)]),
           UNCHANGED <<world, school, subs, payments, ledger, history>>
    PROVE  IInv'
<1>0. PICK f \in Frame : f = frame[h] /\ FrameInv(f)
  BY FrameFacts
<1>1. PICK rest \in SUBSET Rows :
        /\ rest = ReadRows(ids)
        /\ \A item \in rest : item.row.origin = "checkout" => RecordedFor(item.id) # {}
  BY ReadRowsInv
<1> DEFINE g == [f EXCEPT !.at = step, !.rest = rest]
<1>2. g \in Frame
  BY DEF Frame, QuietSteps
<1>3. FrameInv(g)
  BY <1>1 DEF FrameInv, HoldsPayment, HoldsSubscription, HoldsRecorded, HoldsPaidRows,
     QuietSteps, PayingSteps, OverwritingSteps, Frame
<1> QED
  BY <1>0, <1>1, <1>2, <1>3, FrameFacts, RowsUntouched DEF world

\* Saving one of the rows read earlier, expired, however stale it is.
LEMMA RestSaved ==
    ASSUME IInv, NEW h \in Processes, NEW item \in frame[h].rest,
           NEW step \in QuietSteps,
           Become(h, [frame[h] EXCEPT !.at = step, !.rest = frame[h].rest \ {item}]),
           SaveSub(item.id, Expire(item.row)),
           UNCHANGED <<world, school, payments, ledger, history>>
    PROVE  IInv'
<1>0. PICK f \in Frame : f = frame[h] /\ FrameInv(f)
  BY FrameFacts
<1> DEFINE g == [f EXCEPT !.at = step, !.rest = f.rest \ {item}]
           row == Expire(item.row)
<1>1. item \in Rows /\ f.rest \ {item} \in SUBSET Rows
  BY <1>0 DEF Frame
<1>2. item.id \in Nat /\ item.row \in Subscription
  BY <1>1, IdsAreNat DEF Rows
<1>3. row \in Subscription /\ row.origin = item.row.origin
  BY <1>2 DEF Expire, Subscription
<1>4. g \in Frame
  BY <1>1 DEF Frame, QuietSteps
<1>5. FrameInv(g)
  BY <1>0 DEF FrameInv, HoldsPayment, HoldsSubscription, HoldsRecorded, HoldsPaidRows,
     QuietSteps, PayingSteps, OverwritingSteps, Frame
<1>6. row.origin = "checkout" => RecordedFor(item.id) # {}
  BY <1>0, <1>3 DEF FrameInv, HoldsPaidRows
<1>7. applied' \subseteq Settled /\ UNCHANGED alreadyProcessed
  BY DEF IInv, DbInv, RecordedIsSettled, history
<1>8. Become(h, g)
  BY <1>0
<1> HIDE DEF g, row
<1> QED
  <2>1. SaveSub(item.id, row)
    BY DEF row
  <2> QED
    BY <1>2, <1>3, <1>4, <1>5, <1>6, <1>7, <1>8, <2>1, SubscriptionSaved

\* The end of the confirmation keeps IInv.
LEMMA AfterApplyIInv ==
    ASSUME IInv, NEW h \in Processes,
           \/ FindOthers(h) \/ ExpireOther(h) \/ FindSchool(h)
           \/ SaveActivatedSchool(h) \/ RecordEvent(h)
    PROVE  IInv'
<1>0. PICK f \in Frame : f = frame[h] /\ FrameInv(f)
  BY FrameFacts
<1>1. CASE FindOthers(h)
  <2>1. PICK step \in QuietSteps :
          Become(h, [frame[h] EXCEPT !.at = step,
                                     !.rest = ReadRows(ActiveSubs \ {frame[h].s})])
    <3>1. {"confirm.school", "confirm.expire"} \subseteq QuietSteps
      BY DEF QuietSteps, Steps, PayingSteps, OverwritingSteps
    <3> QED
      BY <1>1, <3>1 DEF FindOthers
  <2>2. ActiveSubs \ {frame[h].s} \in SUBSET ActiveSubs
    OBVIOUS
  <2> QED
    BY <1>1, <2>1, <2>2, RowsRead DEF FindOthers
<1>2. CASE ExpireOther(h)
  <2>1. {"confirm.school", "confirm.expire"} \subseteq QuietSteps
    BY DEF QuietSteps, Steps, PayingSteps, OverwritingSteps
  <2>2. PICK item \in frame[h].rest, step \in QuietSteps :
          /\ SaveSub(item.id, Expire(item.row))
          /\ Become(h, [frame[h] EXCEPT !.at = step, !.rest = frame[h].rest \ {item}])
    <3>1. PICK item \in frame[h].rest :
            /\ SaveSub(item.id, Expire(item.row))
            /\ Become(h, [frame[h] EXCEPT !.rest = frame[h].rest \ {item},
                 !.at = IF frame[h].rest \ {item} = {}
                        THEN "confirm.school" ELSE "confirm.expire"])
      BY <1>2 DEF ExpireOther
    <3>2. \A step : [f EXCEPT !.rest = f.rest \ {item}, !.at = step]
                  = [f EXCEPT !.at = step, !.rest = f.rest \ {item}]
      BY DEF Frame
    <3> QED
      BY <1>0, <2>1, <3>1, <3>2
  <2> QED
    BY <1>2, <2>2, RestSaved DEF ExpireOther
<1>3. CASE FindSchool(h)
  <2>1. PICK step \in {"confirm.event", "confirm.saveSchool"} :
          Become(h, [f EXCEPT !.school = school, !.at = step])
    BY <1>0, <1>3 DEF FindSchool
  <2> DEFINE g == [f EXCEPT !.school = school, !.at = step]
  <2>2. g \in Frame
    BY FrameFacts DEF Frame, Steps
  <2>3. FrameInv(g)
    BY <1>0 DEF FrameInv, HoldsPayment, HoldsSubscription, HoldsRecorded,
       HoldsPaidRows, PayingSteps, OverwritingSteps, Frame
  <2> QED
    BY <1>3, <2>1, <2>2, <2>3, FrameFacts, RowsUntouched DEF FindSchool, world
<1>4. CASE SaveActivatedSchool(h)
  <2>1. school' \in SchoolStatus
    BY <1>0, <1>4 DEF SaveActivatedSchool, ActivateAfterPaidSubscription, SchoolStatus,
       Frame
  <2>2. "confirm.event" \in QuietSteps
    BY DEF QuietSteps, Steps, PayingSteps, OverwritingSteps
  <2> QED
    BY <1>4, <2>1, <2>2, QuietGoto DEF SaveActivatedSchool
<1>5. CASE RecordEvent(h)
  BY <1>5, FrameFacts, ReturnIInv DEF RecordEvent, world
<1> QED
  BY <1>1, <1>2, <1>3, <1>4, <1>5

-----------------------------------------------------------------------------
(* The failure and the cancellation.                                       *)

\* A payment that fails, from any status, is settled.
LEMMA FailIInv ==
    ASSUME IInv, NEW h \in Processes, BeginFail(h) \/ SaveFailed(h)
    PROVE  IInv'
<1>1. CASE BeginFail(h)
  <2>1. PICK p \in Payments :
          /\ payments[p].status # "NONE"
          /\ Become(h, [Idle EXCEPT !.at = "fail.save", !.p = p, !.payment = payments[p]])
    BY <1>1 DEF BeginFail
  <2>2. PICK payment \in Payment : payment = payments[p]
    BY FrameFacts
  <2> DEFINE g == [Idle EXCEPT !.at = "fail.save", !.p = p, !.payment = payment]
  <2>3. g \in Frame
    <3>1. p \in Nat
      BY IdsAreNat
    <3> QED
      BY <3>1, IdleType DEF Frame, Steps
  <2>4. FrameInv(g)
    BY <2>1, <2>2 DEF FrameInv, HoldsPayment, HoldsSubscription, HoldsRecorded,
       HoldsPaidRows, Idle, PayingSteps, OverwritingSteps
  <2> QED
    BY <1>1, <2>1, <2>2, <2>3, <2>4, FrameFacts, RowsUntouched DEF BeginFail, world
<1>2. CASE SaveFailed(h)
  <2>0. PICK f \in Frame : f = frame[h] /\ FrameInv(f) /\ f.at = "fail.save"
    BY <1>2, FrameFacts DEF SaveFailed, At
  <2> DEFINE row == FailPayment(f.payment)
  <2>1. SavePayment(f.p, row) /\ Become(h, Idle)
    BY <1>2, <2>0 DEF SaveFailed, Return
  <2>2. /\ f.p \in Payments /\ payments[f.p].status # "NONE"
        /\ payments[f.p].sub = f.payment.sub
    BY <2>0 DEF FrameInv, HoldsPayment
  <2>3. row \in Payment /\ row.sub = f.payment.sub /\ row.status = "FAILED"
    BY DEF FailPayment, Payment, Frame
  <2>4. row.status \notin {"NONE", "PENDING"} /\ row.sub = payments[f.p].sub
    BY <2>2, <2>3
  <2>5. UNCHANGED <<world, school, subs, ledger, history>>
    BY <1>2 DEF SaveFailed
  <2> HIDE DEF row
  <2> QED
    BY <2>1, <2>2, <2>3, <2>4, <2>5, IdleType, IdleInv, PaymentSaved
<1> QED
  BY <1>1, <1>2

\* A request reads an ACTIVE subscription that it is going to save changed.
LEMMA OverwriteBegun ==
    ASSUME IInv, NEW h \in Processes, NEW base \in Frame, FrameInv(base),
           NEW s \in ActiveSubs, NEW step \in OverwritingSteps,
           Become(h, [base EXCEPT !.at = step, !.s = s, !.sub = subs[s]]),
           UNCHANGED <<world, school, subs, payments, ledger, history>>
    PROVE  IInv'
<1>1. PICK row \in Subscription : row = subs[s]
  BY FrameFacts DEF ActiveSubs, Stored
<1> DEFINE g == [base EXCEPT !.at = step, !.s = s, !.sub = row]
<1>2. g \in Frame
  <2>1. s \in Nat
    BY IdsAreNat DEF ActiveSubs, Stored
  <2> QED
    BY <2>1 DEF Frame, Steps, OverwritingSteps
<1>3. row.origin = "checkout" => RecordedFor(s) # {}
  BY <1>1 DEF IInv, DbInv, PaidServiceIsRecorded, ActiveSubs
<1>4. FrameInv(g)
  BY <1>3 DEF FrameInv, HoldsPayment, HoldsSubscription, HoldsRecorded, HoldsPaidRows,
     PayingSteps, OverwritingSteps, Frame
<1> QED
  BY <1>1, <1>2, <1>4, FrameFacts, RowsUntouched DEF world

\* ... and saves it, however stale it is by then.
LEMMA OverwriteSaved ==
    ASSUME IInv, NEW h \in Processes, frame[h].at \in OverwritingSteps,
           NEW g \in Frame, Become(h, g), FrameInv(g), NEW row \in Subscription,
           row.origin = frame[h].sub.origin, SaveSub(frame[h].s, row),
           UNCHANGED <<world, school, payments, ledger, history>>
    PROVE  IInv'
<1>1. PICK f \in Frame : f = frame[h] /\ FrameInv(f)
  BY FrameFacts
<1>2. f.s \in Nat
  BY DEF Frame
<1>3. row.origin = "checkout" => RecordedFor(f.s) # {}
  BY <1>1 DEF FrameInv, HoldsPaidRows
<1>4. applied' \subseteq Settled /\ UNCHANGED alreadyProcessed
  BY DEF IInv, DbInv, RecordedIsSettled, history
<1>5. SaveSub(f.s, row)
  BY <1>1
<1> QED
  BY <1>2, <1>3, <1>4, <1>5, SubscriptionSaved

\* Cancelling the renewal keeps IInv.
LEMMA CancelIInv ==
    ASSUME IInv, NEW h \in Processes, BeginCancel(h) \/ SaveCancelled(h)
    PROVE  IInv'
<1>1. CASE BeginCancel(h)
  <2>1. PICK s \in Stored :
          /\ CanScheduleCancel(subs[s])
          /\ Become(h, [Idle EXCEPT !.at = "cancel.save", !.s = s, !.sub = subs[s]])
    BY <1>1 DEF BeginCancel
  <2>2. s \in ActiveSubs /\ "cancel.save" \in OverwritingSteps
    BY <2>1 DEF ActiveSubs, Stored, CanScheduleCancel, OverwritingSteps
  <2> QED
    BY <1>1, <2>1, <2>2, IdleType, IdleInv, OverwriteBegun DEF BeginCancel
<1>2. CASE SaveCancelled(h)
  <2>1. PICK f \in Frame : f = frame[h]
    BY FrameFacts
  <2>2. PICK row \in Subscription :
          row = ScheduleCancelAtPeriodEnd(f.sub) /\ row.origin = f.sub.origin
    <3>1. f.sub \in Subscription
      BY DEF Frame
    <3>2. ScheduleCancelAtPeriodEnd(f.sub) \in Subscription /\ ScheduleCancelAtPeriodEnd(f.sub).origin = f.sub.origin
      BY <3>1 DEF ScheduleCancelAtPeriodEnd, Subscription
    <3> QED
      BY <3>2
  <2>3. frame[h].at \in OverwritingSteps
    BY <1>2 DEF SaveCancelled, At, OverwritingSteps
  <2>4. SaveSub(frame[h].s, row) /\ Become(h, Idle)
    BY <1>2, <2>1, <2>2 DEF SaveCancelled, Return
  <2> QED
    BY <1>2, <2>1, <2>2, <2>3, <2>4, IdleType, IdleInv, OverwriteSaved
    DEF SaveCancelled
<1> QED
  BY <1>1, <1>2

-----------------------------------------------------------------------------
(* The job and the readers that find an expiration.                        *)

\* The next item of the job, or its end, while no row of billing is written.
LEMMA NextDueIInv ==
    ASSUME IInv, NEW h \in Processes, NextDue(h) \/ Goto(h, "job.save"),
           UNCHANGED <<world, subs, payments, ledger, history>>,
           school' \in SchoolStatus
    PROVE  IInv'
<1>1. "job.save" \in QuietSteps
  BY DEF QuietSteps, Steps, PayingSteps, OverwritingSteps
<1>2. CASE Return(h)
  BY <1>2, FrameFacts, ReturnIInv DEF world
<1>3. CASE Goto(h, "job.save")
  BY <1>1, <1>3, QuietGoto
<1> QED
  BY <1>2, <1>3 DEF NextDue

\* The hourly job keeps IInv.
LEMMA JobIInv ==
    ASSUME IInv, NEW h \in Processes, BeginJob(h) \/ JobStep(h)
    PROVE  IInv'
<1>0. /\ {"job.save", "job.check", "job.school", "job.saveSchool"} \subseteq QuietSteps
      /\ "EXPIRED" \in SchoolStatus /\ school \in SchoolStatus
  BY FrameFacts DEF QuietSteps, Steps, PayingSteps, OverwritingSteps, SchoolStatus
<1>1. CASE BeginJob(h)
  <2>1. DueAt(now) \in SUBSET ActiveSubs
    BY DEF DueAt, ActiveSubs, IsDue
  <2>2. PICK rest \in SUBSET Rows :
          /\ rest = ReadRows(DueAt(now))
          /\ \A item \in rest : item.row.origin = "checkout" => RecordedFor(item.id) # {}
    BY <2>1, ReadRowsInv
  <2>3. PICK t \in Nat : t = now
    BY FrameFacts
  <2> DEFINE g == [Idle EXCEPT !.at = "job.save", !.t = t, !.rest = rest]
  <2>4. g \in Frame
    BY IdleType DEF Frame, Steps
  <2>5. FrameInv(g)
    BY <2>2 DEF FrameInv, HoldsPayment, HoldsSubscription, HoldsRecorded, HoldsPaidRows,
       Idle, PayingSteps, OverwritingSteps
  <2>6. Become(h, g)
    BY <1>1, <2>2, <2>3 DEF BeginJob
  <2> QED
    BY <1>1, <2>4, <2>5, <2>6, FrameFacts, RowsUntouched DEF BeginJob, world
<1>2. CASE SaveDue(h)
  <2>1. PICK due \in frame[h].rest :
          /\ SaveSub(due.id, Expire(due.row))
          /\ Become(h, [frame[h] EXCEPT !.at = "job.check",
                                        !.rest = frame[h].rest \ {due}])
    BY <1>2 DEF SaveDue
  <2> QED
    BY <1>0, <1>2, <2>1, RestSaved DEF SaveDue
<1>3. CASE CheckStillValid(h)
  <2>1. CASE Goto(h, "job.school")
    BY <1>0, <1>3, <2>1, QuietGoto DEF CheckStillValid
  <2>2. CASE NextDue(h)
    BY <1>0, <1>3, <2>2, NextDueIInv DEF CheckStillValid
  <2> QED
    BY <1>3, <2>1, <2>2 DEF CheckStillValid
<1>4. CASE FindSchoolOfDue(h)
  <2>1. CASE Goto(h, "job.saveSchool")
    BY <1>0, <1>4, <2>1, QuietGoto DEF FindSchoolOfDue
  <2>2. CASE NextDue(h)
    BY <1>0, <1>4, <2>2, NextDueIInv DEF FindSchoolOfDue
  <2> QED
    BY <1>4, <2>1, <2>2 DEF FindSchoolOfDue
<1>5. CASE ExpireSchoolOfDue(h)
  BY <1>0, <1>5, NextDueIInv DEF ExpireSchoolOfDue
<1> QED
  BY <1>1, <1>2, <1>3, <1>4, <1>5 DEF JobStep

\* An expiration found by a reader keeps IInv.
LEMMA DashboardIInv ==
    ASSUME IInv, NEW h \in Processes, BeginDashboard(h) \/ DashboardStep(h)
    PROVE  IInv'
<1>0. /\ {"dashboard.school", "dashboard.saveSchool"} \subseteq QuietSteps
      /\ "dashboard.save" \in OverwritingSteps
      /\ "EXPIRED" \in SchoolStatus /\ school \in SchoolStatus
  BY FrameFacts DEF QuietSteps, Steps, PayingSteps, OverwritingSteps, SchoolStatus
<1>1. CASE BeginDashboard(h)
  <2>1. PICK latest \in Newest(Stored) :
          /\ IsDue(subs[latest], now)
          /\ Become(h, [Idle EXCEPT !.at = "dashboard.save", !.s = latest,
                                    !.sub = subs[latest]])
    BY <1>1 DEF BeginDashboard
  <2>2. latest \in ActiveSubs
    BY <2>1 DEF Newest, IsDue, ActiveSubs
  <2> QED
    BY <1>0, <1>1, <2>1, <2>2, IdleType, IdleInv, OverwriteBegun DEF BeginDashboard
<1>2. CASE SaveLatestExpired(h)
  <2>1. PICK f \in Frame : f = frame[h]
    BY FrameFacts
  <2>2. PICK row \in Subscription : row = Expire(f.sub) /\ row.origin = f.sub.origin
    <3>1. f.sub \in Subscription
      BY DEF Frame
    <3>2. Expire(f.sub) \in Subscription /\ Expire(f.sub).origin = f.sub.origin
      BY <3>1 DEF Expire, Subscription
    <3> QED
      BY <3>2
  <2> DEFINE g == [Idle EXCEPT !.at = "dashboard.school"]
  <2>3. g \in Frame
    BY IdleType DEF Frame, Steps
  <2>4. FrameInv(g)
    BY DEF FrameInv, HoldsPayment, HoldsSubscription, HoldsRecorded, HoldsPaidRows,
       Idle, PayingSteps, OverwritingSteps
  <2>5. frame[h].at \in OverwritingSteps /\ SaveSub(frame[h].s, row) /\ Become(h, g)
    BY <1>0, <1>2, <2>1, <2>2 DEF SaveLatestExpired, At
  <2> HIDE DEF g
  <2> QED
    BY <1>2, <2>1, <2>2, <2>3, <2>4, <2>5, OverwriteSaved DEF SaveLatestExpired
<1>3. CASE FindSchoolOfLatest(h)
  <2>1. CASE Goto(h, "dashboard.saveSchool")
    BY <1>0, <1>3, <2>1, QuietGoto DEF FindSchoolOfLatest
  <2>2. CASE Return(h)
    BY <1>3, <2>2, FrameFacts, ReturnIInv DEF FindSchoolOfLatest, world
  <2> QED
    BY <1>3, <2>1, <2>2 DEF FindSchoolOfLatest
<1>4. CASE ExpireSchoolOfLatest(h)
  BY <1>0, <1>4, FrameFacts, ReturnIInv DEF ExpireSchoolOfLatest, world
<1> QED
  BY <1>1, <1>2, <1>3, <1>4 DEF DashboardStep

-----------------------------------------------------------------------------
(* The FREE plan and the admin.                                            *)

\* A new subscription, of no checkout, by a request that uses nothing older.
LEMMA GiftSaved ==
    ASSUME IInv, NEW h \in Processes, NEW g \in Frame, FrameInv(g), Become(h, g),
           NEW row \in Subscription, row.origin # "checkout",
           NewId \in Subs, SaveSub(NewId, row),
           UNCHANGED <<world, school, payments, ledger, history>>
    PROVE  IInv'
<1>1. NewId \in Nat
  BY IdsAreNat
<1>2. applied' \subseteq Settled /\ UNCHANGED alreadyProcessed
  BY DEF IInv, DbInv, RecordedIsSettled, history
<1> QED
  BY <1>1, <1>2, SubscriptionSaved

\* The use case of the FREE plan keeps IInv.
LEMMA FreePlanIInv ==
    ASSUME IInv, NEW h \in Processes, BeginFreePlan(h) \/ FreePlanStep(h)
    PROVE  IInv'
<1>0. /\ {"free.plan", "free.find", "free.saveSchool", "free.valid", "free.create"}
            \subseteq QuietSteps
      /\ "free.save" \in OverwritingSteps
      /\ "EXPIRED" \in SchoolStatus /\ school \in SchoolStatus
  BY FrameFacts DEF QuietSteps, Steps, PayingSteps, OverwritingSteps, SchoolStatus
<1>01. PICK f \in Frame : f = frame[h] /\ FrameInv(f)
  BY FrameFacts
<1>02. ASSUME Return(h), UNCHANGED <<world, school, subs, payments, ledger, history>>
       PROVE  IInv'
  BY <1>02, FrameFacts, ReturnIInv DEF world
<1>1. CASE BeginFreePlan(h)
  <2> DEFINE g == [Idle EXCEPT !.at = "free.plan", !.t = now, !.school = school]
  <2>1. g \in Frame
    BY IdleType, FrameFacts DEF Frame, Steps
  <2>2. FrameInv(g)
    BY DEF FrameInv, HoldsPayment, HoldsSubscription, HoldsRecorded, HoldsPaidRows,
       Idle, PayingSteps, OverwritingSteps
  <2> QED
    BY <1>1, <2>1, <2>2, FrameFacts, RowsUntouched DEF BeginFreePlan, world
<1>2. CASE FindFreePlan(h)
  BY <1>0, <1>02, <1>2, QuietGoto DEF FindFreePlan
<1>3. CASE FindFree(h)
  <2>1. CASE Goto(h, "free.valid")
    BY <1>0, <1>3, <2>1, QuietGoto DEF FindFree
  <2>2. CASE Return(h)
    BY <1>02, <1>3, <2>2 DEF FindFree
  <2>3. CASE ~Goto(h, "free.valid") /\ ~Return(h)
    <3>1. PICK s \in Oldest(FreeSubs) :
            /\ IsDue(subs[s], f.t)
            /\ Become(h, [f EXCEPT !.at = "free.save", !.s = s, !.sub = subs[s]])
      BY <1>01, <1>3, <2>3 DEF FindFree
    <3>2. s \in ActiveSubs
      BY <3>1 DEF Oldest, FreeSubs, ActiveSubs, IsDue
    <3> QED
      BY <1>0, <1>01, <1>3, <3>1, <3>2, OverwriteBegun DEF FindFree
  <2> QED
    BY <2>1, <2>2, <2>3
<1>4. CASE SaveFreeExpired(h)
  <2>1. PICK row \in Subscription : row = Expire(f.sub) /\ row.origin = f.sub.origin
    <3>1. f.sub \in Subscription
      BY DEF Frame
    <3>2. Expire(f.sub) \in Subscription /\ Expire(f.sub).origin = f.sub.origin
      BY <3>1 DEF Expire, Subscription
    <3> QED
      BY <3>2
  <2>2. PICK g \in Frame : Become(h, g) /\ FrameInv(g)
    BY <1>0, <1>01, <1>4, QuietFrame, IdleType, IdleInv
    DEF SaveFreeExpired, Goto, Return
  <2>3. frame[h].at \in OverwritingSteps /\ SaveSub(frame[h].s, row)
    BY <1>0, <1>01, <1>4, <2>1 DEF SaveFreeExpired, At
  <2> QED
    BY <1>01, <1>4, <2>1, <2>2, <2>3, OverwriteSaved DEF SaveFreeExpired
<1>5. CASE ExpireSchoolOfFree(h)
  BY <1>0, <1>5, FrameFacts, ReturnIInv DEF ExpireSchoolOfFree, world
<1>6. CASE FindValidBeforeFree(h)
  BY <1>0, <1>02, <1>6, QuietGoto DEF FindValidBeforeFree
<1>7. CASE CreateFree(h)
  <2>1. f.t \in Nat /\ Period[FreePlan] \in Nat
    BY PlansAssumption, PeriodAssumption DEF Frame
  <2>2. CreateFreePlan(f.t) \in Subscription /\ CreateFreePlan(f.t).origin # "checkout"
    BY <2>1, PlansAssumption DEF CreateFreePlan, NewSubscription, Subscription
  <2> QED
    BY <1>01, <1>7, <2>2, IdleType, IdleInv, GiftSaved DEF CreateFree, Return
<1> QED
  BY <1>1, <1>2, <1>3, <1>4, <1>5, <1>6, <1>7 DEF FreePlanStep

\* The admin's change of status keeps IInv.
LEMMA AdminIInv ==
    ASSUME IInv, NEW h \in Processes, BeginChangeStatus(h) \/ AdminStep(h)
    PROVE  IInv'
<1>0. {"admin.list", "admin.close", "admin.grant", "admin.save"} \subseteq QuietSteps
  BY DEF QuietSteps, Steps, PayingSteps, OverwritingSteps
<1>01. PICK f \in Frame : f = frame[h] /\ FrameInv(f)
  BY FrameFacts
<1>02. AfterClosing(f) \in {"admin.grant", "admin.save"}
  BY DEF AfterClosing
<1>1. CASE BeginChangeStatus(h)
  <2>1. PICK target \in AdminTargets, plan \in Plans,
             step \in {"admin.list", "admin.save"} :
          Become(h, [Idle EXCEPT !.at = step, !.plan = plan, !.t = now,
                                 !.school = school, !.target = target])
    BY <1>1 DEF BeginChangeStatus
  <2> DEFINE g == [Idle EXCEPT !.at = step, !.plan = plan, !.t = now,
                               !.school = school, !.target = target]
  <2>2. g \in Frame
    <3>1. target \in SchoolStatus
      BY TargetsAssumption
    <3> QED
      BY <3>1, IdleType, FrameFacts DEF Frame, Steps
  <2>3. FrameInv(g)
    BY DEF FrameInv, HoldsPayment, HoldsSubscription, HoldsRecorded, HoldsPaidRows,
       Idle, PayingSteps, OverwritingSteps
  <2> QED
    BY <1>1, <2>1, <2>2, <2>3, FrameFacts, RowsUntouched DEF BeginChangeStatus, world
<1>2. CASE ListActive(h)
  <2>1. PICK step \in QuietSteps :
          Become(h, [frame[h] EXCEPT !.at = step, !.rest = ReadRows(ActiveSubs)])
    BY <1>0, <1>01, <1>02, <1>2 DEF ListActive
  <2> QED
    BY <1>2, <2>1, RowsRead DEF ListActive
<1>3. CASE CloseActive(h)
  <2>1. PICK item \in f.rest, step \in QuietSteps :
          /\ SaveSub(item.id, Expire(item.row))
          /\ Become(h, [f EXCEPT !.rest = f.rest \ {item}, !.at = step])
    BY <1>0, <1>01, <1>02, <1>3 DEF CloseActive
  <2>2. [f EXCEPT !.rest = f.rest \ {item}, !.at = step]
          = [f EXCEPT !.at = step, !.rest = f.rest \ {item}]
    BY DEF Frame
  <2> QED
    BY <1>01, <1>3, <2>1, <2>2, RestSaved DEF CloseActive
<1>4. CASE SaveGrant(h)
  <2>1. f.t + GrantPeriod \in Nat /\ f.plan \in Plans
    BY GrantAssumption DEF Frame
  <2>2. /\ CreateAdminGrant(f.plan, f.t) \in Subscription
        /\ CreateAdminGrant(f.plan, f.t).origin # "checkout"
    BY <2>1 DEF CreateAdminGrant, NewSubscription, Subscription
  <2>3. PICK g \in Frame : Become(h, g) /\ FrameInv(g)
    BY <1>0, <1>4, QuietFrame DEF SaveGrant, Goto
  <2> QED
    BY <1>01, <1>4, <2>2, <2>3, GiftSaved DEF SaveGrant
<1>5. CASE SaveAdminStatus(h)
  <2>1. school' \in SchoolStatus
    BY <1>01, <1>5 DEF SaveAdminStatus, Frame
  <2> QED
    BY <1>5, <2>1, FrameFacts, ReturnIInv DEF SaveAdminStatus, world
<1> QED
  BY <1>1, <1>2, <1>3, <1>4, <1>5 DEF AdminStep

-----------------------------------------------------------------------------
(* The review of a school.                                                 *)

\* What CheckSubscription does with the latest subscription.
LEMMA SubmissionReads ==
    ASSUME NEW h, CheckSubscription(h)
    PROVE  \/ Return(h)
           \/ Goto(h, "submit.save") /\ frame[h].school \in Submittable
           \/ \E latest \in Newest(Stored) :
                  /\ IsDue(subs[latest], now)
                  /\ Become(h, [Idle EXCEPT !.at = "dashboard.save", !.s = latest,
                                            !.sub = subs[latest]])
BY DEF CheckSubscription

\* A submission and a decision keep IInv.
LEMMA ReviewIInv ==
    ASSUME IInv, NEW h \in Processes,
           BeginSubmit(h) \/ BeginReview(h) \/ ReviewStep(h)
    PROVE  IInv'
<1>0. /\ {"submit.plan", "submit.save", "review.save"} \subseteq QuietSteps
      /\ "dashboard.save" \in OverwritingSteps
      /\ "PENDING_REVIEW" \in SchoolStatus /\ school \in SchoolStatus
  BY FrameFacts DEF QuietSteps, Steps, PayingSteps, OverwritingSteps, SchoolStatus
<1>1. CASE BeginSubmit(h)
  <2> DEFINE g == [Idle EXCEPT !.at = "submit.plan", !.school = school]
  <2>1. g \in Frame
    BY <1>0, IdleType DEF Frame, Steps
  <2>2. FrameInv(g)
    BY DEF FrameInv, HoldsPayment, HoldsSubscription, HoldsRecorded, HoldsPaidRows,
       Idle, PayingSteps, OverwritingSteps
  <2>3. Become(h, g)
    BY <1>1 DEF BeginSubmit
  <2> QED
    BY <1>1, <2>1, <2>2, <2>3, FrameFacts, RowsUntouched DEF BeginSubmit, world
<1>2. CASE BeginReview(h)
  <2>1. PICK target \in SchoolStatus :
          Become(h, [Idle EXCEPT !.at = "review.save", !.school = school,
                                 !.target = target])
    BY <1>2 DEF BeginReview, SchoolStatus
  <2> DEFINE g == [Idle EXCEPT !.at = "review.save", !.school = school,
                               !.target = target]
  <2>2. g \in Frame
    BY <1>0, IdleType DEF Frame, Steps
  <2>3. FrameInv(g)
    BY DEF FrameInv, HoldsPayment, HoldsSubscription, HoldsRecorded, HoldsPaidRows,
       Idle, PayingSteps, OverwritingSteps
  <2> QED
    BY <1>2, <2>1, <2>2, <2>3, FrameFacts, RowsUntouched DEF BeginReview, world
<1>3. CASE CheckSubscription(h)
  <2>1. CASE Return(h)
    BY <1>3, <2>1, FrameFacts, ReturnIInv DEF CheckSubscription, world
  <2>2. CASE Goto(h, "submit.save")
    BY <1>0, <1>3, <2>2, QuietGoto DEF CheckSubscription
  <2>3. ASSUME NEW latest \in Newest(Stored), IsDue(subs[latest], now),
               Become(h, [Idle EXCEPT !.at = "dashboard.save", !.s = latest,
                                      !.sub = subs[latest]])
        PROVE  IInv'
    <3>1. latest \in ActiveSubs
      BY <2>3 DEF Newest, IsDue, ActiveSubs
    <3> QED
      BY <1>0, <1>3, <2>3, <3>1, IdleType, IdleInv, OverwriteBegun
      DEF CheckSubscription
  <2> QED
    BY <1>3, <2>1, <2>2, <2>3, SubmissionReads
<1>4. CASE SaveSubmitted(h)
  BY <1>0, <1>4, FrameFacts, ReturnIInv DEF SaveSubmitted, world
<1>5. CASE SaveReview(h)
  <2>1. PICK f \in Frame : f = frame[h]
    BY FrameFacts
  <2>2. school' \in SchoolStatus
    BY <1>5, <2>1 DEF SaveReview, Frame
  <2> QED
    BY <1>5, <2>2, FrameFacts, ReturnIInv DEF SaveReview, world
<1> QED
  BY <1>1, <1>2, <1>3, <1>4, <1>5 DEF ReviewStep

-----------------------------------------------------------------------------
(* The theorems.                                                           *)

\* The surroundings touch no row and no frame but that of a crash.
LEMMA SurroundingsIInv ==
    ASSUME IInv,
           \/ Tick
           \/ \E plan \in SwitchedPlans, isActive \in BOOLEAN : SetPlanActive(plan, isActive)
           \/ \E h \in Processes : Abort(h)
           \/ UNCHANGED vars
    PROVE  IInv'
<1>1. CASE \E h \in Processes : Abort(h)
  <2>1. PICK h \in Processes : Abort(h)
    BY <1>1
  <2> QED
    BY <2>1, FrameFacts, ReturnIInv DEF Abort
<1>2. CASE ~ \E h \in Processes : Abort(h)
  <2>1. UNCHANGED <<school, subs, payments, ledger, frame, history>>
    BY <1>2 DEF Tick, SetPlanActive, vars, ledger, history
  <2>2. now' \in Nat /\ faults' \in Nat /\ planIsActive' \in SUBSET Plans
    BY <1>2, SwitchedAssumption DEF Tick, SetPlanActive, vars, IInv, TypeOK
  <2>3. DbInv'
    BY <2>1 DEF IInv, DbInv, PaymentsBelong, RecordedIsSettled, PaidServiceIsRecorded,
       Stored, RecordedFor, Settled, ledger, history
  <2>4. TypeOK'
    BY <2>1, <2>2 DEF IInv, TypeOK, ledger, history
  <2>5. Stable
    BY <2>1 DEF Stable, Settled, ledger
  <2>6. ASSUME NEW g \in Processes PROVE FrameInv(frame[g])'
    <3>1. PICK f \in Frame : f = frame[g] /\ FrameInv(f)
      BY FrameFacts
    <3>2. FrameInv(f)'
      BY <2>5, <3>1, FrameInvStable DEF IInv, DbInv
    <3>3. frame'[g] = f
      BY <2>1, <3>1
    <3> QED
      BY <3>2, <3>3
  <2> QED
    BY <2>3, <2>4, <2>6 DEF IInv
<1> QED
  BY <1>1, <1>2

\* Every step keeps IInv.
LEMMA NextIInv == IInv /\ [Next]_vars => IInv'
<1> SUFFICES ASSUME IInv, [Next]_vars PROVE IInv'
  OBVIOUS
<1>1. ASSUME NEW h \in Processes, PaymentRequest(h) \/ PaymentStep(h) PROVE IInv'
  BY <1>1, CheckoutIInv, ReadsIInv, SaveConfirmedIInv, PostsIInv, SaveSubscriptionIInv,
     AfterApplyIInv, FailIInv
  DEF PaymentRequest, PaymentStep, ConfirmStep
<1>2. ASSUME NEW h \in Processes, SubscriptionRequest(h) \/ SubscriptionStep(h)
      PROVE IInv'
  BY <1>2, CancelIInv, JobIInv, DashboardIInv, FreePlanIInv, AdminIInv, ReviewIInv
  DEF SubscriptionRequest, SubscriptionStep
<1>3. CASE BeginJob(Cron)
  BY <1>3, JobIInv DEF Processes
<1> QED
  BY <1>1, <1>2, <1>3, SurroundingsIInv DEF Next, Request, Step, Processes

\* In every reachable state each request's copies agree with the rows as IInv says.
THEOREM Invariance == Spec => []IInv
BY InitIInv, NextIInv, PTL DEF Spec

(***************************************************************************)
(* The rows and the copies that requests hold are typed, for any number of *)
(* requests and through every stale save: what TypeOK says of the tables.  *)
(***************************************************************************)
THEOREM TypeCorrect == Spec => []TypeOK
<1>1. IInv => TypeOK
  BY DEF IInv
<1> QED
  BY <1>1, Invariance, PTL

(***************************************************************************)
(* No paid service without recorded revenue, whatever interleaves and      *)
(* crashes: confirm() posts before it activates, and no stale save of a    *)
(* subscription outruns the posting.                                       *)
(***************************************************************************)
THEOREM ServiceIsRecorded == Spec => []PaidServiceIsRecorded
<1>1. IInv => PaidServiceIsRecorded
  BY DEF IInv, DbInv
<1> QED
  BY <1>1, Invariance, PTL

(***************************************************************************)
(* A payment in the ledger never looks untouched again: the stale saves of *)
(* the checkout and of the webhooks can change it, but not to PENDING.     *)
(***************************************************************************)
THEOREM SettledOnce == Spec => []RecordedIsNotPending
<1>1. IInv => RecordedIsNotPending
  BY DEF IInv, DbInv, RecordedIsSettled, RecordedIsNotPending, Settled
<1> QED
  BY <1>1, Invariance, PTL
=============================================================================
