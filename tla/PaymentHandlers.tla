--------------------------- MODULE PaymentHandlers ---------------------------
(***************************************************************************)
(* The checkout, the confirmation and the failure of a payment.            *)
(*   InitiatePaymentCheckoutUseCase  (subscribe, renew and upgrade)        *)
(*   ConfirmPaymentUseCase           (confirm endpoint, paid webhooks)     *)
(*   ConfirmSubscriptionPaymentService.confirm, called by both             *)
(*   FailPaymentUseCase              (failed, cancelled, unknown webhooks) *)
(***************************************************************************)
EXTENDS BillingState

-----------------------------------------------------------------------------
(* InitiatePaymentCheckoutUseCase.                                         *)

\* An active, priced plan.  renew and upgrade name a subscription.
BeginCheckout(h) ==
    /\ Begin(h, "checkout")
    /\ RoomForSub /\ RoomForPayment
    /\ \E action \in {"subscribe", "renew", "upgrade"},
          plan \in planIsActive \ {FreePlan}, s \in {0} \cup Stored :
        /\ (s = 0) <=> (action = "subscribe")
        /\ Become(h, [Idle EXCEPT !.at = "checkout.resolve", !.action = action,
                                  !.plan = plan, !.planIsActive = TRUE, !.s = s])
    /\ UNCHANGED <<world, school, subs, payments, ledger, history>>

\* resolveSubscription: the subscription found, changed in memory only, or
\* for subscribe the newest valid one if it has the plan.
ResolveSubscription(h) ==
    /\ At(h, "checkout.resolve")
    /\ LET f == frame[h]
           found == IF f.action = "subscribe"
                    THEN {s \in Newest(ValidActive) : subs[s].plan = f.plan}
                    ELSE {f.s}
       IN  \/ /\ found = {}
              /\ Goto(h, "checkout.newSub")
           \/ \E s \in found :
                 Become(h, [f EXCEPT
                    !.at = "checkout.create", !.s = s,
                    !.sub = IF f.action = "upgrade"
                            THEN ChangePlan(subs[s], f.plan) ELSE subs[s]])
    /\ UNCHANGED <<world, school, subs, payments, ledger, history>>

CreatePendingSubscription(h) ==
    /\ At(h, "checkout.newSub")
    /\ NewId \in Subs
    /\ SaveSub(NewId, CreatePending(frame[h].plan))
    /\ Become(h, [frame[h] EXCEPT !.at = "checkout.create", !.s = NewId,
                                  !.sub = CreatePending(frame[h].plan)])
    /\ UNCHANGED <<world, school, payments, ledger, history>>

CreatePendingPayment(h) ==
    /\ At(h, "checkout.create")
    /\ \E p \in Payments :
        /\ payments[p].status = "NONE"
        /\ \A q \in 1..(p - 1) : payments[q].status # "NONE"
        /\ LET payment == CreatePayment(frame[h].plan, frame[h].s) IN
            /\ SavePayment(p, payment)
            /\ Become(h, [frame[h] EXCEPT !.at = "checkout.gateway",
                                          !.p = p, !.payment = payment])
    /\ UNCHANGED <<world, school, subs, ledger, history>>

\* gateway.initiateCheckout.  A Findora that answers not ok throws, and the
\* payment stays PENDING.
GatewayAnswers(h) ==
    /\ At(h, "checkout.gateway")
    /\ \/ Goto(h, "checkout.save")
       \/ ~Simulated /\ Return(h)
    /\ UNCHANGED <<world, school, subs, payments, ledger, history>>

\* The payment as created, marked PROCESSING: what arrived meanwhile is
\* overwritten.  The simulated gateway goes on to confirm, with the rows in
\* memory.
SaveProcessing(h) ==
    /\ At(h, "checkout.save")
    /\ LET payment == MarkProcessing(frame[h].payment) IN
        /\ SavePayment(frame[h].p, payment)
        /\ IF Simulated
           THEN Become(h, [frame[h] EXCEPT !.at = "confirm.save",
                    !.payment = payment, !.id = GatewayId, !.t = now])
           ELSE Return(h)
    /\ UNCHANGED <<world, school, subs, ledger, history>>

-----------------------------------------------------------------------------
(* ConfirmPaymentUseCase: the reads before confirm().                      *)

BeginConfirm(h) ==
    /\ Begin(h, "confirm")
    /\ \E p \in Payments, given \in GivenIds :
        /\ payments[p].status # "NONE"
        /\ Become(h, [Idle EXCEPT
                !.at = "confirm.subscription", !.p = p, !.payment = payments[p],
                !.s = payments[p].sub,
                !.id = IF given # NoId THEN given
                       ELSE IF payments[p].externalId # NoId
                       THEN payments[p].externalId ELSE DefaultId])
    /\ UNCHANGED <<world, school, subs, payments, ledger, history>>

FindSubscription(h) ==
    /\ At(h, "confirm.subscription")
    /\ Become(h, [frame[h] EXCEPT !.at = "confirm.plan", !.sub = subs[frame[h].s]])
    /\ UNCHANGED <<world, school, subs, payments, ledger, history>>

FindPlan(h) ==
    /\ At(h, "confirm.plan")
    /\ LET plan == frame[h].payment.plan IN
        Become(h, [frame[h] EXCEPT !.at = "confirm.save", !.plan = plan,
                    !.planIsActive = plan \in planIsActive, !.t = now])
    /\ UNCHANGED <<world, school, subs, payments, ledger, history>>

-----------------------------------------------------------------------------
(* ConfirmSubscriptionPaymentService.confirm.                              *)

SaveConfirmedBeforeLedger(h) ==
    /\ At(h, "confirm.save")
    /\ CanConfirm(frame[h].payment, frame[h].id)
    /\ SavePayment(frame[h].p, ConfirmFromGateway(frame[h].payment, frame[h].id))
    /\ Goto(h, "confirm.apply")
    /\ UNCHANGED <<world, school, subs, ledger, history>>

\* confirmFromGateway on the payment in memory, then its save.
SaveConfirmed(h) ==
    /\ At(h, "confirm.save")
    /\ LET f == frame[h]
           payment == ConfirmFromGateway(f.payment, f.id)
       IN  IF CanConfirm(f.payment, f.id)
           THEN /\ SavePayment(f.p, payment)
                /\ Become(h, [f EXCEPT !.at = "confirm.revenue", !.payment = payment,
                                       !.alreadyPaid = f.payment.status = "PAID"])
           ELSE Return(h) /\ UNCHANGED payments
    /\ UNCHANGED <<world, school, subs, ledger, history>>

\* The two calls of WalletLedgerService.post, each one step (the theorem
\* Refinement of WalletLedgerProofs): the second post of a reference answers
\* duplicated.
PostRevenue(h) ==
    /\ At(h, "confirm.revenue")
    /\ revenue' = revenue \cup {frame[h].p}
    /\ Become(h, [frame[h] EXCEPT !.at = "confirm.receipt",
                                  !.duplicated = frame[h].p \in revenue])
    /\ UNCHANGED <<world, school, subs, payments, receipt, history>>

PostReceiptOfRepetition(h) ==
    /\ At(h, "confirm.receipt")
    /\ receipt' = receipt \cup {frame[h].p}
    /\ Goto(h, "confirm.apply")
    /\ UNCHANGED <<world, school, subs, payments, revenue, history>>

PostReceipt(h) ==
    /\ At(h, "confirm.receipt")
    /\ receipt' = receipt \cup {frame[h].p}
    /\ IF frame[h].alreadyPaid /\ frame[h].duplicated
       THEN /\ alreadyProcessed' = alreadyProcessed \cup {frame[h].p}
            /\ Return(h)
       ELSE Goto(h, "confirm.apply") /\ UNCHANGED alreadyProcessed
    /\ UNCHANGED <<world, school, subs, payments, revenue, applied>>

\* renew or activate, on the subscription in memory, then its save.  Of what
\* the request holds, the ids are all that is used from here on.
SaveSubscription(h) ==
    /\ At(h, "confirm.apply")
    /\ LET f == frame[h]
           sub == ApplyPayment(f.sub, f.plan, f.t)
       IN  IF CanApplyPayment(f.sub, f.plan, f.planIsActive)
           THEN /\ SaveSub(f.s, sub)
                /\ applied' = applied \cup {f.p}
                /\ Become(h, [Idle EXCEPT !.at = "confirm.others", !.p = f.p, !.s = f.s])
           ELSE Return(h) /\ UNCHANGED <<subs, applied>>
    /\ UNCHANGED <<world, school, payments, ledger, alreadyProcessed>>

FindNoOthers(h) ==
    /\ At(h, "confirm.others")
    /\ Goto(h, "confirm.school")
    /\ UNCHANGED <<world, school, subs, payments, ledger, history>>

FindOthers(h) ==
    /\ At(h, "confirm.others")
    /\ LET others == ActiveSubs \ {frame[h].s} IN
        Become(h, [frame[h] EXCEPT
            !.at = IF others = {} THEN "confirm.school" ELSE "confirm.expire",
            !.rest = ReadRows(others)])
    /\ UNCHANGED <<world, school, subs, payments, ledger, history>>

\* The others are saved one by one, newest first, as they were read.
ExpireOther(h) ==
    /\ At(h, "confirm.expire")
    /\ \E other \in frame[h].rest :
        /\ \A later \in frame[h].rest : later.id <= other.id
        /\ SaveSub(other.id, Expire(other.row))
        /\ LET rest == frame[h].rest \ {other} IN
            Become(h, [frame[h] EXCEPT !.rest = rest,
                !.at = IF rest = {} THEN "confirm.school" ELSE "confirm.expire"])
    /\ UNCHANGED <<world, school, payments, ledger, history>>

FindSchool(h) ==
    /\ At(h, "confirm.school")
    /\ Become(h, [frame[h] EXCEPT !.school = school,
            !.at = IF school = "ACTIVE" THEN "confirm.event" ELSE "confirm.saveSchool"])
    /\ UNCHANGED <<world, school, subs, payments, ledger, history>>

\* The whole row is saved, its status column included.
SaveActivatedSchool(h) ==
    /\ At(h, "confirm.saveSchool")
    /\ school' = ActivateAfterPaidSubscription(frame[h].school)
    /\ Goto(h, "confirm.event")
    /\ UNCHANGED <<world, subs, payments, ledger, history>>

\* The payment event, the audit entry and the owners' notification.
RecordEvent(h) ==
    /\ At(h, "confirm.event")
    /\ Return(h)
    /\ UNCHANGED <<world, school, subs, payments, ledger, history>>

-----------------------------------------------------------------------------
(* FailPaymentUseCase: whatever the payment's status is.                   *)

BeginFail(h) ==
    /\ Begin(h, "fail")
    /\ \E p \in Payments :
        /\ payments[p].status # "NONE"
        /\ Become(h, [Idle EXCEPT !.at = "fail.save", !.p = p,
                                  !.payment = payments[p]])
    /\ UNCHANGED <<world, school, subs, payments, ledger, history>>

SaveFailed(h) ==
    /\ At(h, "fail.save")
    /\ SavePayment(frame[h].p, FailPayment(frame[h].payment))
    /\ Return(h)
    /\ UNCHANGED <<world, school, subs, ledger, history>>

-----------------------------------------------------------------------------
CheckoutStep(h) ==
    \/ ResolveSubscription(h)
    \/ CreatePendingSubscription(h)
    \/ CreatePendingPayment(h)
    \/ GatewayAnswers(h)
    \/ SaveProcessing(h)

ConfirmStep(h) ==
    \/ FindSubscription(h)
    \/ FindPlan(h)
    \/ SaveConfirmed(h)
    \/ PostRevenue(h)
    \/ PostReceipt(h)
    \/ SaveSubscription(h)
    \/ FindOthers(h)
    \/ ExpireOther(h)
    \/ FindSchool(h)
    \/ SaveActivatedSchool(h)
    \/ RecordEvent(h)

PaymentStep(h) == CheckoutStep(h) \/ ConfirmStep(h) \/ SaveFailed(h)
PaymentRequest(h) == BeginCheckout(h) \/ BeginConfirm(h) \/ BeginFail(h)
=============================================================================
