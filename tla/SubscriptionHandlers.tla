------------------------ MODULE SubscriptionHandlers ------------------------
(***************************************************************************)
(* What happens to a subscription that is not a payment.                   *)
(*   CancelSubscriptionUseCase, CancelAdminSubscriptionUseCase             *)
(*   ExpireSubscriptionUseCase       (the hourly job)                      *)
(*   SchoolEntitlementService        (expiration found by a reader)        *)
(*   ActivateSchoolFreePlanUseCase   (the end of the onboarding)           *)
(*   ChangeSchoolStatusUseCase       (the admin)                           *)
(*   SubmitSchoolForActivationUseCase, ApproveSchoolUseCase,               *)
(*   RejectSchoolUseCase             (the review of a school)              *)
(* To a school and its subscriptions the NIF job does what the admin does  *)
(* who suspends an ACTIVE school.                                          *)
(***************************************************************************)
EXTENDS BillingState

-----------------------------------------------------------------------------
(* Cancelling the renewal: read, refuse what is not ACTIVE, save.          *)

BeginCancel(h) ==
    /\ Begin(h, "cancel")
    /\ \E s \in Stored :
        /\ CanScheduleCancel(subs[s])
        /\ Become(h, [Idle EXCEPT !.at = "cancel.save", !.s = s, !.sub = subs[s]])
    /\ UNCHANGED <<world, school, subs, payments, ledger, history>>

SaveCancelled(h) ==
    /\ At(h, "cancel.save")
    /\ SaveSub(frame[h].s, ScheduleCancelAtPeriodEnd(frame[h].sub))
    /\ Return(h)
    /\ UNCHANGED <<world, school, payments, ledger, history>>

-----------------------------------------------------------------------------
(* ExpireSubscriptionUseCase.  The batch is read once, with the job's now; *)
(* each row is saved as it was read, and then the school is looked at.     *)

BeginJob(h) ==
    /\ Begin(h, "job")
    /\ DueAt(now) # {}
    /\ Become(h, [Idle EXCEPT !.at = "job.save", !.t = now,
                              !.rest = ReadRows(DueAt(now))])
    /\ UNCHANGED <<world, school, subs, payments, ledger, history>>

\* The loop's next item, or the end of the job.
NextDue(h) ==
    IF frame[h].rest = {} THEN Return(h) ELSE Goto(h, "job.save")

SaveDueUnchanged(h) ==
    /\ At(h, "job.save")
    /\ \E due \in frame[h].rest :
        /\ SaveSub(due.id, due.row)
        /\ Become(h, [frame[h] EXCEPT !.at = "job.check", !.rest = @ \ {due}])
    /\ UNCHANGED <<world, school, payments, ledger, history>>

SaveDue(h) ==
    /\ At(h, "job.save")
    /\ \E due \in frame[h].rest :
        /\ \A other \in frame[h].rest : due.row.end <= other.row.end
        /\ SaveSub(due.id, Expire(due.row))
        /\ Become(h, [frame[h] EXCEPT !.at = "job.check", !.rest = @ \ {due}])
    /\ UNCHANGED <<world, school, payments, ledger, history>>

CheckNothingElse(h) ==
    /\ At(h, "job.check")
    /\ Goto(h, "job.school")
    /\ UNCHANGED <<world, school, subs, payments, ledger, history>>

LeaveSchoolAlone(h) ==
    /\ At(h, "job.check")
    /\ NextDue(h)
    /\ UNCHANGED <<world, school, subs, payments, ledger, history>>

CheckStillValid(h) ==
    /\ At(h, "job.check")
    /\ IF ValidActive = {} THEN Goto(h, "job.school") ELSE NextDue(h)
    /\ UNCHANGED <<world, school, subs, payments, ledger, history>>

FindSchoolOfDue(h) ==
    /\ At(h, "job.school")
    /\ IF school = "ACTIVE" THEN Goto(h, "job.saveSchool") ELSE NextDue(h)
    /\ UNCHANGED <<world, school, subs, payments, ledger, history>>

ExpireSchoolOfDue(h) ==
    /\ At(h, "job.saveSchool")
    /\ school' = "EXPIRED"
    /\ NextDue(h)
    /\ UNCHANGED <<world, subs, payments, ledger, history>>

-----------------------------------------------------------------------------
(* getDashboardSubscription, and loadContext when no subscription is       *)
(* valid: the latest subscription is expired if it is due, and the school  *)
(* with it.                                                                *)

BeginDashboard(h) ==
    /\ Begin(h, "dashboard")
    /\ \E latest \in Newest(Stored) :
        /\ IsDue(subs[latest], now)
        /\ Become(h, [Idle EXCEPT !.at = "dashboard.save", !.s = latest,
                                  !.sub = subs[latest]])
    /\ UNCHANGED <<world, school, subs, payments, ledger, history>>

SaveLatestExpired(h) ==
    /\ At(h, "dashboard.save")
    /\ SaveSub(frame[h].s, Expire(frame[h].sub))
    /\ Become(h, [Idle EXCEPT !.at = "dashboard.school"])
    /\ UNCHANGED <<world, school, payments, ledger, history>>

FindSchoolOfLatest(h) ==
    /\ At(h, "dashboard.school")
    /\ IF school = "ACTIVE" THEN Goto(h, "dashboard.saveSchool") ELSE Return(h)
    /\ UNCHANGED <<world, school, subs, payments, ledger, history>>

ExpireSchoolOfLatest(h) ==
    /\ At(h, "dashboard.saveSchool")
    /\ school' = "EXPIRED"
    /\ Return(h)
    /\ UNCHANGED <<world, subs, payments, ledger, history>>

-----------------------------------------------------------------------------
(* ActivateSchoolFreePlanUseCase.                                          *)

BeginFreePlan(h) ==
    /\ Begin(h, "freePlan")
    /\ RoomForSub
    /\ Become(h, [Idle EXCEPT !.at = "free.plan", !.t = now, !.school = school])
    /\ UNCHANGED <<world, school, subs, payments, ledger, history>>

FindFreePlan(h) ==
    /\ At(h, "free.plan")
    /\ IF FreePlan \in planIsActive THEN Goto(h, "free.find") ELSE Return(h)
    /\ UNCHANGED <<world, school, subs, payments, ledger, history>>

\* findFreeBySchoolId: the oldest subscription whose plan is FREE by now.
FindFree(h) ==
    /\ At(h, "free.find")
    /\ \/ FreeSubs = {} /\ Goto(h, "free.valid")
       \/ \E s \in Oldest(FreeSubs) :
            IF IsDue(subs[s], frame[h].t)
            THEN Become(h, [frame[h] EXCEPT !.at = "free.save",
                                            !.s = s, !.sub = subs[s]])
            ELSE Return(h)
    /\ UNCHANGED <<world, school, subs, payments, ledger, history>>

SaveFreeExpired(h) ==
    /\ At(h, "free.save")
    /\ SaveSub(frame[h].s, Expire(frame[h].sub))
    /\ IF frame[h].school = "ACTIVE" THEN Goto(h, "free.saveSchool") ELSE Return(h)
    /\ UNCHANGED <<world, school, payments, ledger, history>>

ExpireSchoolOfFree(h) ==
    /\ At(h, "free.saveSchool")
    /\ school' = "EXPIRED"
    /\ Return(h)
    /\ UNCHANGED <<world, subs, payments, ledger, history>>

\* A valid subscription of a paid plan is left alone.
FindValidBeforeFree(h) ==
    /\ At(h, "free.valid")
    /\ IF \E s \in Newest(ValidActive) : subs[s].plan # FreePlan
       THEN Return(h) ELSE Goto(h, "free.create")
    /\ UNCHANGED <<world, school, subs, payments, ledger, history>>

CreateFree(h) ==
    /\ At(h, "free.create")
    /\ NewId \in Subs
    /\ SaveSub(NewId, CreateFreePlan(frame[h].t))
    /\ Return(h)
    /\ UNCHANGED <<world, school, payments, ledger, history>>

-----------------------------------------------------------------------------
(* ChangeSchoolStatusUseCase.  Leaving ACTIVE closes the subscriptions;    *)
(* ACTIVE closes them and grants one, of an active plan (read right after  *)
(* the school, whose copy that branch does not use).                       *)

BeginChangeStatus(h) ==
    /\ Begin(h, "adminStatus")
    /\ \E target \in AdminTargets, plan \in Plans :
        /\ IF target = "ACTIVE" THEN plan \in planIsActive /\ RoomForSub
                                ELSE plan = FreePlan
        /\ Become(h, [Idle EXCEPT
                !.at = IF "ACTIVE" \in {target, school}
                       THEN "admin.list" ELSE "admin.save",
                !.plan = plan, !.t = now, !.school = school, !.target = target])
    /\ UNCHANGED <<world, school, subs, payments, ledger, history>>

\* What comes after closeActiveSubscriptions.
AfterClosing(f) == IF f.target = "ACTIVE" THEN "admin.grant" ELSE "admin.save"

ListActive(h) ==
    /\ At(h, "admin.list")
    /\ Become(h, [frame[h] EXCEPT
            !.at = IF ActiveSubs = {} THEN AfterClosing(frame[h]) ELSE "admin.close",
            !.rest = ReadRows(ActiveSubs)])
    /\ UNCHANGED <<world, school, subs, payments, ledger, history>>

CloseActive(h) ==
    /\ At(h, "admin.close")
    /\ \E active \in frame[h].rest :
        /\ \A later \in frame[h].rest : later.id <= active.id
        /\ SaveSub(active.id, Expire(active.row))
        /\ LET rest == frame[h].rest \ {active} IN
            Become(h, [frame[h] EXCEPT !.rest = rest,
                !.at = IF rest = {} THEN AfterClosing(frame[h]) ELSE "admin.close"])
    /\ UNCHANGED <<world, school, payments, ledger, history>>

SaveGrant(h) ==
    /\ At(h, "admin.grant")
    /\ NewId \in Subs
    /\ SaveSub(NewId, CreateAdminGrant(frame[h].plan, frame[h].t))
    /\ Goto(h, "admin.save")
    /\ UNCHANGED <<world, school, payments, ledger, history>>

SaveAdminStatus(h) ==
    /\ At(h, "admin.save")
    /\ school' = frame[h].target
    /\ Return(h)
    /\ UNCHANGED <<world, subs, payments, ledger, history>>

-----------------------------------------------------------------------------
(* The review of a school.  Submission reads the latest subscription as a  *)
(* dashboard does, and any that is not EXPIRED will do, one that was never *)
(* paid included; the decision does not look at subscriptions.  (What else *)
(* a submission needs of the profile is SchoolPortal's.)                   *)

Submittable == {"DRAFT", "REJECTED", "PENDING_PAYMENT"}

BeginSubmit(h) ==
    /\ Begin(h, "submit")
    /\ school \notin {"PENDING_REVIEW", "ACTIVE"}
    /\ Become(h, [Idle EXCEPT !.at = "submit.plan", !.school = school])
    /\ UNCHANGED <<world, school, subs, payments, ledger, history>>

CheckSubscription(h) ==
    /\ At(h, "submit.plan")
    /\ \/ Stored = {} /\ Return(h)
       \/ \E latest \in Newest(Stored) :
            CASE IsDue(subs[latest], now) ->
                     Become(h, [Idle EXCEPT !.at = "dashboard.save", !.s = latest,
                                            !.sub = subs[latest]])
              [] /\ subs[latest].status # "EXPIRED" /\ ~IsDue(subs[latest], now)
                 /\ frame[h].school \in Submittable -> Goto(h, "submit.save")
              [] OTHER -> Return(h)
    /\ UNCHANGED <<world, school, subs, payments, ledger, history>>

SaveSubmitted(h) ==
    /\ At(h, "submit.save")
    /\ school' = "PENDING_REVIEW"
    /\ Return(h)
    /\ UNCHANGED <<world, subs, payments, ledger, history>>

BeginReview(h) ==
    /\ Begin(h, "review")
    /\ school = "PENDING_REVIEW"
    /\ \E decision \in {"ACTIVE", "REJECTED"} :
        Become(h, [Idle EXCEPT !.at = "review.save", !.school = school,
                               !.target = decision])
    /\ UNCHANGED <<world, school, subs, payments, ledger, history>>

SaveReview(h) ==
    /\ At(h, "review.save")
    /\ school' = frame[h].target
    /\ Return(h)
    /\ UNCHANGED <<world, subs, payments, ledger, history>>

-----------------------------------------------------------------------------
JobStep(h) ==
    \/ SaveDue(h)
    \/ CheckStillValid(h)
    \/ FindSchoolOfDue(h)
    \/ ExpireSchoolOfDue(h)

DashboardStep(h) ==
    \/ SaveLatestExpired(h)
    \/ FindSchoolOfLatest(h)
    \/ ExpireSchoolOfLatest(h)

FreePlanStep(h) ==
    \/ FindFreePlan(h)
    \/ FindFree(h)
    \/ SaveFreeExpired(h)
    \/ ExpireSchoolOfFree(h)
    \/ FindValidBeforeFree(h)
    \/ CreateFree(h)

AdminStep(h) ==
    \/ ListActive(h)
    \/ CloseActive(h)
    \/ SaveGrant(h)
    \/ SaveAdminStatus(h)

ReviewStep(h) ==
    \/ CheckSubscription(h)
    \/ SaveSubmitted(h)
    \/ SaveReview(h)

SubscriptionStep(h) ==
    \/ SaveCancelled(h)
    \/ JobStep(h) \/ DashboardStep(h)
    \/ FreePlanStep(h) \/ AdminStep(h) \/ ReviewStep(h)
SubscriptionRequest(h) ==
    \/ BeginCancel(h) \/ BeginDashboard(h)
    \/ BeginFreePlan(h) \/ BeginChangeStatus(h)
    \/ BeginSubmit(h) \/ BeginReview(h)
=============================================================================
