------------------------ MODULE SchoolProfileHandlers ------------------------
(***************************************************************************)
(* The requests that read the school's row and save it: the owner's        *)
(* profile, logo and submission, the decisions of the platform, the NIF    *)
(* job, and what billing does to the row (BillingState has subscriptions   *)
(* in full, SchoolLegal the deadline of the NIF).                          *)
(***************************************************************************)
EXTENDS SchoolOfferHandlers

\* A request has read the school and goes on at step, to save next.
Holding(h, step, next, old) ==
    Become(h, [Idle EXCEPT !.at = step, !.copy = school, !.next = next, !.old = old])

-----------------------------------------------------------------------------
(* Creation: the logo is uploaded, then the school, its owner's membership *)
(* and its location are created in one transaction.                        *)

BeginCreate(h) ==
    /\ At(h, "idle")
    /\ "create" \in agenda
    /\ requests < MaxRequests
    /\ requests' = requests + 1
    /\ school.status = "NONE"
    /\ \E described \in BOOLEAN :
        \/ \E logo \in LogoUrls :
            Name(FileBehind(logo)) /\ Holding(h, "create.save", Create(described, logo), {})
        \/ Name({}) /\ Holding(h, "create.upload", Create(described, NoFile), {})
    /\ UNCHANGED <<SchoolRows, OfferRows, PriceRows, faults, agenda, stale>>

UploadFirstLogo(h) ==
    /\ At(h, "create.upload")
    /\ Upload(h, "create.save")
    /\ UNCHANGED <<SchoolRows, OfferRows, PriceRows, counters, stale>>

\* The logo the request saves: the file it uploaded, or the URL it was given.
LogoOf(h) == IF frame[h].new = NoFile THEN frame[h].next.logo ELSE frame[h].new

CreateWithOwner(h) ==
    /\ At(h, "create.save")
    /\ school.status = "NONE"
    /\ school' = [frame[h].next EXCEPT !.logo = LogoOf(h)]
    /\ located' \in BOOLEAN
    /\ Return(h)
    /\ UNCHANGED <<plan, services, levels, class, synced, PriceRows, Media, counters, stale>>

-----------------------------------------------------------------------------
(* Profile and logo.                                                       *)

\* A logo comes as a file, as a URL (an empty one removes it), or not at all.
\* The URL of the present logo names no other file.
BeginUpdate(h) ==
    /\ Begin(h, "update")
    /\ \E described \in BOOLEAN :
        \/ \E logo \in LogoUrls \cup {school.logo} :
            /\ Name(FileBehind(logo) \ {school.logo})
            /\ Holding(h, "update.save", UpdateProfile(school, described, logo), {})
        \/ /\ Name({})
           /\ Holding(h, "update.upload", UpdateProfile(school, described, school.logo),
                      FileBehind(school.logo))
    /\ UNCHANGED <<SchoolRows, OfferRows, PriceRows, stale>>

UploadLogo(h) ==
    /\ At(h, "update.upload")
    /\ Upload(h, "update.save")
    /\ UNCHANGED <<SchoolRows, OfferRows, PriceRows, counters, stale>>

SaveProfile(h) ==
    /\ At(h, "update.save")
    /\ SaveSchoolRow(h, [frame[h].next EXCEPT !.logo = LogoOf(h)])
    /\ IF frame[h].old = {} THEN Return(h) ELSE Goto(h, "update.delete")
    /\ UNCHANGED <<plan, OfferRows, PriceRows, Media, counters>>

DeletePreviousLogo(h) ==
    /\ At(h, "update.delete")
    /\ DeleteFiles(frame[h].old)
    /\ Return(h)
    /\ UNCHANGED <<SchoolRows, OfferRows, PriceRows, counters, stale>>

BeginDeleteLogo(h) ==
    /\ Begin(h, "deleteLogo")
    /\ school.logo # NoFile
    /\ Holding(h, "logo.save", [school EXCEPT !.logo = NoFile], FileBehind(school.logo))
    /\ UNCHANGED <<SchoolRows, OfferRows, PriceRows, Media, stale>>

DeleteLogoFirst(h) ==
    /\ At(h, "logo.save")
    /\ Goto(h, "logo.delete")
    /\ UNCHANGED <<SchoolRows, OfferRows, PriceRows, Media, counters, stale>>

SaveWithoutLogo(h) ==
    /\ At(h, "logo.save")
    /\ SaveSchoolRow(h, frame[h].next)
    /\ Goto(h, "logo.delete")
    /\ UNCHANGED <<plan, OfferRows, PriceRows, Media, counters>>

DeleteLogoFile(h) ==
    /\ At(h, "logo.delete")
    /\ DeleteFiles(frame[h].old)
    /\ Return(h)
    /\ UNCHANGED <<SchoolRows, OfferRows, PriceRows, counters, stale>>

-----------------------------------------------------------------------------
(* Completion of the onboarding: review, FREE plan, submission.            *)

BeginComplete(h) ==
    /\ Begin(h, "complete")
    /\ EvaluateSchoolOnboarding
    /\ Become(h, [Idle EXCEPT !.at = "complete.free"])
    /\ UNCHANGED <<SchoolRows, OfferRows, PriceRows, Media, stale>>

\* ActivateSchoolFreePlan reads the school before it looks for subscriptions.
ReadForFreePlan(h) ==
    /\ At(h, "complete.free")
    /\ Holding(h, "free.find", school, {})
    /\ UNCHANGED <<SchoolRows, OfferRows, PriceRows, Media, counters, stale>>

\* An existing FREE subscription that is due is saved EXPIRED, and then the
\* school; a valid one of another plan is enough; else FREE is granted.
FindFreePlan(h) ==
    /\ At(h, "free.find")
    /\ IF plan.free /\ plan.state = "DUE"
       THEN plan' = Ended(plan) ELSE UNCHANGED plan
    /\ Become(h,
          CASE plan.free /\ plan.state = "DUE" /\ frame[h].copy.status = "ACTIVE" ->
                   [frame[h] EXCEPT !.at = "free.expire", !.next = Expire(frame[h].copy)]
            [] ~plan.free /\ plan.state # "VALID" -> [frame[h] EXCEPT !.at = "free.create"]
            [] OTHER -> [frame[h] EXCEPT !.at = "complete.latest"])
    /\ UNCHANGED <<school, OfferRows, PriceRows, Media, counters, stale>>

CreateFreePlan(h) ==
    /\ At(h, "free.create")
    /\ plan' = FreePlan
    /\ Goto(h, "complete.latest")
    /\ UNCHANGED <<school, OfferRows, PriceRows, Media, counters, stale>>

ExpireFreeSchool(h) ==
    /\ At(h, "free.expire")
    /\ SaveSchoolRow(h, frame[h].next)
    /\ Goto(h, "complete.latest")
    /\ UNCHANGED <<plan, OfferRows, PriceRows, Media, counters>>

ReadLatest(h) ==
    /\ At(h, "complete.latest")
    /\ IF CanSubmit(school) THEN Goto(h, "submit.find") ELSE Return(h)
    /\ UNCHANGED <<SchoolRows, OfferRows, PriceRows, Media, counters, stale>>

\* The school comes with its location and its classes; one class, even an
\* inactive one, counts as an active class.
FindForSubmission(h) ==
    /\ At(h, "submit.find")
    /\ IF school.status \in {"PENDING_REVIEW", "ACTIVE"}
       THEN Return(h)
       ELSE Become(h, [frame[h] EXCEPT
                          !.at = "submit.plan", !.copy = school,
                          !.next = SubmitForActivation(school),
                          !.ready = school.described /\ located /\ class # "NONE"])
    /\ UNCHANGED <<SchoolRows, OfferRows, PriceRows, Media, counters, stale>>

\* getDashboardSubscription ends a subscription that is due, and then the
\* school; the submission needs a valid one (or one never paid: Billing's).
CheckPlanForSubmission(h) ==
    /\ At(h, "submit.plan")
    /\ plan' = IF plan.state = "DUE" THEN Ended(plan) ELSE plan
    /\ CASE plan.state = "VALID" /\ frame[h].ready /\ CanSubmit(frame[h].copy) ->
                Goto(h, "submit.save")
         [] plan.state = "DUE" -> Goto(h, "job.school")
         [] OTHER -> Return(h)
    /\ UNCHANGED <<school, OfferRows, PriceRows, Media, counters, stale>>

SaveSubmitted(h) ==
    /\ At(h, "submit.save")
    /\ SaveSchoolRow(h, frame[h].next)
    /\ Return(h)
    /\ UNCHANGED <<plan, OfferRows, PriceRows, Media, counters>>

-----------------------------------------------------------------------------
(* The platform's decisions.                                               *)

BeginApprove(h) ==
    /\ Begin(h, "approve")
    /\ school.status = "PENDING_REVIEW"
    /\ Holding(h, "approve.save", ApproveFromReview(school), {})
    /\ UNCHANGED <<SchoolRows, OfferRows, PriceRows, Media, stale>>

SaveApproved(h) ==
    /\ At(h, "approve.save")
    /\ SaveSchoolRow(h, frame[h].next)
    /\ Return(h)
    /\ UNCHANGED <<plan, OfferRows, PriceRows, Media, counters>>

BeginReject(h) ==
    /\ Begin(h, "reject")
    /\ school.status = "PENDING_REVIEW"
    /\ Holding(h, "reject.save", RejectFromReview(school), {})
    /\ UNCHANGED <<SchoolRows, OfferRows, PriceRows, Media, stale>>

SaveRejected(h) ==
    /\ At(h, "reject.save")
    /\ SaveSchoolRow(h, frame[h].next)
    /\ Return(h)
    /\ UNCHANGED <<plan, OfferRows, PriceRows, Media, counters>>

\* Suspending and rejecting need a reason, activating needs a plan to grant.
BeginChangeStatus(h) ==
    /\ Begin(h, "admin")
    /\ \E to \in SchoolStatus \ {"NONE"} :
        Holding(h, "admin.plan", ApplyAdminStatus(school, to), {})
    /\ UNCHANGED <<SchoolRows, OfferRows, PriceRows, Media, stale>>

\* The subscriptions are closed, and one is granted, before the school is saved.
ChangePlan(h) ==
    /\ At(h, "admin.plan")
    /\ CASE frame[h].next.status = "ACTIVE" -> plan' \in {PaidPlan, FreePlan}
         [] frame[h].next.status # "ACTIVE" /\ frame[h].copy.status = "ACTIVE" -> plan' = Ended(plan)
         [] OTHER -> UNCHANGED plan
    /\ Goto(h, "admin.save")
    /\ UNCHANGED <<school, OfferRows, PriceRows, Media, counters, stale>>

SaveAdminStatus(h) ==
    /\ At(h, "admin.save")
    /\ SaveSchoolRow(h, frame[h].next)
    /\ Return(h)
    /\ UNCHANGED <<plan, OfferRows, PriceRows, Media, counters>>

-----------------------------------------------------------------------------
(* Billing: a confirmed payment, and the end of a subscription.            *)

ConfirmPayment(h) ==
    /\ Begin(h, "pay")
    /\ plan' = PaidPlan
    /\ Become(h, [Idle EXCEPT !.at = "pay.school"])
    /\ UNCHANGED <<school, OfferRows, PriceRows, Media, stale>>

\* A school that is published already is not saved.
FindPaidSchool(h) ==
    /\ At(h, "pay.school")
    /\ IF school.status = "ACTIVE"
       THEN Return(h)
       ELSE Holding(h, "pay.save", ActivateAfterPaidSubscription(school), {})
    /\ UNCHANGED <<SchoolRows, OfferRows, PriceRows, Media, counters, stale>>

SavePaidSchool(h) ==
    /\ At(h, "pay.save")
    /\ SaveSchoolRow(h, frame[h].next)
    /\ Return(h)
    /\ UNCHANGED <<plan, OfferRows, PriceRows, Media, counters>>

PlanBecomesDue ==
    /\ plan.state = "VALID"
    /\ plan' = [plan EXCEPT !.state = "DUE"]
    /\ UNCHANGED <<school, OfferRows, PriceRows, Media, frame, counters, stale>>

\* The daily job, or any reader of the subscription, finds it due.
ExpirePlan(h) ==
    /\ Begin(h, "expire")
    /\ plan.state = "DUE"
    /\ plan' = Ended(plan)
    /\ Become(h, [Idle EXCEPT !.at = "job.school"])
    /\ UNCHANGED <<school, OfferRows, PriceRows, Media, stale>>

FindDueSchool(h) ==
    /\ At(h, "job.school")
    /\ IF school.status = "ACTIVE"
       THEN Holding(h, "job.save", Expire(school), {})
       ELSE Return(h)
    /\ UNCHANGED <<SchoolRows, OfferRows, PriceRows, Media, counters, stale>>

SaveExpiredSchool(h) ==
    /\ At(h, "job.save")
    /\ SaveSchoolRow(h, frame[h].next)
    /\ Return(h)
    /\ UNCHANGED <<plan, OfferRows, PriceRows, Media, counters>>

-----------------------------------------------------------------------------
(* The NIF job, at an ACTIVE school whose NIF is overdue: it closes the    *)
(* subscriptions and saves the school it had read, without a reason.       *)

BeginNifSuspension(h) ==
    /\ Begin(h, "nif")
    /\ school.status = "ACTIVE"
    /\ Holding(h, "nif.plan", Suspend(school), {})
    /\ UNCHANGED <<SchoolRows, OfferRows, PriceRows, Media, stale>>

ClosePlanForNif(h) ==
    /\ At(h, "nif.plan")
    /\ plan' = Ended(plan)
    /\ Goto(h, "nif.save")
    /\ UNCHANGED <<school, OfferRows, PriceRows, Media, counters, stale>>

SaveSuspended(h) ==
    /\ At(h, "nif.save")
    /\ SaveSchoolRow(h, frame[h].next)
    /\ Return(h)
    /\ UNCHANGED <<plan, OfferRows, PriceRows, Media, counters>>

ProfileStep(h) ==
    \/ BeginCreate(h) \/ UploadFirstLogo(h) \/ CreateWithOwner(h)
    \/ BeginUpdate(h) \/ UploadLogo(h) \/ SaveProfile(h) \/ DeletePreviousLogo(h)
    \/ BeginDeleteLogo(h) \/ SaveWithoutLogo(h) \/ DeleteLogoFile(h)

StatusStep(h) ==
    \/ BeginComplete(h) \/ ReadForFreePlan(h) \/ FindFreePlan(h) \/ CreateFreePlan(h)
    \/ ExpireFreeSchool(h) \/ ReadLatest(h) \/ FindForSubmission(h)
    \/ CheckPlanForSubmission(h) \/ SaveSubmitted(h)
    \/ BeginApprove(h) \/ SaveApproved(h) \/ BeginReject(h) \/ SaveRejected(h)
    \/ BeginChangeStatus(h) \/ ChangePlan(h) \/ SaveAdminStatus(h)
    \/ ConfirmPayment(h) \/ FindPaidSchool(h) \/ SavePaidSchool(h)
    \/ ExpirePlan(h) \/ FindDueSchool(h) \/ SaveExpiredSchool(h)
    \/ BeginNifSuspension(h) \/ ClosePlanForNif(h) \/ SaveSuspended(h)
=============================================================================
