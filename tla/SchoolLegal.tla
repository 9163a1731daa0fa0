----------------------------- MODULE SchoolLegal -----------------------------
(***************************************************************************)
(* The tax number (NIF) of the schools: submission, look-up at the tax     *)
(* authority (AGT), the admin's decision, and the daily job that suspends  *)
(* the schools whose time has run out.                                     *)
(*                                                                         *)
(* As in BillingState an action is one database statement, and a request   *)
(* holds copies of rows between its actions.  Unlike billing these saves   *)
(* write single columns (prisma update), the school's excepted.            *)
(*                                                                         *)
(* Time is in days.  Left out: owners, sectionUnread, the audit log, mails *)
(* and notifications (no guard reads them), requests that throw before     *)
(* they write, and the setting isAutoNifEnabled reads: the admin may       *)
(* switch it between any two statements, so a reading has either value.    *)
(***************************************************************************)
EXTENDS Integers

CONSTANTS
    Schools,
    Nifs,           \* well-formed NIFs
    NoNif,
    Registry,       \* Registry[nif]: the verdict of the AGT
    Handlers,       \* requests served at the same time
    Cron,           \* the job of 8 AM
    DeadlineDays,   \* NIF_SUBMISSION_DEADLINE_DAYS
    ReminderDays,   \* NIF_REMINDER_DAYS_REMAINING
    Operations,     \* Operations[h]: what h is asked in this instance, of which school
    Public,         \* the schools that other modules act on in this instance
    Decisions,      \* Decisions[s]: the statuses the admin gives s
    NifsOf,         \* NifsOf[s]: what s submits in this instance
    MaxTime, MaxFaults

ASSUME SchoolsAssumption == Schools # {}
ASSUME NoNifAssumption == NoNif \notin Nifs
ASSUME RegistryAssumption == Registry \in [Nifs -> {"ACTIVE", "INACTIVE"}]
ASSUME CronAssumption == Cron \notin Handlers
ASSUME PublicAssumption == Public \subseteq Schools
ASSUME DecisionsAssumption ==
    Decisions \in [Schools -> SUBSET {"ACTIVE", "SUSPENDED", "OTHER"}]
ASSUME NifsOfAssumption == NifsOf \in [Schools -> SUBSET Nifs]
ASSUME DaysAssumption ==
    /\ DeadlineDays \in Nat \ {0}
    /\ ReminderDays \in Nat
    /\ MaxTime \in Nat
    /\ MaxFaults \in Nat

Processes == Handlers \cup {Cron}

VARIABLES
    now,
    school,       \* schools.status
    reviewedAt,   \* schools.reviewedAt ?? createdAt; every school was created on day 1
    decidedAt,    \* history: the day of the last decision on the school
    served,       \* the school has an ACTIVE subscription
    profile,      \* school_legal_profiles
    frame,        \* the request a process is serving
    faults

vars == <<now, school, reviewedAt, decidedAt, served, profile, frame, faults>>
portal == <<school, reviewedAt, decidedAt, served>>
world == <<now, faults>>

\* OTHER stands for every other status.
SchoolStatus == {"ACTIVE", "SUSPENDED", "OTHER"}

NoDate == 0

\* NONE: the school has no row yet.
Profile ==
    [status : {"NONE", "NOT_SUBMITTED", "SUBMITTED", "VERIFIED", "REJECTED"},
     nif    : Nifs \cup {NoNif},
     mode   : {"NONE", "MANUAL", "AUTOMATIC"},
     inTime   : BOOLEAN,    \* of submittedAt: set, and not after the deadline
     deadline : Nat,        \* nifDeadlineAt
     reminded : BOOLEAN]    \* nifReminderSentAt is set

NoProfile ==
    [status |-> "NONE", nif |-> NoNif, mode |-> "NONE", inTime |-> FALSE,
     deadline |-> NoDate, reminded |-> FALSE]

Steps ==
    {"idle", "submit.upsert", "auto.profile", "auto.save",
     "manual.save", "reject.save", "view.clear", "view.school", "view.save",
     "notify.save", "job.remind", "job.school", "job.close", "job.save"}

Rows == [school : Schools, row : Profile]

Frame ==
    [at   : Steps,
     on   : Rows,              \* the school served, and its profile as the job read it
     nif  : Nifs \cup {NoNif}, \* the NIF submitted, or looked up
     t    : Nat,               \* the school's reviewedAt, or the job's now, as read
     rest : SUBSET Rows]       \* a findMany result not yet gone through

\* A request for s that holds nothing else.
Serving(s, step) ==
    [at |-> step, on |-> [school |-> s, row |-> NoProfile], nif |-> NoNif,
     t |-> 0, rest |-> {}]
AnySchool == CHOOSE s \in Schools : TRUE
Idle == Serving(AnySchool, "idle")

(***************************************************************************)
(* Profiles, and the copies of them in memory, have the columns' types.    *)
(***************************************************************************)
TypeOK ==
    /\ now \in Nat
    /\ school \in [Schools -> SchoolStatus]
    /\ reviewedAt \in [Schools -> Nat]
    /\ decidedAt \in [Schools -> Nat]
    /\ served \in [Schools -> BOOLEAN]
    /\ profile \in [Schools -> Profile]
    /\ frame \in [Processes -> Frame]
    /\ faults \in Nat

Init ==
    /\ now = 1
    /\ school = [s \in Schools |-> "OTHER"]
    /\ reviewedAt = [s \in Schools |-> 1]
    /\ decidedAt = [s \in Schools |-> 1]
    /\ served = [s \in Schools |-> FALSE]
    /\ profile = [s \in Schools |-> NoProfile]
    /\ frame = [h \in Processes |-> Idle]
    /\ faults = 0

-----------------------------------------------------------------------------
(* Frames and rows.                                                        *)

At(h, step) == frame[h].at = step
SchoolOf(h) == frame[h].on.school
Copy(h) == frame[h].on.row

Become(h, f) == frame' = [frame EXCEPT ![h] = f]
Goto(h, step) == Become(h, [frame[h] EXCEPT !.at = step])
Return(h) == Become(h, Idle)

\* A request for school s arrives; it goes on at step.
Begin(h, operation, s) == At(h, "idle") /\ <<operation, s>> \in Operations[h]
Open(h, s, step) == Become(h, Serving(s, step))

Save(s, row) == profile' = [profile EXCEPT ![s] = row]

NeedsNifSubmission(row) == row.status \in {"NOT_SUBMITTED", "REJECTED"}
ComputeNifDeadline(approvedAt) == approvedAt + DeadlineDays

TakenByAnother(s, nif) == \E other \in Schools \ {s} : profile[other].nif = nif

\* The row ensureProfile returns.
Ensured(s) ==
    IF profile[s].status = "NONE"
    THEN [NoProfile EXCEPT !.status = "NOT_SUBMITTED"]
    ELSE profile[s]

-----------------------------------------------------------------------------
(* The other modules, as this one sees them.                               *)

Tick ==
    /\ now < MaxTime
    /\ now' = now + 1
    /\ UNCHANGED <<portal, profile, frame, faults>>

\* The FREE plan or a payment makes the school public, without a review.
Publish(s) ==
    /\ school[s] = "OTHER"
    /\ school' = [school EXCEPT ![s] = "ACTIVE"]
    /\ served' = [served EXCEPT ![s] = TRUE]
    /\ UNCHANGED <<world, reviewedAt, decidedAt, profile, frame>>

\* The last subscription ends.
Expire(s) ==
    /\ school[s] = "ACTIVE"
    /\ school' = [school EXCEPT ![s] = "OTHER"]
    /\ served' = [served EXCEPT ![s] = FALSE]
    /\ UNCHANGED <<world, reviewedAt, decidedAt, profile, frame>>

\* submitForActivation forgets the review before.
SubmitForActivation(s) ==
    /\ school[s] = "OTHER"
    /\ reviewedAt' = [reviewedAt EXCEPT ![s] = 1]
    /\ UNCHANGED <<world, school, decidedAt, served, profile, frame>>

\* The admin sets a status, whatever it was, and grants or closes subscriptions;
\* the review's approval and rejection are among these decisions.
Decide(s, status) ==
    /\ school' = [school EXCEPT ![s] = status]
    /\ reviewedAt' = [reviewedAt EXCEPT ![s] = now]
    /\ decidedAt' = [decidedAt EXCEPT ![s] = now]
    /\ served' = [served EXCEPT ![s] =
                    status = "ACTIVE" \/ (@ /\ school[s] # "ACTIVE")]
    /\ UNCHANGED <<world, profile, frame>>

\* The job is lost at a statement: what it saved stays.  A request saves once
\* (submitNif's second save may stay away): losing it is no new behaviour.
Abort ==
    /\ ~At(Cron, "idle")
    /\ faults < MaxFaults
    /\ faults' = faults + 1
    /\ Return(Cron)
    /\ UNCHANGED <<now, portal, profile>>

-----------------------------------------------------------------------------
(* submitNif: the duplicate check, the upsert, and the automatic           *)
(* verification, whose exceptions are swallowed.                           *)

SubmitNif(h, s, nif) ==
    /\ Begin(h, "submit", s)
    /\ ~TakenByAnother(s, nif)
    /\ Become(h, [Serving(s, "submit.upsert") EXCEPT !.nif = nif])
    /\ UNCHANGED <<world, portal, profile>>

Submitted(s, nif) ==
    [status |-> "SUBMITTED", nif |-> nif, mode |-> "NONE",
     inTime |-> now <= ComputeNifDeadline(reviewedAt[s]),
     deadline |-> NoDate, reminded |-> FALSE]

SubmitUpsertUnchecked(h) ==
    LET s == SchoolOf(h) IN
    /\ At(h, "submit.upsert")
    /\ Save(s, Submitted(s, frame[h].nif))
    /\ Open(h, s, "auto.profile") \/ Return(h)
    /\ UNCHANGED <<world, portal>>

SubmitUpsert(h) ==
    LET s == SchoolOf(h) IN
    /\ At(h, "submit.upsert")
    /\ IF TakenByAnother(s, frame[h].nif)   \* nif is @unique: P2002
       THEN Return(h) /\ UNCHANGED profile
       ELSE /\ Save(s, Submitted(s, frame[h].nif))
            /\ Open(h, s, "auto.profile") \/ Return(h)   \* isAutoNifEnabled
    /\ UNCHANGED <<world, portal>>

-----------------------------------------------------------------------------
(* verifyNifAutomatic, from submitNif or from the admin.                   *)

VerifyNifAutomatic(h, s) ==
    /\ Begin(h, "auto", s)
    /\ Open(h, s, "auto.profile")
    /\ UNCHANGED <<world, portal, profile>>

AutoProfile(h) ==
    LET s == SchoolOf(h) IN
    /\ At(h, "auto.profile")
    /\ IF profile[s].status = "SUBMITTED"
       THEN Become(h, [frame[h] EXCEPT !.at = "auto.save", !.nif = profile[s].nif])
       ELSE Return(h)
    /\ UNCHANGED <<world, portal, profile>>

Verified(row, mode) ==
    [row EXCEPT !.status = "VERIFIED", !.mode = mode,
                !.deadline = NoDate, !.reminded = FALSE]
RejectedAsInvalid(row) == [row EXCEPT !.status = "INVALID", !.mode = "NONE"]

Rejected(row) == [row EXCEPT !.status = "REJECTED", !.mode = "NONE"]

\* "inactivo" tested for "activ" first.
AutoSaveInactiveToo(h) ==
    /\ At(h, "auto.save")
    /\ Save(SchoolOf(h), Verified(profile[SchoolOf(h)], "AUTOMATIC"))
    /\ Return(h)
    /\ UNCHANGED <<world, portal>>

\* The AGT answers for the NIF that was read; the update names the school only.
AutoSave(h) ==
    LET s == SchoolOf(h) IN
    /\ At(h, "auto.save")
    /\ \/ /\ Registry[frame[h].nif] = "ACTIVE"
          /\ Save(s, Verified(profile[s], "AUTOMATIC"))
       \/ /\ Registry[frame[h].nif] = "INACTIVE"
          /\ Save(s, Rejected(profile[s]))
       \/ UNCHANGED profile   \* UNKNOWN, or the AGT cannot be reached
    /\ Return(h)
    /\ UNCHANGED <<world, portal>>

-----------------------------------------------------------------------------
(* The admin's decision: verifyNifManual and rejectNif.                    *)

VerifyNifManual(h, s) ==
    /\ Begin(h, "manual", s)
    /\ profile[s].status = "SUBMITTED"
    /\ Open(h, s, "manual.save")
    /\ UNCHANGED <<world, portal, profile>>

ManualSave(h) ==
    /\ At(h, "manual.save")
    /\ Save(SchoolOf(h), Verified(profile[SchoolOf(h)], "MANUAL"))
    /\ Return(h)
    /\ UNCHANGED <<world, portal>>

RejectNif(h, s) ==
    /\ Begin(h, "reject", s)
    /\ profile[s].status = "SUBMITTED"
    /\ Open(h, s, "reject.save")
    /\ UNCHANGED <<world, portal, profile>>

RejectSave(h) ==
    /\ At(h, "reject.save")
    /\ Save(SchoolOf(h), Rejected(profile[SchoolOf(h)]))
    /\ Return(h)
    /\ UNCHANGED <<world, portal>>

-----------------------------------------------------------------------------
(* getOverview and getForAdmin, which synchronise the deadline, and        *)
(* notifySchoolApproved, which sets it.                                    *)

\* ensureProfile and the branches of syncNifDeadline.  (ensureProfile finds and
\* creates in two statements: the loser of a race throws, as in Abort.)
GetOverview(h, s) ==
    LET row == Ensured(s) IN
    /\ Begin(h, "view", s)
    /\ Save(s, row)
    /\ IF NeedsNifSubmission(row)
       THEN IF row.deadline = NoDate THEN Open(h, s, "view.school") ELSE Return(h)
       ELSE IF row.deadline # NoDate \/ row.reminded
            THEN Open(h, s, "view.clear") ELSE Return(h)
    /\ UNCHANGED <<world, portal>>

Due(row, date) == [row EXCEPT !.deadline = date]
DueAnew(row, date) == [row EXCEPT !.deadline = date, !.reminded = FALSE]

ViewClear(h) ==
    LET s == SchoolOf(h) IN
    /\ At(h, "view.clear")
    /\ Save(s, DueAnew(profile[s], NoDate))
    /\ Return(h)
    /\ UNCHANGED <<world, portal>>

ViewSchool(h) ==
    /\ At(h, "view.school")
    /\ IF school[SchoolOf(h)] = "ACTIVE"
       THEN Become(h, [frame[h] EXCEPT !.at = "view.save", !.t = reviewedAt[SchoolOf(h)]])
       ELSE Return(h)
    /\ UNCHANGED <<world, portal, profile>>

ViewSaveFromToday(h) ==
    LET s == SchoolOf(h) IN
    /\ At(h, "view.save")
    /\ Save(s, Due(profile[s], ComputeNifDeadline(now)))
    /\ Return(h)
    /\ UNCHANGED <<world, portal>>

ViewSave(h) ==
    LET s == SchoolOf(h) IN
    /\ At(h, "view.save")
    /\ Save(s, Due(profile[s], ComputeNifDeadline(frame[h].t)))
    /\ Return(h)
    /\ UNCHANGED <<world, portal>>

\* An endpoint of its own: no status of the school is asked for.
NotifySchoolApproved(h, s) ==
    /\ Begin(h, "notify", s)
    /\ Save(s, Ensured(s))
    /\ Become(h, [Serving(s, "notify.save") EXCEPT !.t = reviewedAt[s]])
    /\ UNCHANGED <<world, portal>>

NotifySave(h) ==
    LET s == SchoolOf(h) IN
    /\ At(h, "notify.save")
    /\ Save(s, DueAnew(profile[s], ComputeNifDeadline(frame[h].t)))
    /\ Return(h)
    /\ UNCHANGED <<world, portal>>

-----------------------------------------------------------------------------
(* EnforceNifDeadlineUseCase, every day at 8 AM.                           *)

Owing == {s \in Schools :
            /\ school[s] = "ACTIVE"
            /\ NeedsNifSubmission(profile[s])
            /\ profile[s].deadline # NoDate}
OverdueOnTheDay(t) == {s \in Owing : profile[s].deadline <= t}

OverdueAt(t) == {s \in Owing : profile[s].deadline < t}
ReadRows(ids) == {[school |-> s, row |-> profile[s]] : s \in ids}
DaysRemaining(s, t) == profile[s].deadline - t

\* The query of sendDueReminders, without the rows its loop passes over: those
\* that do not have exactly ReminderDays left.
BeginJob ==
    /\ At(Cron, "idle")
    /\ Become(Cron, [Serving(AnySchool, "job.remind") EXCEPT
                        !.t = now,
                        !.rest = {[school |-> s, row |-> NoProfile] :
                                    s \in {s \in Owing : /\ ~profile[s].reminded
                                                         /\ DaysRemaining(s, now) = ReminderDays}}])
    /\ UNCHANGED <<world, portal, profile>>

Reminded(row) == [row EXCEPT !.reminded = TRUE]

JobRemind ==
    /\ At(Cron, "job.remind")
    /\ \E r \in frame[Cron].rest :
          /\ Save(r.school, Reminded(profile[r.school]))
          /\ Become(Cron, [frame[Cron] EXCEPT !.rest = @ \ {r}])
    /\ UNCHANGED <<world, portal>>

\* The loop of suspendOverdueSchools: the next row, or the job is done.
JobGoesOn(rest) ==
    Become(Cron, IF rest = {} THEN Idle
                 ELSE [Serving(AnySchool, "job.school") EXCEPT !.rest = rest])

\* The query of suspendOverdueSchools.
JobOverdue ==
    /\ At(Cron, "job.remind")
    /\ frame[Cron].rest = {}
    /\ JobGoesOn(ReadRows(OverdueAt(frame[Cron].t)))
    /\ UNCHANGED <<world, portal, profile>>

JobSchoolServed ==
    /\ At(Cron, "job.school")
    /\ \E r \in frame[Cron].rest :
          IF school[r.school] = "ACTIVE" /\ served[r.school]
          THEN Become(Cron, [frame[Cron] EXCEPT !.at = "job.close", !.on = r, !.rest = @ \ {r},
                                                !.t = reviewedAt[r.school]])
          ELSE JobGoesOn(frame[Cron].rest \ {r})
    /\ UNCHANGED <<world, portal, profile>>

\* findById of the next school, whose status alone is looked at again.  (Of its
\* other columns, which JobSave writes back, the review's date matters here.)
JobSchool ==
    /\ At(Cron, "job.school")
    /\ \E r \in frame[Cron].rest :
          IF school[r.school] = "ACTIVE"
          THEN Become(Cron, [frame[Cron] EXCEPT !.at = "job.close", !.on = r, !.rest = @ \ {r},
                                                !.t = reviewedAt[r.school]])
          ELSE JobGoesOn(frame[Cron].rest \ {r})
    /\ UNCHANGED <<world, portal, profile>>

JobClose ==
    /\ At(Cron, "job.close")
    /\ served' = [served EXCEPT ![SchoolOf(Cron)] = FALSE]
    /\ Goto(Cron, "job.save")
    /\ UNCHANGED <<world, school, reviewedAt, decidedAt, profile>>

JobSave ==
    /\ At(Cron, "job.save")
    /\ school' = [school EXCEPT ![SchoolOf(Cron)] = "SUSPENDED"]
    /\ reviewedAt' = [reviewedAt EXCEPT ![SchoolOf(Cron)] = frame[Cron].t]
    /\ JobGoesOn(frame[Cron].rest)
    /\ UNCHANGED <<world, decidedAt, served, profile>>

-----------------------------------------------------------------------------
Environment(s) ==
    \/ Publish(s) \/ Expire(s) \/ SubmitForActivation(s)
    \/ \E status \in Decisions[s] : Decide(s, status)

Request(h, s) ==
    \/ \E nif \in NifsOf[s] : SubmitNif(h, s, nif)
    \/ VerifyNifAutomatic(h, s)
    \/ VerifyNifManual(h, s)
    \/ RejectNif(h, s)
    \/ GetOverview(h, s)
    \/ NotifySchoolApproved(h, s)

Step(h) ==
    \/ SubmitUpsert(h) \/ AutoProfile(h) \/ AutoSave(h)
    \/ ManualSave(h) \/ RejectSave(h)
    \/ ViewClear(h) \/ ViewSchool(h) \/ ViewSave(h)
    \/ NotifySave(h)

Job == JobRemind \/ JobOverdue \/ JobSchool \/ JobClose \/ JobSave

Next ==
    \/ Tick
    \/ \E s \in Public : Environment(s)
    \/ \E h \in Handlers : (\E s \in Schools : Request(h, s)) \/ Step(h)
    \/ BeginJob
    \/ Job
    \/ Abort

\* Every promise is served, and the scheduler starts the job day after day.
Fairness == WF_vars(Job) /\ WF_vars(BeginJob)

Spec == Init /\ [][Next]_vars
FairSpec == Spec /\ Fairness

-----------------------------------------------------------------------------
(* Properties.                                                             *)

(***************************************************************************)
(* Two schools never hold one NIF, however their submissions overlap       *)
(* between the duplicate check and the upsert ("Este NIF já está associado *)
(* a outro colégio na Ekanda").                                            *)
(***************************************************************************)
NifsAreUnique ==
    \A s, other \in Schools :
        profile[s].nif = profile[other].nif /\ profile[s].nif # NoNif => s = other

(***************************************************************************)
(* No school gets more than its ten days: resubmissions, rejections and    *)
(* visits of the page never move the deadline past the one that counts     *)
(* from the last decision on it (computeNifDeadline(approvedAt)).          *)
(***************************************************************************)
DeadlineNotExtended ==
    \A s \in Schools : profile[s].deadline <= ComputeNifDeadline(decidedAt[s])

(***************************************************************************)
(* A NIF becomes VERIFIED automatically only when the AGT has it as        *)
(* ACTIVE, except when the school submitted another while the look-up was  *)
(* on its way (markNifVerified names the school, not the NIF).             *)
(***************************************************************************)
LookUpOvertaken(s) ==
    \E h \in Handlers :
        /\ At(h, "auto.save")
        /\ SchoolOf(h) = s /\ frame'[h] # frame[h]
        /\ frame[h].nif # profile[s].nif
VerifiedRightly(s) ==
    profile[s].mode # "AUTOMATIC" /\ profile'[s].mode = "AUTOMATIC"
        => Registry[profile[s].nif] = "ACTIVE" \/ LookUpOvertaken(s)
VerifiedIsActiveAtAgt == [][\A s \in Schools : VerifiedRightly(s)]_vars

(***************************************************************************)
(* The job closes the subscriptions of a school, and suspends it, only     *)
(* after a deadline that has passed and while its NIF is owing, except     *)
(* when the row has changed since the job read its list (suspension for    *)
(* "Prazo de 10 dias para submissão do NIF expirado sem cumprimento").     *)
(***************************************************************************)
SuspendedRightly(s) ==
    /\ frame'[Cron] # frame[Cron]
    /\ \/ served[s] /\ ~served'[s]
       \/ school[s] = "ACTIVE" /\ school'[s] = "SUSPENDED"
    => /\ Copy(Cron).deadline \in 1..(now - 1)
       /\ NeedsNifSubmission(profile[s]) \/ profile[s] # Copy(Cron)
SuspendedOnlyOverdue == [][\A s \in Schools : SuspendedRightly(s)]_vars

(***************************************************************************)
(* An overdue school does not stay ACTIVE: the job gets to it, also after  *)
(* a crash between the closed subscription and the school's save.          *)
(***************************************************************************)
OverdueIsEnforced ==
    \A s \in Schools : s \in OverdueAt(now) ~> s \notin OverdueAt(now)

(***************************************************************************)
(* "Submeta o NIF ... até ... para evitar a suspensão do colégio": a       *)
(* school whose NIF was submitted by its deadline is not suspended for it. *)
(***************************************************************************)
SubmittedInTimeNotSuspended ==
    [][\A s \in Schools :
          JobSave /\ s = SchoolOf(Cron) => ~profile[s].inTime]_vars
=============================================================================
