-------------------------- MODULE SchoolLegalProofs --------------------------
(***************************************************************************)
(* For every number of schools, NIFs and concurrent requests, every        *)
(* deadline and any crashes of the job: the types, NifsAreUnique,          *)
(* DeadlineNotExtended, VerifiedIsActiveAtAgt and SuspendedOnlyOverdue.    *)
(*                                                                         *)
(* A deadline is saved from a reviewedAt read earlier, and a school is     *)
(* suspended by a row read earlier.  IInv says what such a copy still has  *)
(* in common with the present: a review's date can be taken back, but no   *)
(* copy of it is ever later than the last decision, and a day that was     *)
(* past is past.                                                           *)
(***************************************************************************)
EXTENDS SchoolLegal, TLAPS

Overdue(row) == NeedsNifSubmission(row) /\ row.deadline \in 1..(now - 1)

HoldsReview(f) ==
    f.at \in {"view.save", "notify.save", "job.close", "job.save"}
        => f.t <= decidedAt[f.on.school]

HoldsOverdue(f) ==
    /\ f.at = "job.remind" => f.t <= now
    /\ f.at \in {"job.close", "job.save"} => Overdue(f.on.row)
    /\ f.at # "job.remind" => \A r \in f.rest : Overdue(r.row)

FrameInv(f) == HoldsReview(f) /\ HoldsOverdue(f)

ReviewedBefore ==
    \A s \in Schools :
        1 <= decidedAt[s] /\ reviewedAt[s] <= decidedAt[s] /\ decidedAt[s] <= now

DbInv == NifsAreUnique /\ DeadlineNotExtended /\ ReviewedBefore

IInv == TypeOK /\ DbInv /\ \A h \in Processes : FrameInv(frame[h])

\* What no step takes back.
Stable ==
    /\ now' \in Nat /\ now <= now'
    /\ decidedAt' \in [Schools -> Nat]
    /\ \A s \in Schools : decidedAt[s] <= decidedAt'[s]

-----------------------------------------------------------------------------
(* Frames.                                                                 *)

\* There is a school.
LEMMA AnySchoolType == AnySchool \in Schools
BY SchoolsAssumption DEF AnySchool

\* The absent profile has its type.
LEMMA NoProfileType == NoProfile \in Profile
BY DEF NoProfile, Profile, NoDate

\* A frame that holds nothing but its school.
LEMMA ServingInv ==
    ASSUME NEW s \in Schools, NEW step \in Steps
    PROVE  /\ Serving(s, step) \in Frame
           /\ step \notin {"view.save", "notify.save", "job.remind", "job.close", "job.save"}
                 => FrameInv(Serving(s, step))
<1>1. Serving(s, step) \in Frame
  BY NoProfileType DEF Serving, Frame, Rows
<1>2. step \notin {"view.save", "notify.save", "job.remind", "job.close", "job.save"}
         => FrameInv(Serving(s, step))
  BY DEF Serving, FrameInv, HoldsReview, HoldsOverdue
<1> QED
  BY <1>1, <1>2

\* An idle frame holds nothing that could be stale.
LEMMA IdleInv == Idle \in Frame /\ FrameInv(Idle)
BY ServingInv, AnySchoolType DEF Idle, Steps

\* The initial state has no profiles and only idle frames.
LEMMA InitIInv == Init => IInv
<1> SUFFICES ASSUME Init PROVE IInv
  OBVIOUS
<1>1. TypeOK
  BY IdleInv, NoProfileType DEF Init, TypeOK, SchoolStatus
<1>2. DbInv
  BY DaysAssumption DEF Init, DbInv, NifsAreUnique, DeadlineNotExtended,
     ReviewedBefore, ComputeNifDeadline, NoProfile, NoDate
<1>3. \A h \in Processes : FrameInv(frame[h])
  BY IdleInv DEF Init
<1> QED
  BY <1>1, <1>2, <1>3 DEF IInv

\* What a frame holds stays true while the frame does not change.
LEMMA FrameInvStable ==
    ASSUME TypeOK, Stable, NEW f \in Frame, FrameInv(f)
    PROVE  FrameInv(f)'
<1>1. HoldsReview(f)'
  BY DEF FrameInv, HoldsReview, Stable, TypeOK, Frame, Rows
<1>2. ASSUME NEW r \in Rows, Overdue(r.row) PROVE Overdue(r.row)'
  BY <1>2 DEF Overdue, NeedsNifSubmission, Rows, Profile, Stable, TypeOK
<1>3. HoldsOverdue(f)'
  <2>1. f.at = "job.remind" => f.t <= now'
    BY DEF FrameInv, HoldsOverdue, Stable, TypeOK, Frame
  <2>2. f.at \in {"job.close", "job.save"} => Overdue(f.on.row)'
    BY <1>2 DEF FrameInv, HoldsOverdue, Frame
  <2>3. f.at # "job.remind" => \A r \in f.rest : Overdue(r.row)'
    BY <1>2 DEF FrameInv, HoldsOverdue, Frame
  <2> QED
    BY <2>1, <2>2, <2>3 DEF HoldsOverdue
<1> QED
  BY <1>1, <1>3 DEF FrameInv

\* The frames' part of a step: the request that moves, and the others.
LEMMA FramesKept ==
    ASSUME IInv, Stable, NEW h \in Processes, NEW f \in Frame, FrameInv(f),
           Become(h, f)
    PROVE  /\ frame' \in [Processes -> Frame]
           /\ (\A g \in Processes : FrameInv(frame[g]))'
<1>1. frame' \in [Processes -> Frame]
  BY DEF IInv, TypeOK, Become
<1>2. ASSUME NEW g \in Processes PROVE FrameInv(frame[g])'
  <2>1. PICK k \in Frame : k = frame'[g] /\ FrameInv(k)
    BY DEF IInv, TypeOK, Become
  <2>2. FrameInv(k)'
    BY <2>1, FrameInvStable DEF IInv
  <2> QED
    BY <2>1, <2>2
<1> QED
  BY <1>1, <1>2

-----------------------------------------------------------------------------
(* What the kinds of steps have in common.                                 *)

\* A step that writes no profile, and no review later than the last decision.
LEMMA ReviewsRestored ==
    ASSUME IInv, NEW h \in Processes, NEW f \in Frame, FrameInv(f), Become(h, f),
           UNCHANGED <<now, decidedAt, profile>>,
           reviewedAt' \in [Schools -> Nat],
           \A s \in Schools : reviewedAt'[s] <= decidedAt[s],
           school' \in [Schools -> SchoolStatus],
           served' \in [Schools -> BOOLEAN], faults' \in Nat
    PROVE  IInv'
<1>1. Stable
  BY DEF IInv, TypeOK, Stable
<1>2. DbInv'
  BY DEF IInv, DbInv, NifsAreUnique, DeadlineNotExtended, ReviewedBefore
<1>3. /\ frame' \in [Processes -> Frame]
      /\ (\A g \in Processes : FrameInv(frame[g]))'
  BY <1>1, FramesKept
<1>4. TypeOK'
  BY <1>3 DEF IInv, TypeOK
<1> QED
  BY <1>2, <1>3, <1>4 DEF IInv

\* A step that writes no profile and moves no date.
LEMMA ProfilesUntouched ==
    ASSUME IInv, NEW h \in Processes, NEW f \in Frame, FrameInv(f), Become(h, f),
           UNCHANGED <<now, reviewedAt, decidedAt, profile>>,
           school' \in [Schools -> SchoolStatus],
           served' \in [Schools -> BOOLEAN], faults' \in Nat
    PROVE  IInv'
<1>1. /\ reviewedAt' \in [Schools -> Nat]
      /\ \A s \in Schools : reviewedAt'[s] <= decidedAt[s]
  BY DEF IInv, TypeOK, DbInv, ReviewedBefore
<1> QED
  BY <1>1, ReviewsRestored

\* A step that saves one profile, with the NIF it had or a free one.
LEMMA ProfileSaved ==
    ASSUME IInv, NEW h \in Processes, NEW f \in Frame, FrameInv(f), Become(h, f),
           NEW s \in Schools, NEW row \in Profile, Save(s, row),
           row.nif \in {profile[s].nif, NoNif} \/ ~TakenByAnother(s, row.nif),
           row.deadline <= ComputeNifDeadline(decidedAt[s]),
           UNCHANGED <<world, portal>>
    PROVE  IInv'
<1>1. Stable
  BY DEF IInv, TypeOK, Stable, world, portal
<1>2. profile' \in [Schools -> Profile]
  BY DEF IInv, TypeOK, Save
<1>3. \A other \in Schools : profile'[other] = IF other = s THEN row ELSE profile[other]
  BY DEF IInv, TypeOK, Save
<1>4. NifsAreUnique'
  BY <1>3 DEF IInv, DbInv, NifsAreUnique, TakenByAnother
<1>5. DeadlineNotExtended'
  BY <1>3 DEF IInv, DbInv, DeadlineNotExtended, ComputeNifDeadline, portal
<1>6. ReviewedBefore'
  BY DEF IInv, DbInv, ReviewedBefore, portal, world
<1>7. /\ frame' \in [Processes -> Frame]
      /\ (\A g \in Processes : FrameInv(frame[g]))'
  BY <1>1, FramesKept
<1>8. TypeOK'
  BY <1>2, <1>7 DEF IInv, TypeOK, world, portal
<1> QED
  BY <1>4, <1>5, <1>6, <1>7, <1>8 DEF IInv, DbInv

\* A step of the surroundings: no request moves, no profile is saved.
LEMMA WorldMoved ==
    ASSUME IInv, Stable, ReviewedBefore', UNCHANGED <<profile, frame>>,
           reviewedAt' \in [Schools -> Nat],
           school' \in [Schools -> SchoolStatus],
           served' \in [Schools -> BOOLEAN], faults' \in Nat
    PROVE  IInv'
<1>1. TypeOK'
  BY DEF IInv, TypeOK, Stable
<1>2. NifsAreUnique'
  BY DEF IInv, DbInv, NifsAreUnique
<1>3. DeadlineNotExtended'
  BY DaysAssumption DEF IInv, DbInv, DeadlineNotExtended, ComputeNifDeadline, Stable,
     TypeOK, Profile
<1>4. ASSUME NEW h \in Processes PROVE FrameInv(frame[h])'
  <2>1. PICK k \in Frame : k = frame[h] /\ FrameInv(k)
    BY DEF IInv, TypeOK
  <2>2. FrameInv(k)'
    BY <2>1, FrameInvStable DEF IInv
  <2> QED
    BY <2>1, <2>2
<1> QED
  BY <1>1, <1>2, <1>3, <1>4 DEF IInv, DbInv

-----------------------------------------------------------------------------
(* The surroundings.                                                       *)

\* A day that passes keeps IInv.
LEMMA TickInv == ASSUME IInv, Tick PROVE IInv'
<1>1. Stable /\ ReviewedBefore'
  BY DEF IInv, DbInv, TypeOK, Stable, ReviewedBefore, Tick, portal
<1> QED
  BY <1>1, WorldMoved DEF Tick, portal, IInv, TypeOK

\* So do the steps by which other modules change a school.
LEMMA EnvironmentInv ==
    ASSUME IInv, NEW s \in Schools, Environment(s) PROVE IInv'
<1>1. ASSUME Stable, ReviewedBefore', UNCHANGED <<faults, profile, frame>>,
             reviewedAt' \in [Schools -> Nat],
             school' \in [Schools -> SchoolStatus], served' \in [Schools -> BOOLEAN]
      PROVE  IInv'
  BY <1>1, WorldMoved DEF IInv, TypeOK
<1>2. CASE Publish(s) \/ Expire(s) \/ SubmitForActivation(s)
  <2>1. Stable /\ ReviewedBefore' /\ reviewedAt' \in [Schools -> Nat]
    BY <1>2 DEF IInv, DbInv, TypeOK, Stable, ReviewedBefore, Publish, Expire,
       SubmitForActivation, world
  <2>2. school' \in [Schools -> SchoolStatus] /\ served' \in [Schools -> BOOLEAN]
    BY <1>2 DEF IInv, TypeOK, SchoolStatus, Publish, Expire, SubmitForActivation
  <2> QED
    BY <1>1, <1>2, <2>1, <2>2 DEF Publish, Expire, SubmitForActivation, world
<1>3. ASSUME NEW status \in Decisions[s], Decide(s, status) PROVE IInv'
  <2>1. Stable
    BY <1>3 DEF IInv, DbInv, TypeOK, Stable, ReviewedBefore, Decide, world
  <2>2. ReviewedBefore' /\ reviewedAt' \in [Schools -> Nat]
    BY <1>3 DEF IInv, DbInv, TypeOK, ReviewedBefore, Decide, world
  <2>3. school' \in [Schools -> SchoolStatus]
    BY <1>3, DecisionsAssumption DEF IInv, TypeOK, SchoolStatus, Decide
  <2>4. served' \in [Schools -> BOOLEAN]
    <3> DEFINE serves == status = "ACTIVE" \/ (served[s] /\ school[s] # "ACTIVE")
    <3>1. served' = [served EXCEPT ![s] = serves] /\ serves \in BOOLEAN
      BY <1>3 DEF Decide
    <3> HIDE DEF serves
    <3> QED
      BY <3>1 DEF IInv, TypeOK
  <2> QED
    BY <1>1, <1>3, <2>1, <2>2, <2>3, <2>4 DEF Decide, world
<1> QED
  BY <1>2, <1>3 DEF Environment

-----------------------------------------------------------------------------
(* Requests.                                                               *)

\* The date syncNifDeadline writes leaves NIF and mode alone.
LEMMA DueRow ==
    ASSUME NEW row \in Profile, NEW date \in Nat
    PROVE  /\ Due(row, date) \in Profile
           /\ Due(row, date).nif = row.nif
           /\ Due(row, date).deadline = date
           /\ Due(row, date).mode = row.mode
BY DEF Due, Profile

\* So does the date written together with a cleared reminder.
LEMMA DueAnewRow ==
    ASSUME NEW row \in Profile, NEW date \in Nat
    PROVE  /\ DueAnew(row, date) \in Profile
           /\ DueAnew(row, date).nif = row.nif
           /\ DueAnew(row, date).deadline = date
           /\ DueAnew(row, date).mode = row.mode
BY DEF DueAnew, Profile

\* A reminder leaves the rest of the row alone.
LEMMA RemindedRow ==
    ASSUME NEW row \in Profile
    PROVE  /\ Reminded(row) \in Profile
           /\ Reminded(row).nif = row.nif
           /\ Reminded(row).deadline = row.deadline
           /\ Reminded(row).mode = row.mode
BY DEF Reminded, Profile

\* A verification keeps the NIF and ends the deadline.
LEMMA VerifiedRow ==
    ASSUME NEW row \in Profile, NEW mode \in {"MANUAL", "AUTOMATIC"}
    PROVE  /\ Verified(row, mode) \in Profile
           /\ Verified(row, mode).nif = row.nif
           /\ Verified(row, mode).deadline = 0
           /\ Verified(row, mode).mode = mode
BY DEF Verified, Profile, NoDate

\* A rejection keeps the NIF and the deadline.
LEMMA RejectedRow ==
    ASSUME NEW row \in Profile
    PROVE  /\ Rejected(row) \in Profile
           /\ Rejected(row).nif = row.nif
           /\ Rejected(row).deadline = row.deadline
           /\ Rejected(row).mode = "NONE"
BY DEF Rejected, Profile

\* The row ensureProfile creates has no NIF and no deadline.
LEMMA CreatedRow ==
    ASSUME NEW row, row = [NoProfile EXCEPT !.status = "NOT_SUBMITTED"]
    PROVE  row \in Profile /\ row.nif = NoNif /\ row.deadline = 0 /\ row.mode = "NONE"
<1>1. ASSUME NEW old \in Profile, old = NoProfile, row = [old EXCEPT !.status = "NOT_SUBMITTED"]
      PROVE  /\ row \in Profile /\ row.nif = old.nif
             /\ row.deadline = old.deadline /\ row.mode = old.mode
  BY <1>1 DEF Profile
<1>2. NoProfile.nif = NoNif /\ NoProfile.deadline = 0 /\ NoProfile.mode = "NONE"
  BY DEF NoProfile, NoDate
<1> QED
  BY <1>1, <1>2, NoProfileType

\* A deadline is a date.
LEMMA DeadlineIsDate ==
    ASSUME NEW t \in Nat PROVE ComputeNifDeadline(t) \in Nat
BY DaysAssumption DEF ComputeNifDeadline

\* The row ensureProfile returns is of the profile's type, with its NIF and no
\* later deadline.
LEMMA EnsuredRow ==
    ASSUME IInv, NEW s \in Schools
    PROVE  /\ Ensured(s) \in Profile
           /\ Ensured(s).nif \in {profile[s].nif, NoNif}
           /\ Ensured(s).deadline <= ComputeNifDeadline(decidedAt[s])
<1>1. CASE profile[s].status = "NONE"
  <2>1. Ensured(s) \in Profile /\ Ensured(s).nif = NoNif /\ Ensured(s).deadline = 0
    BY <1>1, CreatedRow DEF Ensured
  <2>2. ComputeNifDeadline(decidedAt[s]) \in Nat
    BY DeadlineIsDate DEF IInv, TypeOK
  <2> QED
    BY <2>1, <2>2
<1>2. CASE profile[s].status # "NONE"
  BY <1>2 DEF Ensured, IInv, TypeOK, DbInv, DeadlineNotExtended
<1> QED
  BY <1>1, <1>2

\* The first statement of every request keeps IInv.
LEMMA RequestInv ==
    ASSUME IInv, NEW h \in Handlers, NEW s \in Schools, Request(h, s) PROVE IInv'
<1> h \in Processes
  BY DEF Processes
<1>1. ASSUME NEW nif \in NifsOf[s], SubmitNif(h, s, nif) PROVE IInv'
  <2> DEFINE f == [Serving(s, "submit.upsert") EXCEPT !.nif = nif]
  <2>1. f \in Frame /\ FrameInv(f)
    BY NoProfileType, NifsOfAssumption
       DEF Serving, Frame, Rows, Steps, FrameInv, HoldsReview, HoldsOverdue
  <2> QED
    BY <1>1, <2>1, ProfilesUntouched DEF SubmitNif, world, portal, IInv, TypeOK
<1>2. ASSUME NEW step \in {"auto.profile", "manual.save", "reject.save"},
             Open(h, s, step), UNCHANGED <<world, portal, profile>>
      PROVE  IInv'
  <2>1. Serving(s, step) \in Frame /\ FrameInv(Serving(s, step))
    BY ServingInv DEF Steps
  <2> QED
    BY <1>2, <2>1, ProfilesUntouched DEF Open, world, portal, IInv, TypeOK
<1>3. CASE GetOverview(h, s)
  <2>1. PICK f \in Frame : Become(h, f) /\ FrameInv(f)
    <3>1. PICK step \in {"view.school", "view.clear", "idle"} :
             Open(h, s, step) \/ Return(h)
      BY <1>3 DEF GetOverview
    <3> QED
      BY <3>1, IdleInv, ServingInv DEF Open, Return, Steps
  <2>2. Save(s, Ensured(s)) /\ UNCHANGED <<world, portal>>
    BY <1>3 DEF GetOverview
  <2> QED
    BY <2>1, <2>2, EnsuredRow, ProfileSaved
<1>4. CASE NotifySchoolApproved(h, s)
  <2> DEFINE f == [Serving(s, "notify.save") EXCEPT !.t = reviewedAt[s]]
  <2>1. f \in Frame
    BY NoProfileType DEF Serving, Frame, Rows, Steps, IInv, TypeOK
  <2>3. FrameInv(f)
    BY DEF Serving, FrameInv, HoldsReview, HoldsOverdue, IInv, TypeOK, DbInv, ReviewedBefore
  <2>2. Save(s, Ensured(s)) /\ Become(h, f) /\ UNCHANGED <<world, portal>>
    BY <1>4 DEF NotifySchoolApproved
  <2> HIDE DEF f
  <2> QED
    BY <2>1, <2>2, <2>3, EnsuredRow, ProfileSaved
<1>5. CASE VerifyNifAutomatic(h, s) \/ VerifyNifManual(h, s) \/ RejectNif(h, s)
  <2>1. PICK step \in {"auto.profile", "manual.save", "reject.save"} : Open(h, s, step)
    BY <1>5 DEF VerifyNifAutomatic, VerifyNifManual, RejectNif
  <2>2. UNCHANGED <<world, portal, profile>>
    BY <1>5 DEF VerifyNifAutomatic, VerifyNifManual, RejectNif
  <2> QED
    BY <1>2, <2>1, <2>2
<1> QED
  BY <1>1, <1>3, <1>4, <1>5 DEF Request

\* The rows a decision saves.
LEMMA DecidedRow ==
    ASSUME IInv, NEW s \in Schools, NEW mode \in {"MANUAL", "AUTOMATIC"},
           NEW row \in {Verified(profile[s], mode), Rejected(profile[s]),
                        DueAnew(profile[s], NoDate)}
    PROVE  /\ row \in Profile
           /\ row.nif = profile[s].nif
           /\ row.deadline <= ComputeNifDeadline(decidedAt[s])
<1>1. profile[s] \in Profile /\ ComputeNifDeadline(decidedAt[s]) \in Nat
  BY DeadlineIsDate DEF IInv, TypeOK
<1>2. CASE row = Verified(profile[s], mode)
  BY <1>1, <1>2, VerifiedRow
<1>3. CASE row = Rejected(profile[s])
  BY <1>1, <1>3, RejectedRow DEF IInv, DbInv, DeadlineNotExtended
<1>4. CASE row = DueAnew(profile[s], NoDate)
  BY <1>1, <1>4, DueAnewRow DEF NoDate
<1> QED
  BY <1>2, <1>3, <1>4

\* And so does every later one.
LEMMA StepInv == ASSUME IInv, NEW h \in Handlers, Step(h) PROVE IInv'
<1> DEFINE s == SchoolOf(h)
<1>0. h \in Processes /\ s \in Schools /\ frame[h] \in Frame /\ FrameInv(frame[h])
  BY DEF Processes, SchoolOf, IInv, TypeOK, Frame, Rows
<1>1. CASE SubmitUpsert(h)
  <2>1. PICK f \in Frame : Become(h, f) /\ FrameInv(f)
    BY <1>0, <1>1, IdleInv, ServingInv DEF SubmitUpsert, Open, Return, Steps
  <2>2. CASE TakenByAnother(s, frame[h].nif)
    BY <1>0, <1>1, <2>1, <2>2, ProfilesUntouched
       DEF SubmitUpsert, world, portal, IInv, TypeOK
  <2>3. CASE ~TakenByAnother(s, frame[h].nif)
    <3> DEFINE row == Submitted(s, frame[h].nif)
    <3>1. row \in Profile /\ row.nif = frame[h].nif
      BY <1>0, DaysAssumption
         DEF Submitted, Profile, Frame, NoDate, ComputeNifDeadline, IInv, TypeOK
    <3>2. row.deadline <= ComputeNifDeadline(decidedAt[s])
      BY <1>0, DaysAssumption
         DEF Submitted, NoDate, ComputeNifDeadline, IInv, TypeOK
    <3> QED
      BY <1>0, <1>1, <2>1, <2>3, <3>1, <3>2, ProfileSaved DEF SubmitUpsert
  <2> QED
    BY <2>2, <2>3
<1>2. CASE AutoProfile(h)
  <2> DEFINE f == [frame[h] EXCEPT !.at = "auto.save", !.nif = profile[s].nif]
  <2>1. f \in Frame
    BY <1>0 DEF Frame, Steps, IInv, TypeOK, Profile
  <2>2. FrameInv(f)
    BY <1>0, <1>2 DEF AutoProfile, At, Frame, FrameInv, HoldsReview, HoldsOverdue
  <2> QED
    BY <1>0, <1>2, <2>1, <2>2, IdleInv, ProfilesUntouched
       DEF AutoProfile, Return, world, portal, IInv, TypeOK
<1>3. ASSUME Return(h), UNCHANGED <<world, portal>>,
             NEW row \in Profile, Save(s, row), row.nif = profile[s].nif,
             row.deadline <= ComputeNifDeadline(decidedAt[s])
      PROVE  IInv'
  BY <1>0, <1>3, IdleInv, ProfileSaved DEF Return
<1>4. CASE AutoSave(h)
  <2>1. CASE UNCHANGED profile
    BY <1>0, <1>4, <2>1, IdleInv, ProfilesUntouched
       DEF AutoSave, Return, world, portal, IInv, TypeOK
  <2>2. ASSUME NEW row \in {Verified(profile[s], "AUTOMATIC"), Rejected(profile[s])},
               Save(s, row)
        PROVE  IInv'
    <3>1. Return(h) /\ UNCHANGED <<world, portal>>
      BY <1>4 DEF AutoSave
    <3> QED
      BY <1>0, <1>3, <2>2, <3>1, DecidedRow
  <2>3. \/ UNCHANGED profile
        \/ Save(s, Verified(profile[s], "AUTOMATIC"))
        \/ Save(s, Rejected(profile[s]))
    BY <1>4 DEF AutoSave
  <2> QED
    BY <2>1, <2>2, <2>3
<1>5. CASE ManualSave(h)
  BY <1>0, <1>3, <1>5, DecidedRow DEF ManualSave
<1>6. CASE RejectSave(h)
  BY <1>0, <1>3, <1>6, DecidedRow DEF RejectSave
<1>7. CASE ViewClear(h)
  BY <1>0, <1>3, <1>7, DecidedRow DEF ViewClear
<1>8. CASE ViewSchool(h)
  <2> DEFINE f == [frame[h] EXCEPT !.at = "view.save", !.t = reviewedAt[s]]
  <2>1. f \in Frame
    BY <1>0 DEF Frame, Steps, IInv, TypeOK
  <2>2. FrameInv(f)
    BY <1>0, <1>8
       DEF ViewSchool, At, SchoolOf, Frame, FrameInv, HoldsReview, HoldsOverdue, IInv, TypeOK,
           DbInv, ReviewedBefore
  <2> QED
    BY <1>0, <1>8, <2>1, <2>2, IdleInv, ProfilesUntouched
       DEF ViewSchool, Return, world, portal, IInv, TypeOK
<1>9. CASE ViewSave(h) \/ NotifySave(h)
  <2> DEFINE date == ComputeNifDeadline(frame[h].t)
  <2>1. PICK row \in {Due(profile[s], date), DueAnew(profile[s], date)} : Save(s, row)
    BY <1>9 DEF ViewSave, NotifySave
  <2>2. profile[s] \in Profile /\ frame[h].t \in Nat /\ decidedAt[s] \in Nat
    BY <1>0 DEF IInv, TypeOK, Frame
  <2>3. row \in Profile /\ row.nif = profile[s].nif /\ row.deadline = date
    <3>1. profile[s] \in Profile /\ date \in Nat
      BY <2>2, DeadlineIsDate
    <3>2. CASE row = Due(profile[s], date)
      BY <3>1, <3>2, DueRow
    <3>3. CASE row = DueAnew(profile[s], date)
      BY <3>1, <3>3, DueAnewRow
    <3> QED
      BY <2>1, <3>2, <3>3
  <2>4. frame[h].t <= decidedAt[s]
    BY <1>0, <1>9 DEF ViewSave, NotifySave, At, SchoolOf, FrameInv, HoldsReview
  <2>5. row.deadline <= ComputeNifDeadline(decidedAt[s])
    BY <2>2, <2>3, <2>4, DaysAssumption DEF ComputeNifDeadline
  <2> QED
    BY <1>3, <1>9, <2>1, <2>3, <2>5 DEF ViewSave, NotifySave
<1> QED
  BY <1>1, <1>2, <1>4, <1>5, <1>6, <1>7, <1>8, <1>9 DEF Step

-----------------------------------------------------------------------------
(* The job.                                                                *)

\* The frame the job goes on with, when the rest of its list is overdue.
LEMMA JobGoesOnFrame ==
    ASSUME NEW rest \in SUBSET Rows, \A r \in rest : Overdue(r.row), JobGoesOn(rest)
    PROVE  \E f \in Frame : Become(Cron, f) /\ FrameInv(f)
<1>1. CASE rest = {}
  BY <1>1, IdleInv DEF JobGoesOn
<1>2. CASE rest # {}
  <2> DEFINE f == [Serving(AnySchool, "job.school") EXCEPT !.rest = rest]
  <2>1. f \in Frame /\ FrameInv(f)
    BY AnySchoolType, NoProfileType
       DEF Serving, Frame, Rows, Steps, FrameInv, HoldsReview, HoldsOverdue
  <2>2. Become(Cron, f)
    BY <1>2 DEF JobGoesOn
  <2> HIDE DEF f
  <2> QED
    BY <2>1, <2>2
<1> QED
  BY <1>1, <1>2

\* The job starts with no overdue rows in hand, and with the day of today.
LEMMA BeginJobInv == ASSUME IInv, BeginJob PROVE IInv'
<1> DEFINE rest == {[school |-> s, row |-> NoProfile] :
                      s \in {s \in Owing : /\ ~profile[s].reminded
                                           /\ DaysRemaining(s, now) = ReminderDays}}
           f == [Serving(AnySchool, "job.remind") EXCEPT !.t = now, !.rest = rest]
<1>1. rest \in SUBSET Rows
  BY NoProfileType DEF Rows, Owing
<1>2. Become(Cron, f)
  BY DEF BeginJob
<1> HIDE DEF rest
<1>3. now \in Nat
  BY DEF IInv, TypeOK
<1>4. f \in Frame
  BY <1>1, <1>3, AnySchoolType, NoProfileType DEF Serving, Frame, Rows, Steps
<1>5. f.at = "job.remind" /\ f.t = now
  BY DEF Serving
<1> HIDE DEF f
<1>6. FrameInv(f)
  BY <1>3, <1>5 DEF FrameInv, HoldsReview, HoldsOverdue
<1> QED
  BY <1>2, <1>4, <1>6, ProfilesUntouched DEF BeginJob, Processes, world, portal, IInv, TypeOK

\* The job suspends by rows that were overdue when it read them, and that day is
\* still past.
LEMMA JobInv == ASSUME IInv, Job PROVE IInv'
<1> DEFINE f == frame[Cron]
<1>0. Cron \in Processes /\ f \in Frame /\ FrameInv(f)
  BY DEF Processes, IInv, TypeOK
<1>1. CASE JobRemind
  <2>1. PICK r \in f.rest : /\ Save(r.school, Reminded(profile[r.school]))
                            /\ Become(Cron, [f EXCEPT !.rest = @ \ {r}])
    BY <1>1 DEF JobRemind
  <2> DEFINE g == [f EXCEPT !.rest = @ \ {r}]
  <2>2. g \in Frame
    BY <1>0 DEF Frame
  <2>3. FrameInv(g)
    BY <1>0, <1>1 DEF JobRemind, At, Frame, FrameInv, HoldsReview, HoldsOverdue
  <2>4. r.school \in Schools /\ profile[r.school] \in Profile
    BY <1>0, <2>1 DEF Frame, Rows, IInv, TypeOK
  <2>5. /\ Reminded(profile[r.school]) \in Profile
        /\ Reminded(profile[r.school]).nif = profile[r.school].nif
        /\ Reminded(profile[r.school]).deadline <= ComputeNifDeadline(decidedAt[r.school])
    BY <2>4, RemindedRow DEF IInv, DbInv, DeadlineNotExtended
  <2>6. UNCHANGED <<world, portal>>
    BY <1>1 DEF JobRemind
  <2> HIDE DEF g
  <2> QED
    BY <1>0, <2>1, <2>2, <2>3, <2>4, <2>5, <2>6, ProfileSaved DEF g
<1>2. ASSUME NEW rest \in SUBSET Rows, \A r \in rest : Overdue(r.row), JobGoesOn(rest),
             UNCHANGED <<now, reviewedAt, decidedAt, profile>>,
             school' \in [Schools -> SchoolStatus],
             served' \in [Schools -> BOOLEAN], faults' \in Nat
      PROVE  IInv'
  BY <1>0, <1>2, JobGoesOnFrame, ProfilesUntouched
<1>3. CASE JobOverdue
  <2> DEFINE rest == ReadRows(OverdueAt(f.t))
  <2>1. f.t \in Nat /\ f.t <= now
    BY <1>0, <1>3 DEF JobOverdue, At, Frame, FrameInv, HoldsOverdue
  <2>2. rest \in SUBSET Rows
    BY DEF ReadRows, OverdueAt, Owing, Rows, IInv, TypeOK
  <2>3. ASSUME NEW r \in rest PROVE Overdue(r.row)
    <3>1. PICK s \in OverdueAt(f.t) : r.row = profile[s]
      BY DEF ReadRows
    <3>2. /\ profile[s].deadline \in Nat /\ profile[s].deadline # 0
          /\ profile[s].deadline < f.t /\ NeedsNifSubmission(profile[s])
      BY DEF OverdueAt, Owing, NoDate, IInv, TypeOK, Profile
    <3>3. profile[s].deadline \in 1..(now - 1)
      BY <2>1, <3>2 DEF IInv, TypeOK
    <3> QED
      BY <3>1, <3>2, <3>3 DEF Overdue
  <2>4. JobGoesOn(rest) /\ UNCHANGED <<world, portal, profile>>
    BY <1>3 DEF JobOverdue
  <2> HIDE DEF rest
  <2> QED
    BY <1>2, <2>2, <2>3, <2>4 DEF world, portal, IInv, TypeOK
<1>4. CASE JobSchool
  <2>0. f.at = "job.school" /\ UNCHANGED <<world, portal, profile>>
    BY <1>4 DEF JobSchool, At
  <2>1. PICK r \in f.rest :
           \/ Become(Cron, [f EXCEPT !.at = "job.close", !.on = r, !.rest = @ \ {r},
                                     !.t = reviewedAt[r.school]])
           \/ JobGoesOn(f.rest \ {r})
    BY <1>4 DEF JobSchool
  <2>2. r \in Rows /\ f.rest \ {r} \in SUBSET Rows
    BY <1>0 DEF Frame
  <2>3. \A other \in f.rest : Overdue(other.row)
    BY <1>0, <2>0 DEF FrameInv, HoldsOverdue
  <2>4. CASE JobGoesOn(f.rest \ {r})
    BY <1>2, <2>0, <2>2, <2>3, <2>4 DEF world, portal, IInv, TypeOK
  <2> DEFINE g == [f EXCEPT !.at = "job.close", !.on = r, !.rest = @ \ {r},
                            !.t = reviewedAt[r.school]]
  <2>8. reviewedAt[r.school] \in Nat /\ reviewedAt[r.school] <= decidedAt[r.school]
    BY <2>2 DEF Rows, IInv, TypeOK, DbInv, ReviewedBefore
  <2>5. g \in Frame
    BY <1>0, <2>2, <2>8 DEF Frame, Steps
  <2>6. FrameInv(g)
    BY <1>0, <2>3, <2>8 DEF Frame, FrameInv, HoldsReview, HoldsOverdue
  <2>7. CASE Become(Cron, g)
    <3> HIDE DEF g
    <3> QED
      BY <1>0, <2>0, <2>5, <2>6, <2>7, ProfilesUntouched DEF world, portal, IInv, TypeOK
  <2> QED
    BY <2>1, <2>4, <2>7
<1>5. CASE JobClose
  <2> DEFINE g == [f EXCEPT !.at = "job.save"]
  <2>1. Become(Cron, g)
    BY <1>5 DEF JobClose, Goto
  <2>2. g \in Frame
    BY <1>0 DEF Frame, Steps
  <2>3. FrameInv(g)
    BY <1>0, <1>5 DEF JobClose, At, Frame, FrameInv, HoldsReview, HoldsOverdue
  <2>4. served' \in [Schools -> BOOLEAN]
    BY <1>5 DEF JobClose, IInv, TypeOK
  <2> HIDE DEF g
  <2> QED
    BY <1>0, <1>5, <2>1, <2>2, <2>3, <2>4, ProfilesUntouched
       DEF JobClose, world, IInv, TypeOK
<1>6. CASE JobSave
  <2>1. school' \in [Schools -> SchoolStatus]
    BY <1>6 DEF JobSave, SchoolStatus, IInv, TypeOK
  <2>2. f.rest \in SUBSET Rows /\ \A r \in f.rest : Overdue(r.row)
    BY <1>0, <1>6 DEF JobSave, At, Frame, FrameInv, HoldsOverdue
  <2>3. PICK g \in Frame : Become(Cron, g) /\ FrameInv(g)
    BY <1>6, <2>2, JobGoesOnFrame DEF JobSave
  <2>4. f.t \in Nat /\ f.on.school \in Schools /\ f.t <= decidedAt[f.on.school]
    BY <1>0, <1>6 DEF JobSave, At, Frame, Rows, FrameInv, HoldsReview
  <2>5. reviewedAt' = [reviewedAt EXCEPT ![f.on.school] = f.t]
    BY <1>6 DEF JobSave, SchoolOf
  <2>6. /\ reviewedAt' \in [Schools -> Nat]
        /\ \A s \in Schools : reviewedAt'[s] <= decidedAt[s]
    BY <2>4, <2>5 DEF IInv, TypeOK, DbInv, ReviewedBefore
  <2>7. UNCHANGED <<now, faults, decidedAt, served, profile>>
    BY <1>6 DEF JobSave, world
  <2> QED
    BY <1>0, <2>1, <2>3, <2>6, <2>7, ReviewsRestored DEF IInv, TypeOK
<1> QED
  BY <1>1, <1>3, <1>4, <1>5, <1>6 DEF Job

\* Losing the job leaves the rows as they are.
LEMMA AbortInv == ASSUME IInv, Abort PROVE IInv'
<1>1. Cron \in Processes /\ Idle \in Frame /\ FrameInv(Idle) /\ Become(Cron, Idle)
  BY IdleInv DEF Abort, Return, Processes
<1>2. UNCHANGED <<now, reviewedAt, decidedAt, profile>> /\ UNCHANGED <<school, served>>
  BY DEF Abort, portal
<1>3. faults' \in Nat /\ school' \in [Schools -> SchoolStatus] /\ served' \in [Schools -> BOOLEAN]
  BY <1>2 DEF Abort, IInv, TypeOK
<1> QED
  BY <1>1, <1>2, <1>3, ProfilesUntouched

-----------------------------------------------------------------------------
(* The invariant.                                                          *)

\* Every step keeps IInv.
LEMMA NextInv == IInv /\ [Next]_vars => IInv'
<1> SUFFICES ASSUME IInv, [Next]_vars PROVE IInv'
  OBVIOUS
<1>1. CASE Tick
  BY <1>1, TickInv
<1>2. ASSUME NEW s \in Schools, Environment(s) PROVE IInv'
  BY <1>2, EnvironmentInv
<1>3. ASSUME NEW h \in Handlers, NEW s \in Schools, Request(h, s) PROVE IInv'
  BY <1>3, RequestInv
<1>4. ASSUME NEW h \in Handlers, Step(h) PROVE IInv'
  BY <1>4, StepInv
<1>5. CASE BeginJob
  BY <1>5, BeginJobInv
<1>6. CASE Job
  BY <1>6, JobInv
<1>7. CASE Abort
  BY <1>7, AbortInv
<1>8. CASE UNCHANGED vars
  <2>1. Stable /\ ReviewedBefore'
    BY <1>8 DEF Stable, ReviewedBefore, vars, IInv, DbInv, TypeOK
  <2> QED
    BY <1>8, <2>1, WorldMoved DEF vars, IInv, TypeOK
<1> QED
  BY <1>1, <1>2, <1>3, <1>4, <1>5, <1>6, <1>7, <1>8, PublicAssumption DEF Next

(***************************************************************************)
(* The inductive invariant holds for every instance.                       *)
(***************************************************************************)
THEOREM Invariance == Spec => []IInv
BY InitIInv, NextInv, PTL DEF Spec

(***************************************************************************)
(* Profiles and the copies of them in memory are well typed.               *)
(***************************************************************************)
THEOREM TypeCorrect == Spec => []TypeOK
<1>1. IInv => TypeOK
  BY DEF IInv
<1> QED
  BY <1>1, Invariance, PTL

(***************************************************************************)
(* Two schools never hold one NIF: submitNif's own check is not enough,    *)
(* the unique index is.                                                    *)
(***************************************************************************)
THEOREM UniqueNifs == Spec => []NifsAreUnique
<1>1. IInv => NifsAreUnique
  BY DEF IInv, DbInv
<1> QED
  BY <1>1, Invariance, PTL

(***************************************************************************)
(* The deadline is never later than ten days after the review, whatever    *)
(* stale review date a visit or a notice saves it from.                    *)
(***************************************************************************)
THEOREM NoExtension == Spec => []DeadlineNotExtended
<1>1. IInv => DeadlineNotExtended
  BY DEF IInv, DbInv
<1> QED
  BY <1>1, Invariance, PTL

-----------------------------------------------------------------------------
(* What a step may never do.                                               *)

\* A save that does not bring the mode AUTOMATIC verifies nothing automatically.
LEMMA NotAutomatic ==
    ASSUME TypeOK, NEW k \in Schools, NEW row \in Profile, Save(k, row),
           row.mode # "AUTOMATIC" \/ row.mode = profile[k].mode,
           NEW s \in Schools
    PROVE  VerifiedRightly(s)
<1>1. profile'[s] = IF s = k THEN row ELSE profile[s]
  BY DEF Save, TypeOK
<1> QED
  BY <1>1 DEF VerifiedRightly

\* The verdict that verifies a NIF was given for it, or the school has been faster.
LEMMA AutoSaveVerifies ==
    ASSUME IInv, NEW h \in Handlers, AutoSave(h), NEW s \in Schools
    PROVE  VerifiedRightly(s)
<1> DEFINE k == SchoolOf(h)
<1>1. h \in Processes /\ k \in Schools /\ profile[k] \in Profile /\ frame[h] \in Frame
  BY DEF Processes, SchoolOf, IInv, TypeOK, Frame, Rows
<1>2. CASE UNCHANGED profile
  BY <1>2 DEF VerifiedRightly
<1>3. CASE Save(k, Rejected(profile[k]))
  BY <1>1, <1>3, RejectedRow, NotAutomatic DEF IInv
<1>4. CASE Registry[frame[h].nif] = "ACTIVE" /\ Save(k, Verified(profile[k], "AUTOMATIC"))
  <2>1. CASE s # k
    <3>1. profile'[s] = profile[s]
      BY <1>4, <2>1 DEF Save, IInv, TypeOK
    <3> QED
      BY <3>1 DEF VerifiedRightly
  <2>2. CASE s = k /\ frame[h].nif = profile[s].nif
    BY <1>4, <2>2 DEF VerifiedRightly
  <2>3. CASE s = k /\ frame[h].nif # profile[s].nif
    <3>1. frame'[h] = Idle /\ Idle.at = "idle" /\ frame[h].at = "auto.save"
      BY <1>1 DEF AutoSave, Return, Become, At, Idle, Serving, IInv, TypeOK
    <3> QED
      BY <2>3, <3>1 DEF VerifiedRightly, LookUpOvertaken, At
  <2> QED
    BY <2>1, <2>2, <2>3
<1> QED
  BY <1>2, <1>3, <1>4 DEF AutoSave

\* Every step of Next either leaves the profiles alone, or saves one whose mode is
\* not AUTOMATIC or was it before, or is AutoSave.
LEMMA NextVerifies ==
    IInv /\ [Next]_vars => [\A s \in Schools : VerifiedRightly(s)]_vars
<1> SUFFICES ASSUME IInv, [Next]_vars, NEW s \in Schools PROVE VerifiedRightly(s)
  OBVIOUS
<1>0. /\ TypeOK
      /\ \A k \in Schools : profile[k] \in Profile
  BY DEF IInv, TypeOK
<1>1. CASE UNCHANGED profile
  BY <1>1 DEF VerifiedRightly
<1>2. ASSUME NEW h \in Handlers, NEW k \in Schools, Request(h, k) PROVE VerifiedRightly(s)
  <2>1. UNCHANGED profile \/ Save(k, Ensured(k))
    BY <1>2 DEF Request, SubmitNif, VerifyNifAutomatic, VerifyNifManual, RejectNif,
       GetOverview, NotifySchoolApproved
  <2>2. Ensured(k) \in Profile /\ Ensured(k).mode \in {profile[k].mode, "NONE"}
    BY EnsuredRow, CreatedRow DEF Ensured
  <2> QED
    BY <1>0, <1>1, <2>1, <2>2, NotAutomatic
<1>3. ASSUME NEW h \in Handlers, Step(h) PROVE VerifiedRightly(s)
  <2> DEFINE k == SchoolOf(h)
  <2>0. k \in Schools /\ profile[k] \in Profile /\ frame[h] \in Frame
    BY DEF Processes, SchoolOf, IInv, TypeOK, Frame, Rows
  <2>1. CASE AutoSave(h)
    BY <2>1, AutoSaveVerifies
  <2>2. CASE AutoProfile(h) \/ ViewSchool(h)
    BY <1>1, <2>2 DEF AutoProfile, ViewSchool
  <2>3. CASE SubmitUpsert(h)
    <3>1. Submitted(k, frame[h].nif) \in Profile /\ Submitted(k, frame[h].nif).mode = "NONE"
      BY <2>0, DaysAssumption DEF Submitted, Profile, Frame, NoDate
    <3>2. UNCHANGED profile \/ Save(k, Submitted(k, frame[h].nif))
      BY <2>3 DEF SubmitUpsert
    <3> QED
      BY <1>0, <1>1, <2>0, <3>1, <3>2, NotAutomatic
  <2>4. CASE ManualSave(h)
    BY <1>0, <2>0, <2>4, VerifiedRow, NotAutomatic DEF ManualSave
  <2>5. CASE RejectSave(h)
    BY <1>0, <2>0, <2>5, RejectedRow, NotAutomatic DEF RejectSave
  <2>6. CASE ViewClear(h)
    BY <1>0, <2>0, <2>6, DueAnewRow, NotAutomatic DEF ViewClear, NoDate
  <2>7. CASE ViewSave(h) \/ NotifySave(h)
    <3> DEFINE date == ComputeNifDeadline(frame[h].t)
    <3>1. date \in Nat
      BY <2>0, DeadlineIsDate DEF Frame
    <3>2. PICK row \in {Due(profile[k], date), DueAnew(profile[k], date)} : Save(k, row)
      BY <2>7 DEF ViewSave, NotifySave
    <3> HIDE DEF date
    <3>3. row \in Profile /\ row.mode = profile[k].mode
      BY <2>0, <3>1, <3>2, DueRow, DueAnewRow
    <3> QED
      BY <1>0, <2>0, <3>2, <3>3, NotAutomatic
  <2> QED
    BY <1>3, <2>1, <2>2, <2>3, <2>4, <2>5, <2>6, <2>7 DEF Step
<1>4. CASE Job
  <2>1. CASE JobRemind
    <3>1. PICK r \in frame[Cron].rest : Save(r.school, Reminded(profile[r.school]))
      BY <2>1 DEF JobRemind
    <3>2. r.school \in Schools
      BY <3>1 DEF Processes, IInv, TypeOK, Frame, Rows
    <3> QED
      BY <1>0, <3>1, <3>2, RemindedRow, NotAutomatic
  <2>2. CASE ~JobRemind
    BY <1>1, <1>4, <2>2 DEF Job, JobOverdue, JobSchool, JobClose, JobSave
  <2> QED
    BY <2>1, <2>2
<1> QED
  BY <1>1, <1>2, <1>3, <1>4
     DEF Next, vars, Tick, Environment, Publish, Expire, SubmitForActivation,
         Decide, BeginJob, Abort

(***************************************************************************)
(* A NIF is verified automatically only on the AGT's word for it, or when  *)
(* the school submitted another during the look-up: no third way.          *)
(***************************************************************************)
THEOREM VerifiedOnTheRegistrysWord == Spec => VerifiedIsActiveAtAgt
BY NextVerifies, Invariance, PTL DEF Spec, VerifiedIsActiveAtAgt

\* Every step but JobClose and JobSave leaves service and suspensions alone, and
\* those two hold an overdue row.
LEMMA NextSuspends ==
    IInv /\ [Next]_vars => [\A s \in Schools : SuspendedRightly(s)]_vars
<1> SUFFICES ASSUME IInv, [Next]_vars, NEW s \in Schools PROVE SuspendedRightly(s)
  OBVIOUS
<1>1. CASE UNCHANGED portal
  BY <1>1 DEF SuspendedRightly, portal
<1>2. ASSUME NEW k \in Schools, Environment(k) PROVE SuspendedRightly(s)
  BY <1>2 DEF SuspendedRightly, Environment, Publish, Expire, SubmitForActivation, Decide
<1>3. ASSUME NEW h \in Handlers, NEW k \in Schools, Request(h, k) PROVE UNCHANGED portal
  BY <1>3 DEF Request, SubmitNif, VerifyNifAutomatic, VerifyNifManual, RejectNif,
     GetOverview, NotifySchoolApproved
<1>4. ASSUME NEW h \in Handlers, Step(h) PROVE UNCHANGED portal
  BY <1>4 DEF Step, SubmitUpsert, AutoProfile, AutoSave, ManualSave, RejectSave,
     ViewClear, ViewSchool, ViewSave, NotifySave
<1>5. CASE Job
  <2>1. CASE JobClose \/ JobSave
    <3>1. Overdue(Copy(Cron))
      BY <2>1 DEF JobClose, JobSave, At, Copy, Processes, IInv, FrameInv, HoldsOverdue
    <3> QED
      BY <3>1 DEF SuspendedRightly, Overdue
  <2>2. CASE ~(JobClose \/ JobSave)
    BY <1>1, <1>5, <2>2 DEF Job, JobRemind, JobOverdue, JobSchool
  <2> QED
    BY <2>1, <2>2
<1> QED
  BY <1>1, <1>2, <1>3, <1>4, <1>5, PublicAssumption
     DEF Next, vars, Tick, BeginJob, Abort, portal

(***************************************************************************)
(* No school loses its subscription or its page to this module before a    *)
(* deadline of its own is past, nor with its NIF in order unless the row   *)
(* has changed in the job's hands.                                         *)
(***************************************************************************)
THEOREM SuspensionIsDue == Spec => SuspendedOnlyOverdue
BY NextSuspends, Invariance, PTL DEF Spec, SuspendedOnlyOverdue
=============================================================================
