----------------------------- MODULE Admissions -----------------------------
(***************************************************************************)
(* A family at one school: applications, visits, the school's decisions on *)
(* them, and what the family is told in the application.                   *)
(*                                                                         *)
(* Left out: who may act for whom (the actor is the guardian or a member   *)
(* of the school), the mails, the texts, and the documents of an           *)
(* application: their use cases are empty.                                 *)
(***************************************************************************)
EXTENDS Requests, Sequences

CONSTANTS MaxApplications, MaxVisits     \* bounds: rows in one behaviour

ASSUME AdmissionsAssumption == MaxApplications \in Nat /\ MaxVisits \in Nat

VARIABLES
    receives,      \* the plan of the school lets it receive applications
    classActive,   \* the class the family asks for is active
    applications,  \* in the order of their creation
    visits,        \* ... and the same of the visits asked for
    notices        \* what the family was told, in order

admissionVars == <<receives, classActive, applications, visits, notices>>

Answers == {"ACCEPTED", "REJECTED"}
ApplicationStatus ==
    {"SUBMITTED", "UNDER_REVIEW", "DOCUMENT_REQUESTED", "CANCELLED"} \cup Answers
DECIDABLE_APPLICATION_STATUSES == {"SUBMITTED", "UNDER_REVIEW", "DOCUMENT_REQUESTED"}
Step == [from : {"NONE"} \cup ApplicationStatus, to : ApplicationStatus]
VisitStatus == {"PENDING_SCHOOL_CONFIRMATION", "CONFIRMED", "REJECTED"}
Subjects == {"application", "visit"}
Words == {"sent", "CONFIRMED"} \cup Answers
Notice == [to : {"school", "family"}, about : Subjects, row : Nat, says : Words, read : BOOLEAN]

AdmissionFrames ==
    [at   : {"apply.class", "apply.create", "visit.create", "apply.decide", "visit.decide",
             "tell.school", "tell.family", "notice.read"},
     row  : Nat,
     seen : ApplicationStatus,                   \* the status that was read
     says : Words,
     code : 0..(MaxVisits + 1)]                  \* the code of the visit

Asking(step) == [at |-> step, row |-> 0, seen |-> "SUBMITTED", says |-> "sent", code |-> 0]

AdmissionTypeOK ==
    /\ receives \in BOOLEAN /\ classActive \in BOOLEAN
    /\ applications \in Seq([status : ApplicationStatus, history : Seq(Step)])
    /\ visits \in Seq([status : VisitStatus, code : 1..(MaxVisits + 1), user : BOOLEAN])
    /\ Len(visits) <= MaxVisits
    /\ notices \in Seq(Notice)

AdmissionInit ==
    /\ receives = TRUE /\ classActive \in BOOLEAN
    /\ applications = <<>> /\ visits = <<>> /\ notices = <<>>

\* Which row the request is about, and what is said of it.
Tell(h, audience) ==
    notices' = Append(notices,
        [to |-> audience, about |-> IF frame[h].code = 0 THEN "application" ELSE "visit",
         row |-> frame[h].row, says |-> frame[h].says, read |-> FALSE])

-----------------------------------------------------------------------------
(* An application: the plan of the school, then the class, then the row.   *)

assertCanReceiveApplications(h) ==
    /\ Begin(h, "apply")
    /\ receives
    /\ Become(h, Asking("apply.class"))
    /\ UNCHANGED <<admissionVars, stale>>

CheckClass(h) ==
    /\ At(h, "apply.class")
    /\ IF classActive THEN Goto(h, "apply.create") ELSE Return(h)
    /\ UNCHANGED <<admissionVars, counters, stale>>

CreateApplication(h) ==
    /\ At(h, "apply.create")
    /\ Len(applications) < MaxApplications
    /\ applications' = Append(applications,
           [status |-> "SUBMITTED", history |-> <<[from |-> "NONE", to |-> "SUBMITTED"]>>])
    /\ Become(h, [frame[h] EXCEPT !.at = "tell.school", !.row = Len(applications) + 1])
    /\ UNCHANGED <<receives, classActive, visits, notices, counters, stale>>

\* The members of the school, in one statement; the family in the next one.
notifySchoolMembers(h) ==
    /\ At(h, "tell.school")
    /\ Tell(h, "school")
    /\ Goto(h, "tell.family")
    /\ UNCHANGED <<receives, classActive, applications, visits, counters, stale>>

\* A visit may have been asked for by nobody the platform knows.
Known(h) == frame[h].code = 0 \/ visits[frame[h].row].user

NotifyFamily(h) ==
    /\ At(h, "tell.family")
    /\ IF Known(h) THEN Tell(h, "family") ELSE UNCHANGED notices
    /\ Return(h)
    /\ UNCHANGED <<receives, classActive, applications, visits, counters, stale>>

ApproveApplication(h) ==
    /\ Begin(h, "decide")
    /\ \E i \in DOMAIN applications :
        /\ applications[i].status \in DECIDABLE_APPLICATION_STATUSES
        /\ Become(h, [Asking("apply.decide") EXCEPT
               !.row = i, !.seen = applications[i].status, !.says = "ACCEPTED"])
    /\ UNCHANGED <<admissionVars, stale>>

RejectApplication(h) ==
    /\ Begin(h, "decide")
    /\ \E i \in DOMAIN applications :
        /\ applications[i].status \in DECIDABLE_APPLICATION_STATUSES
        /\ Become(h, [Asking("apply.decide") EXCEPT
               !.row = i, !.seen = applications[i].status, !.says = "REJECTED"])
    /\ UNCHANGED <<admissionVars, stale>>

SaveDecisionOnly(h) ==
    /\ At(h, "apply.decide")
    /\ applications' = [applications EXCEPT ![frame[h].row].status = frame[h].says]
    /\ Mark("applications", applications[frame[h].row].status = frame[h].seen)
    /\ Goto(h, "tell.family")
    /\ UNCHANGED <<receives, classActive, visits, notices, counters>>

\* By the id, whatever the status has become; the history names the one read.
SaveDecision(h) ==
    /\ At(h, "apply.decide")
    /\ applications' = [applications EXCEPT
           ![frame[h].row].status = frame[h].says,
           ![frame[h].row].history = Append(@, [from |-> frame[h].seen, to |-> frame[h].says])]
    /\ Mark("applications", applications[frame[h].row].status = frame[h].seen)
    /\ Goto(h, "tell.family")
    /\ UNCHANGED <<receives, classActive, visits, notices, counters>>

-----------------------------------------------------------------------------
(* A visit: its code is the number of visits and one.                      *)

ScheduleVisit(h) ==
    /\ Begin(h, "visit")
    /\ Become(h, [Asking("visit.create") EXCEPT !.code = Len(visits) + 1])
    /\ UNCHANGED <<admissionVars, stale>>

CodeTaken(code) == \E i \in DOMAIN visits : visits[i].code = code

CreateVisit(h) ==
    /\ At(h, "visit.create")
    /\ ~CodeTaken(frame[h].code)
    /\ Len(visits) < MaxVisits
    /\ \E user \in BOOLEAN : visits' = Append(visits,
           [status |-> "PENDING_SCHOOL_CONFIRMATION", code |-> frame[h].code, user |-> user])
    /\ Become(h, [frame[h] EXCEPT !.at = "tell.school", !.row = Len(visits) + 1])
    /\ UNCHANGED <<receives, classActive, applications, notices, counters, stale>>

FindPendingVisit(h) ==
    /\ Begin(h, "decideVisit")
    /\ \E i \in DOMAIN visits, answer \in {"CONFIRMED", "REJECTED"} :
        /\ visits[i].status = "PENDING_SCHOOL_CONFIRMATION"
        /\ Become(h, [Asking("visit.decide") EXCEPT
               !.row = i, !.says = answer, !.code = visits[i].code])
    /\ UNCHANGED <<admissionVars, stale>>

DecideVisit(h) ==
    /\ At(h, "visit.decide")
    /\ visits' = [visits EXCEPT ![frame[h].row].status = frame[h].says]
    /\ Mark("visits", visits[frame[h].row].status = "PENDING_SCHOOL_CONFIRMATION")
    /\ Goto(h, "tell.family")
    /\ UNCHANGED <<receives, classActive, applications, notices, counters>>

-----------------------------------------------------------------------------
(* The family reads what it was told.                                      *)

FindNotice(h) ==
    /\ Begin(h, "markRead")
    /\ \E i \in DOMAIN notices :
        /\ notices[i].to = "family" /\ ~notices[i].read
        /\ Become(h, [Asking("notice.read") EXCEPT !.row = i])
    /\ UNCHANGED <<admissionVars, stale>>

MarkRead(h) ==
    /\ At(h, "notice.read")
    /\ notices' = [notices EXCEPT ![frame[h].row].read = TRUE]
    /\ Return(h)
    /\ UNCHANGED <<receives, classActive, applications, visits, counters, stale>>

MarkAllRead(h) ==
    /\ Serve(h, "markRead")
    /\ notices' = [i \in DOMAIN notices |->
                    [notices[i] EXCEPT !.read = @ \/ notices[i].to = "family"]]
    /\ UNCHANGED <<receives, classActive, applications, visits, stale>>

-----------------------------------------------------------------------------

\* The plan of the school changes, or its class.
SchoolChanges ==
    /\ "apply" \in agenda
    /\ \/ receives' = FALSE /\ receives /\ UNCHANGED classActive
       \/ classActive' = FALSE /\ classActive /\ UNCHANGED receives
    /\ UNCHANGED <<applications, visits, notices, requestVars>>

\* A code that another visit took in the meantime; a bound.
AdmissionRefused(h) ==
    /\ \/ At(h, "visit.create") /\ (CodeTaken(frame[h].code) \/ Len(visits) = MaxVisits)
       \/ At(h, "apply.create") /\ Len(applications) = MaxApplications
    /\ Return(h)
    /\ UNCHANGED <<admissionVars, counters, stale>>

AdmissionStep(h) ==
    \/ assertCanReceiveApplications(h) \/ CheckClass(h) \/ CreateApplication(h)
    \/ notifySchoolMembers(h) \/ NotifyFamily(h)
    \/ ApproveApplication(h) \/ RejectApplication(h) \/ SaveDecision(h)
    \/ ScheduleVisit(h) \/ CreateVisit(h) \/ FindPendingVisit(h) \/ DecideVisit(h)
    \/ FindNotice(h) \/ MarkRead(h) \/ MarkAllRead(h) \/ AdmissionRefused(h)

-----------------------------------------------------------------------------
\* The history of an application leads from step to step to its status.
HistoryLeadsToStatus(a) ==
    /\ a.history[1].from = "NONE"
    /\ \A k \in 1..(Len(a.history) - 1) : a.history[k].to = a.history[k + 1].from
    /\ a.history[Len(a.history)].to = a.status

\* The answers the family was given about a row.
Told(about, row) ==
    {notices[k].says : k \in {j \in DOMAIN notices :
        /\ notices[j].to = "family" /\ notices[j].says # "sent"
        /\ notices[j].about = about /\ notices[j].row = row}}

(***************************************************************************)
(* The school decides once on an application, and on a visit: the history  *)
(* of the application leads to its status without a gap, and the family is *)
(* never told anything but that status; unless two decisions were taken    *)
(* from the same read, which the code lets happen (the aggregate's rule    *)
(* that ACCEPTED and REJECTED are final is not the one the use cases run). *)
(* And the family is told, when nothing fails between the row and the word.*)
(***************************************************************************)
DecisionsFormOneTrail ==
    /\ "applications" \notin stale => \A i \in DOMAIN applications :
           /\ HistoryLeadsToStatus(applications[i])
           /\ Told("application", i) \subseteq {applications[i].status}
    /\ "visits" \notin stale => \A i \in DOMAIN visits :
           Told("visit", i) \subseteq {visits[i].status}
    /\ faults = 0 /\ (\A h \in Handlers : At(h, "idle")) =>
           \A i \in DOMAIN applications :
               applications[i].status \in Told("application", i) \cup {"SUBMITTED"}
=============================================================================
