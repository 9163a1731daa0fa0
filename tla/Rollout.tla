------------------------------- MODULE Rollout -------------------------------
(***************************************************************************)
(* The plan MANAGEMENT and how it is rolled out: the phase of the module,  *)
(* the waitlist of schools, and the row of the plan with its features.     *)
(*                                                                         *)
(* Left out: names, descriptions and prices, the notifications and mails   *)
(* after a change (an owner is told what the row says), and who may ask.   *)
(***************************************************************************)
EXTENDS Requests

CONSTANTS Features

VARIABLES
    phase,         \* gestao_module_config.phase
    plan,          \* the row of the plan MANAGEMENT
    entry,         \* the waitlist entry of one school
    asked          \* history: what the plan was last asked to be

rolloutVars == <<phase, plan, entry, asked>>

Phase == {"WAITLIST", "BETA", "PRODUCTION"}
PlanRow == [isPublic : BOOLEAN, isActive : BOOLEAN, features : SUBSET Features]
EntryStatus == {"NONE", "PENDING", "APPROVED", "REJECTED"}
\* An address to test at is there for an approved school only.
Entry ==
    {e \in [status : EntryStatus, testUrl : BOOLEAN] : e.testUrl => e.status = "APPROVED"}

RolloutFrames ==
    [at : {"rollout.sync", "join.find", "join.create", "review.write", "plan.write"},
     phase : Phase,                  \* the phase that was read, or written
     want : SUBSET Features,         \* the features the request asks for
     read : SUBSET Features]         \* ... and those the plan had

Rolling(step) == [at |-> step, phase |-> phase, want |-> {}, read |-> {}]

RolloutTypeOK ==
    /\ phase \in Phase
    /\ plan \in PlanRow /\ asked \in PlanRow
    /\ entry \in Entry

\* The seed: the plan is there, neither active nor public.
RolloutInit ==
    /\ phase = "WAITLIST"
    /\ plan = [isPublic |-> FALSE, isActive |-> FALSE, features |-> Features]
    /\ asked = plan
    /\ entry = [status |-> "NONE", testUrl |-> FALSE]

-----------------------------------------------------------------------------
(* The phase is saved in one statement, the plan that follows it in the    *)
(* next one.                                                               *)

Follows(row, p) ==
    IF p = "PRODUCTION" THEN [row EXCEPT !.isPublic = TRUE, !.isActive = TRUE]
                        ELSE [row EXCEPT !.isPublic = FALSE]

updateConfig(h) ==
    /\ Begin(h, "rollout")
    /\ \E p \in Phase :
        /\ phase' = p
        /\ asked' = Follows(asked, p)
        /\ Become(h, [Rolling("rollout.sync") EXCEPT !.phase = p])
    /\ UNCHANGED <<plan, entry, stale>>

syncManagementPlanVisibility(h) ==
    /\ At(h, "rollout.sync")
    /\ plan' = Follows(plan, frame[h].phase)
    /\ Mark("plan", phase = frame[h].phase /\ asked = Follows(asked, phase))
    /\ Return(h)
    /\ UNCHANGED <<phase, entry, asked, counters>>

-----------------------------------------------------------------------------
(* A school joins the waitlist, and an administrator decides.              *)

joinWaitlist(h) ==
    /\ Begin(h, "waitlist")
    /\ phase \in {"WAITLIST", "BETA"}
    /\ Become(h, Rolling("join.find"))
    /\ UNCHANGED <<rolloutVars, stale>>

FindEntry(h) ==
    /\ At(h, "join.find")
    /\ IF entry.status = "NONE" THEN Goto(h, "join.create") ELSE Return(h)
    /\ UNCHANGED <<rolloutVars, counters, stale>>

\* One entry per school: the second of two requests that found none fails.
CreateEntry(h) ==
    /\ At(h, "join.create")
    /\ entry' = IF entry.status = "NONE" THEN [status |-> "PENDING", testUrl |-> FALSE] ELSE entry
    /\ Return(h)
    /\ UNCHANGED <<phase, plan, asked, counters, stale>>

reviewEntry(h) ==
    /\ Begin(h, "waitlist")
    /\ entry.status # "NONE"
    /\ Become(h, Rolling("review.write"))
    /\ UNCHANGED <<rolloutVars, stale>>

WriteReviewWithUrl(h) ==
    /\ At(h, "review.write")
    /\ \E decision \in {"APPROVED", "REJECTED"}, url \in BOOLEAN :
        entry' = [status |-> decision, testUrl |-> url]
    /\ Return(h)
    /\ UNCHANGED <<phase, plan, asked, counters, stale>>

\* Whatever was decided before; an address to test at only with an approval.
WriteReview(h) ==
    /\ At(h, "review.write")
    /\ \E decision \in {"APPROVED", "REJECTED"}, url \in BOOLEAN :
        entry' = [status |-> decision, testUrl |-> url /\ decision = "APPROVED"]
    /\ Return(h)
    /\ UNCHANGED <<phase, plan, asked, counters, stale>>

-----------------------------------------------------------------------------
(* An administrator edits the plan: its features are read before the       *)
(* transaction that writes them.                                           *)

ReadPlan(h) ==
    /\ Begin(h, "plan")
    /\ \E want \in SUBSET Features :
        Become(h, [Rolling("plan.write") EXCEPT !.want = want, !.read = plan.features])
    /\ UNCHANGED <<rolloutVars, stale>>

\* The features that are not wanted go; of those wanted, the ones that were
\* not read are created, and a code is there once.
WritePlan(h) ==
    /\ At(h, "plan.write")
    /\ (frame[h].want \ frame[h].read) \cap plan.features = {}
    /\ \E public \in BOOLEAN, active \in BOOLEAN :
        LET now == [isPublic |-> public, isActive |-> active, features |-> frame[h].want] IN
        /\ plan' = [now EXCEPT !.features =
                       (plan.features \cap frame[h].want) \cup (frame[h].want \ frame[h].read)]
        /\ asked' = now
    /\ Mark("plan", plan.features = frame[h].read)
    /\ Return(h)
    /\ UNCHANGED <<phase, entry, counters>>

\* An edit that says nothing of the features leaves them.
PatchPlan(h) ==
    /\ Serve(h, "plan")
    /\ \E public \in BOOLEAN, active \in BOOLEAN :
        /\ plan' = [plan EXCEPT !.isPublic = public, !.isActive = active]
        /\ asked' = [asked EXCEPT !.isPublic = public, !.isActive = active]
    /\ UNCHANGED <<phase, entry, stale>>

PlanRefused(h) ==
    /\ At(h, "plan.write")
    /\ (frame[h].want \ frame[h].read) \cap plan.features # {}
    /\ Return(h)
    /\ UNCHANGED <<rolloutVars, counters, stale>>

RolloutStep(h) ==
    \/ updateConfig(h) \/ syncManagementPlanVisibility(h) \/ joinWaitlist(h) \/ FindEntry(h)
    \/ CreateEntry(h) \/ reviewEntry(h) \/ WriteReview(h) \/ ReadPlan(h) \/ WritePlan(h)
    \/ PatchPlan(h) \/ PlanRefused(h)

-----------------------------------------------------------------------------
(***************************************************************************)
(* When no request is between its two statements, the plan is what was     *)
(* last asked of it: public in PRODUCTION and hidden before it, with the   *)
(* features the administrator chose; unless two requests overlapped or one *)
(* failed in between.                                                      *)
(***************************************************************************)
PlanIsAsLastAsked ==
    "plan" \notin stale /\ faults = 0 /\ (\A h \in Handlers : ~At(h, "rollout.sync")) =>
        plan = asked
=============================================================================
