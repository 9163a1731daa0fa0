------------------------------- MODULE Portal -------------------------------
(***************************************************************************)
(* The parts of the platform around the school's own profile and its bills *)
(* in one process: accounts and the closed beta, applications and visits,  *)
(* the plan MANAGEMENT, the long lists, the marketplace and the concierge. *)
(* They share the process and its requests; of their rows, accounts read   *)
(* those of the beta, and the concierge those of the marketplace.          *)
(***************************************************************************)
EXTENDS Accounts, Admissions, Rollout, Lists, Concierge

vars ==
    <<requestVars, betaVars, accountVars, admissionVars, rolloutVars, listVars, marketVars,
      conciergeVars>>

Init ==
    /\ RequestsInit
    /\ BetaInit /\ AccountInit /\ AdmissionInit /\ RolloutInit /\ ListInit
    /\ MarketInit /\ ConciergeInit

AccountUnchanged == UNCHANGED <<betaVars, accountVars>>
AdmissionUnchanged == UNCHANGED admissionVars
RolloutUnchanged == UNCHANGED rolloutVars
ListUnchanged == UNCHANGED listVars
ConciergeUnchanged == UNCHANGED <<marketVars, conciergeVars>>

AccountOperation(h) ==
    /\ (BetaStep(h) /\ UNCHANGED accountVars) \/ AccountStep(h)
    /\ AdmissionUnchanged /\ RolloutUnchanged /\ ListUnchanged /\ ConciergeUnchanged

AdmissionOperation(h) ==
    /\ AdmissionStep(h)
    /\ AccountUnchanged /\ RolloutUnchanged /\ ListUnchanged /\ ConciergeUnchanged

RolloutOperation(h) ==
    /\ RolloutStep(h)
    /\ AccountUnchanged /\ AdmissionUnchanged /\ ListUnchanged /\ ConciergeUnchanged

ListOperation(h) ==
    /\ ListStep(h)
    /\ AccountUnchanged /\ AdmissionUnchanged /\ RolloutUnchanged /\ ConciergeUnchanged

ConciergeOperation(h) ==
    /\ (MarketStep(h) /\ UNCHANGED conciergeVars) \/ ConciergeStep(h)
    /\ AccountUnchanged /\ AdmissionUnchanged /\ RolloutUnchanged /\ ListUnchanged

\* What happens without a request.
Environment ==
    \/ /\ CodesAge
       /\ AdmissionUnchanged /\ RolloutUnchanged /\ ListUnchanged /\ ConciergeUnchanged
    \/ /\ SchoolChanges
       /\ AccountUnchanged /\ RolloutUnchanged /\ ListUnchanged /\ ConciergeUnchanged

\* An exception, or the loss of the server: what was written stays.
Fault(h) ==
    /\ ~At(h, "idle")
    /\ faults < MaxFaults
    /\ faults' = faults + 1
    /\ Return(h)
    /\ UNCHANGED <<requests, agenda, stale>>
    /\ AccountUnchanged /\ AdmissionUnchanged /\ RolloutUnchanged
    /\ ListUnchanged /\ ConciergeUnchanged

\* Nothing is being served.
Waiting ==
    /\ \A h \in Handlers : At(h, "idle")
    /\ UNCHANGED vars

Next ==
    \/ \E h \in Handlers :
        \/ AccountOperation(h) \/ AdmissionOperation(h) \/ RolloutOperation(h)
        \/ ListOperation(h) \/ ConciergeOperation(h) \/ Fault(h)
    \/ Environment
    \/ Waiting

Spec == Init /\ [][Next]_vars

-----------------------------------------------------------------------------
\* Every row and every request is of its type.
TypeOK ==
    /\ BetaTypeOK /\ AccountTypeOK /\ AdmissionTypeOK /\ RolloutTypeOK /\ ListTypeOK
    /\ MarketTypeOK /\ ConciergeTypeOK
    /\ frame \in [Handlers -> {Idle} \cup BetaFrames \cup AccountFrames \cup AdmissionFrames
                       \cup RolloutFrames \cup ListFrames \cup MarketFrames \cup ConciergeFrames]

(***************************************************************************)
(* What is limited stays limited: the wrong guesses of a code by its       *)
(* attempts (one more for every request that read the count before), and   *)
(* the testers of a kind by their seats, unless two requests that counted  *)
(* the same testers both took the last one (overbooked).                   *)
(***************************************************************************)
LimitsHold == AttemptsBounded /\ SeatsHoldUnlessOverbooked

(***************************************************************************)
(* Every row is what it was last asked to be, unless it was saved from a   *)
(* copy that another request had changed: users, decisions on testers, the *)
(* plan, reviews, and the needs of a conversation.                         *)
(***************************************************************************)
RowsAreAsLastAsked ==
    /\ UsersAreAsLastAsked
    /\ RulingsStand
    /\ PlanIsAsLastAsked
    /\ ReviewsAreAsLastAsked
    /\ ConversationIsAsLastAsked
=============================================================================
