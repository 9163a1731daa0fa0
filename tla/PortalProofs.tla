---------------------------- MODULE PortalProofs ----------------------------
(***************************************************************************)
(* What the portal keeps, proved for every number of requests, rows,       *)
(* emails, schools and faults.  A step belongs to one part (StepCases) and *)
(* leaves the requests of the others as they are, so each part has an      *)
(* invariant of its own: what its tables hold, and what each of its        *)
(* requests holds of them between two of its steps.                        *)
(***************************************************************************)
EXTENDS PortalTypes

\* None of the requests at these steps is served: they stay as they are, unless
\* one of them fails.
Untouched(steps) ==
    /\ \A k \in Handlers : frame'[k].at \in steps => frame'[k] = frame[k]
    /\ faults' = 0 => \A k \in Handlers : frame[k].at \in steps => frame'[k] = frame[k]
    /\ faults' = 0 => faults = 0
    /\ stale \subseteq stale'

\* A request at one of these steps, or about to be, is served.
ServedAt(h, steps) ==
    /\ h \in Handlers
    /\ frame[h].at \in steps \cup {"idle"}
    /\ \A k \in Handlers \ {h} : frame'[k] = frame[k]
    /\ stale \subseteq stale' /\ faults' = faults
    /\ frame'[h].at \in steps \cup {"idle"}

AllSteps ==
    {BetaSteps, AccountSteps, AdmissionSteps, RolloutSteps, ListSteps, MarketSteps, ConciergeSteps}

LEMMA StepsApart ==
    \A s, t \in AllSteps : s # t => s \cap t = {}
BY DEF AllSteps, BetaSteps, AccountSteps, AdmissionSteps, RolloutSteps, ListSteps, MarketSteps,
       ConciergeSteps

LEMMA IdleIsNoStep ==
    \A s \in AllSteps : "idle" \notin s
BY DEF AllSteps, BetaSteps, AccountSteps, AdmissionSteps, RolloutSteps, ListSteps, MarketSteps,
       ConciergeSteps

LEMMA StepsDiffer ==
    /\ BetaSteps \notin {AccountSteps, AdmissionSteps, RolloutSteps, ListSteps, MarketSteps,
                         ConciergeSteps}
    /\ AccountSteps \notin {AdmissionSteps, RolloutSteps, ListSteps, MarketSteps, ConciergeSteps}
    /\ AdmissionSteps \notin {RolloutSteps, ListSteps, MarketSteps, ConciergeSteps}
    /\ RolloutSteps \notin {ListSteps, MarketSteps, ConciergeSteps}
    /\ ListSteps \notin {MarketSteps, ConciergeSteps}
    /\ MarketSteps # ConciergeSteps
<1>1. /\ "beta.limit" \in BetaSteps /\ "issue.create" \in AccountSteps
      /\ "apply.class" \in AdmissionSteps /\ "rollout.sync" \in RolloutSteps
      /\ "list.page" \in ListSteps /\ "review.find" \in MarketSteps
      /\ "turn.save" \in ConciergeSteps
  BY DEF BetaSteps, AccountSteps, AdmissionSteps, RolloutSteps, ListSteps, MarketSteps,
         ConciergeSteps
<1>2. /\ "beta.limit" \notin AccountSteps \cup AdmissionSteps \cup RolloutSteps \cup ListSteps
                              \cup MarketSteps \cup ConciergeSteps
      /\ "issue.create" \notin AdmissionSteps \cup RolloutSteps \cup ListSteps \cup MarketSteps
                                \cup ConciergeSteps
      /\ "apply.class" \notin RolloutSteps \cup ListSteps \cup MarketSteps \cup ConciergeSteps
      /\ "rollout.sync" \notin ListSteps \cup MarketSteps \cup ConciergeSteps
      /\ "list.page" \notin MarketSteps \cup ConciergeSteps
      /\ "review.find" \notin ConciergeSteps
  BY DEF BetaSteps, AccountSteps, AdmissionSteps, RolloutSteps, ListSteps, MarketSteps,
         ConciergeSteps
<1> QED
  BY <1>1, <1>2

\* A request of one part is none of the others.
LEMMA ServedElsewhere ==
    ASSUME NEW h, NEW s \in AllSteps, ServedAt(h, s), NEW t \in AllSteps, s # t
    PROVE  Untouched(t)
<1>1. s \cap t = {} /\ "idle" \notin t
  BY StepsApart, IdleIsNoStep
<1>2. frame[h].at \notin t /\ frame'[h].at \notin t
  BY <1>1 DEF ServedAt
<1> QED
  BY <1>2 DEF ServedAt, Untouched

\* What any step is: a step of one part, or one that touches no request but one that fails.
LEMMA StepCases ==
    ASSUME TInv, [Next]_vars
    PROVE  \/ \E h \in Handlers : /\ BetaStep(h) /\ ServedAt(h, BetaSteps)
                                  /\ UNCHANGED <<accountVars, admissionVars, rolloutVars, listVars,
                                                 marketVars, conciergeVars>>
           \/ \E h \in Handlers : /\ AccountStep(h) /\ ServedAt(h, AccountSteps)
                                  /\ UNCHANGED <<betaVars, admissionVars, rolloutVars, listVars,
                                                 marketVars, conciergeVars>>
           \/ \E h \in Handlers : /\ AdmissionStep(h) /\ ServedAt(h, AdmissionSteps)
                                  /\ UNCHANGED <<betaVars, accountVars, rolloutVars, listVars,
                                                 marketVars, conciergeVars>>
           \/ \E h \in Handlers : /\ RolloutStep(h) /\ ServedAt(h, RolloutSteps)
                                  /\ UNCHANGED <<betaVars, accountVars, admissionVars, listVars,
                                                 marketVars, conciergeVars>>
           \/ \E h \in Handlers : /\ ListStep(h) /\ ServedAt(h, ListSteps)
                                  /\ UNCHANGED <<betaVars, accountVars, admissionVars, rolloutVars,
                                                 marketVars, conciergeVars>>
           \/ \E h \in Handlers : /\ MarketStep(h) /\ ServedAt(h, MarketSteps)
                                  /\ UNCHANGED <<betaVars, accountVars, admissionVars, rolloutVars,
                                                 listVars, conciergeVars>>
           \/ \E h \in Handlers : /\ ConciergeStep(h) /\ ServedAt(h, ConciergeSteps)
                                  /\ UNCHANGED <<betaVars, accountVars, admissionVars, rolloutVars,
                                                 listVars, marketVars>>
           \/ /\ \A s \in AllSteps : Untouched(s)
              /\ UNCHANGED <<betaVars, admissionVars, rolloutVars, listVars, marketVars,
                             conciergeVars>>
              /\ CodesAge \/ UNCHANGED accountVars
           \/ /\ \A s \in AllSteps : Untouched(s)
              /\ UNCHANGED <<betaVars, accountVars, rolloutVars, listVars, marketVars,
                             conciergeVars>>
              /\ SchoolChanges
<1>0. TypeOK /\ FrameTypes /\ \A h \in Handlers : AdmissionHeld(frame[h])
  BY DEF TInv, TypeOK, FrameTypes, AllFrames
<1> DEFINE Moves(h, s, fs) == /\ \E f \in fs \cup {Idle} : Become(h, f)
                              /\ frame[h].at \in s \cup {"idle"}
                              /\ stale \subseteq stale' /\ faults' = faults
<1>m. \A h \in Handlers : \A f : Become(h, f) =>
         frame'[h] = f /\ \A k \in Handlers \ {h} : frame'[k] = frame[k]
  BY <1>0 DEF Become, FrameTypes
<1>s. ASSUME NEW h \in Handlers
      PROVE  /\ Moves(h, BetaSteps, BetaFrames) => ServedAt(h, BetaSteps)
             /\ Moves(h, AccountSteps, AccountFrames) => ServedAt(h, AccountSteps)
             /\ Moves(h, AdmissionSteps, AdmissionFrames) => ServedAt(h, AdmissionSteps)
             /\ Moves(h, RolloutSteps, RolloutFrames) => ServedAt(h, RolloutSteps)
             /\ Moves(h, ListSteps, ListFrames) => ServedAt(h, ListSteps)
             /\ Moves(h, MarketSteps, MarketFrames) => ServedAt(h, MarketSteps)
             /\ Moves(h, ConciergeSteps, ConciergeFrames) => ServedAt(h, ConciergeSteps)
  BY <1>m, StepOfFrame DEF ServedAt
<1>1. ASSUME NEW h \in Handlers, AccountOperation(h), BetaStep(h), UNCHANGED accountVars
      PROVE  /\ BetaStep(h) /\ ServedAt(h, BetaSteps)
             /\ UNCHANGED <<accountVars, admissionVars, rolloutVars, listVars, marketVars,
                            conciergeVars>>
  BY <1>0, <1>1, <1>s, BetaStepTypes
  DEF AccountOperation, AdmissionUnchanged, RolloutUnchanged, ListUnchanged, ConciergeUnchanged
<1>2. ASSUME NEW h \in Handlers, AccountOperation(h), AccountStep(h)
      PROVE  /\ AccountStep(h) /\ ServedAt(h, AccountSteps)
             /\ UNCHANGED <<betaVars, admissionVars, rolloutVars, listVars, marketVars,
                            conciergeVars>>
  BY <1>0, <1>2, <1>s, AccountStepTypes, AccountsOnlyRead
  DEF AccountOperation, AdmissionUnchanged, RolloutUnchanged, ListUnchanged, ConciergeUnchanged
<1>3. ASSUME NEW h \in Handlers, AdmissionOperation(h)
      PROVE  /\ AdmissionStep(h) /\ ServedAt(h, AdmissionSteps)
             /\ UNCHANGED <<betaVars, accountVars, rolloutVars, listVars, marketVars,
                            conciergeVars>>
  BY <1>0, <1>3, <1>s, AdmissionStepTypes
  DEF AdmissionOperation, AccountUnchanged, RolloutUnchanged, ListUnchanged, ConciergeUnchanged
<1>4. ASSUME NEW h \in Handlers, RolloutOperation(h)
      PROVE  /\ RolloutStep(h) /\ ServedAt(h, RolloutSteps)
             /\ UNCHANGED <<betaVars, accountVars, admissionVars, listVars, marketVars,
                            conciergeVars>>
  BY <1>0, <1>4, <1>s, RolloutStepTypes
  DEF RolloutOperation, AccountUnchanged, AdmissionUnchanged, ListUnchanged, ConciergeUnchanged
<1>5. ASSUME NEW h \in Handlers, ListOperation(h)
      PROVE  /\ ListStep(h) /\ ServedAt(h, ListSteps)
             /\ UNCHANGED <<betaVars, accountVars, admissionVars, rolloutVars, marketVars,
                            conciergeVars>>
  BY <1>0, <1>5, <1>s, ListStepTypes
  DEF ListOperation, AccountUnchanged, AdmissionUnchanged, RolloutUnchanged, ConciergeUnchanged
<1>6. ASSUME NEW h \in Handlers, ConciergeOperation(h), MarketStep(h), UNCHANGED conciergeVars
      PROVE  /\ MarketStep(h) /\ ServedAt(h, MarketSteps)
             /\ UNCHANGED <<betaVars, accountVars, admissionVars, rolloutVars, listVars,
                            conciergeVars>>
  BY <1>0, <1>6, <1>s, MarketStepTypes
  DEF ConciergeOperation, AccountUnchanged, AdmissionUnchanged, RolloutUnchanged, ListUnchanged
<1>7. ASSUME NEW h \in Handlers, ConciergeOperation(h), ConciergeStep(h)
      PROVE  /\ ConciergeStep(h) /\ ServedAt(h, ConciergeSteps)
             /\ UNCHANGED <<betaVars, accountVars, admissionVars, rolloutVars, listVars,
                            marketVars>>
  BY <1>0, <1>7, <1>s, ConciergeStepTypes, ConciergeOnlyReads
  DEF ConciergeOperation, AccountUnchanged, AdmissionUnchanged, RolloutUnchanged, ListUnchanged
<1>8. ASSUME NEW h \in Handlers, Fault(h)
      PROVE  /\ \A s \in AllSteps : Untouched(s)
             /\ UNCHANGED <<betaVars, accountVars, admissionVars, rolloutVars, listVars, marketVars,
                            conciergeVars>>
  <2>1. faults' # 0 /\ stale' = stale
    BY <1>8 DEF Fault, TInv
  <2>2. frame'[h] = Idle /\ \A k \in Handlers \ {h} : frame'[k] = frame[k]
    BY <1>8, <1>m DEF Fault, Return
  <2>3. \A s \in AllSteps : Untouched(s)
    BY <2>1, <2>2, IdleIsNoStep DEF Untouched, Idle
  <2> QED
    BY <1>8, <2>3
    DEF Fault, AccountUnchanged, AdmissionUnchanged, RolloutUnchanged, ListUnchanged,
        ConciergeUnchanged
<1>9. ASSUME frame' = frame, stale' = stale, faults' = faults
      PROVE  \A s \in AllSteps : Untouched(s)
  BY <1>9 DEF Untouched
<1>10. ASSUME Environment
       PROVE  /\ \A s \in AllSteps : Untouched(s)
              /\ UNCHANGED <<betaVars, rolloutVars, listVars, marketVars, conciergeVars>>
              /\ (CodesAge /\ UNCHANGED admissionVars) \/ (SchoolChanges /\ UNCHANGED accountVars)
  <2>1. frame' = frame /\ stale' = stale /\ faults' = faults
    BY <1>10 DEF Environment, CodesAge, SchoolChanges, requestVars, counters
  <2>2. UNCHANGED <<betaVars, rolloutVars, listVars, marketVars, conciergeVars>>
    BY <1>10
    DEF Environment, CodesAge, AccountUnchanged, RolloutUnchanged, ListUnchanged, ConciergeUnchanged
  <2>3. (CodesAge /\ UNCHANGED admissionVars) \/ (SchoolChanges /\ UNCHANGED accountVars)
    <3>1. AdmissionUnchanged => UNCHANGED admissionVars
      BY DEF AdmissionUnchanged
    <3>2. AccountUnchanged => UNCHANGED accountVars
      BY DEF AccountUnchanged
    <3> QED
      BY <1>10, <3>1, <3>2, Zenon DEF Environment
  <2> QED
    BY <1>9, <2>1, <2>2, <2>3
<1>11. ASSUME UNCHANGED vars
       PROVE  /\ \A s \in AllSteps : Untouched(s)
              /\ UNCHANGED <<betaVars, accountVars, admissionVars, rolloutVars, listVars, marketVars,
                             conciergeVars>>
  <2>1. frame' = frame /\ stale' = stale /\ faults' = faults
    BY <1>11 DEF vars, requestVars, counters
  <2> QED
    BY <1>9, <1>11, <2>1 DEF vars
<1>12. CASE \E h \in Handlers : AccountOperation(h)
  BY <1>1, <1>2, <1>12 DEF AccountOperation
<1>13. CASE \E h \in Handlers : ConciergeOperation(h)
  BY <1>6, <1>7, <1>13 DEF ConciergeOperation
<1>14. CASE \E h \in Handlers : AdmissionOperation(h) \/ RolloutOperation(h) \/ ListOperation(h)
  BY <1>3, <1>4, <1>5, <1>14
<1>15. CASE (\E h \in Handlers : Fault(h)) \/ UNCHANGED vars
  BY <1>8, <1>11, <1>15
<1>16. CASE Environment
  BY <1>10, <1>16
<1> QED
  BY <1>12, <1>13, <1>14, <1>15, <1>16 DEF Next, Waiting
-----------------------------------------------------------------------------
(* Testers.                                                                *)

\* What a request for access holds: a free seat once it counted them, and a row
\* that was not there or was rejected.
SeatFound(f) == f.at = "beta.write" => f.used < f.limit
MayReopen(f) ==
    f.at \in {"beta.limit", "beta.count", "beta.write"} => f.was.status \in {"NONE", "REJECTED"}

BetaInv ==
    /\ SeatsHoldUnlessOverbooked
    /\ RulingsStand
    /\ \A h \in Handlers : SeatFound(frame[h]) /\ MayReopen(frame[h])

\* Seats are counted by status and type only.
LEMMA SameSeats ==
    ASSUME NEW one \in [Emails -> Access], NEW other \in [Emails -> Access],
           \A e \in Emails : one[e].status = other[e].status /\ one[e].type = other[e].type
    PROVE  /\ \A t : UsedIn(one, t) = UsedIn(other, t)
           /\ \A limits : Exceeded(one, limits) = Exceeded(other, limits)
BY DEF UsedIn, Exceeded

\* One element more is one more at most.
LEMMA OneMoreElement ==
    ASSUME NEW S, NEW x, IsFiniteSet(S)
    PROVE  IsFiniteSet(S \cup {x}) /\ Cardinality(S \cup {x}) <= Cardinality(S) + 1
<1>1. Cardinality(S) \in Nat
  BY FS_CardinalityType
<1>2. /\ IsFiniteSet(S \cup {x})
      /\ Cardinality(S \cup {x}) = IF x \in S THEN Cardinality(S) ELSE Cardinality(S) + 1
  BY FS_AddElement
<1> QED
  BY <1>1, <1>2

\* A request that takes a free seat exceeds none.
LEMMA OneMoreSeat ==
    ASSUME NEW one \in [Emails -> Access], NEW e \in Emails, NEW t \in TesterType,
           NEW limits \in [TesterType -> Nat], Cardinality(UsedIn(one, t)) < limits[t]
    PROVE  Exceeded([one EXCEPT ![e] = Pending(t)], limits) \subseteq Exceeded(one, limits)
<1> DEFINE other == [one EXCEPT ![e] = Pending(t)]
<1>1. /\ UsedIn(other, t) \subseteq UsedIn(one, t) \cup {e}
      /\ \A u \in TesterType \ {t} : UsedIn(other, u) \subseteq UsedIn(one, u)
      /\ \A u : UsedIn(one, u) \subseteq Emails
  BY DEF UsedIn, Pending
<1>2. \A u : IsFiniteSet(UsedIn(one, u)) /\ Cardinality(UsedIn(one, u)) \in Nat
  BY <1>1, BetaAssumption, FS_Subset, FS_CardinalityType
<1>3. Cardinality(UsedIn(other, t)) <= Cardinality(UsedIn(one, t)) + 1
  <2>1. /\ IsFiniteSet(UsedIn(one, t) \cup {e})
        /\ Cardinality(UsedIn(one, t) \cup {e}) <= Cardinality(UsedIn(one, t)) + 1
    BY <1>2, OneMoreElement
  <2>2. /\ Cardinality(UsedIn(other, t)) <= Cardinality(UsedIn(one, t) \cup {e})
        /\ Cardinality(UsedIn(other, t)) \in Nat
    BY <1>1, <2>1, FS_Subset, FS_CardinalityType
  <2>3. Cardinality(UsedIn(one, t) \cup {e}) \in Nat
    BY <2>1, FS_CardinalityType
  <2> QED
    BY <1>2, <2>1, <2>2, <2>3
<1>4. \A u \in TesterType \ {t} : Cardinality(UsedIn(other, u)) <= Cardinality(UsedIn(one, u))
  BY <1>1, <1>2, FS_Subset
<1>5. \A u \in TesterType : Cardinality(UsedIn(other, u)) \in Nat
  <2>1. \A u \in TesterType : UsedIn(other, u) \subseteq Emails
    BY DEF UsedIn
  <2> QED
    BY <2>1, BetaAssumption, FS_Subset, FS_CardinalityType
<1>6. Cardinality(UsedIn(other, t)) <= limits[t]
  <2>1. limits[t] \in Nat
    OBVIOUS
  <2> HIDE DEF other
  <2> QED
    BY <1>2, <1>3, <1>5, <2>1
<1>7. \A u \in TesterType : u \in Exceeded(other, limits) => u \in Exceeded(one, limits)
  <2> TAKE u \in TesterType
  <2>1. limits[u] \in Nat /\ limits[t] \in Nat
    OBVIOUS
  <2> HIDE DEF other
  <2>2. CASE u = t
    BY <1>5, <1>6, <2>1, <2>2 DEF Exceeded
  <2>3. CASE u # t
    BY <1>2, <1>4, <1>5, <2>1, <2>3 DEF Exceeded
  <2> QED
    BY <2>2, <2>3
<1> QED
  BY <1>7 DEF Exceeded

LEMMA BetaInvInit == Init => BetaInv
<1> SUFFICES ASSUME Init PROVE BetaInv
  OBVIOUS
<1>1. \A h \in Handlers : frame[h].at = "idle"
  BY DEF Init, RequestsInit, Idle
<1>2. Exceeded(access, seats) = {}
  <2>1. \A t : UsedIn(access, t) = {}
    BY DEF Init, BetaInit, UsedIn, NoAccess
  <2>2. Cardinality({}) = 0
    BY FS_EmptySet
  <2> QED
    BY <2>1, <2>2 DEF Init, BetaInit, Exceeded
<1> QED
  BY <1>1, <1>2 DEF BetaInv, SeatsHoldUnlessOverbooked, RulingsStand, Init, BetaInit, SeatFound,
                    MayReopen

LEMMA BetaInvStep == TInv /\ TInv' /\ BetaInv /\ [Next]_vars => BetaInv'
<1> SUFFICES ASSUME TInv, TInv', BetaInv, [Next]_vars PROVE BetaInv'
  OBVIOUS
<1> USE DEF AllSteps
<1>t. /\ access \in [Emails -> Access] /\ seats \in [TesterType -> 0..MaxSeats]
      /\ ruling \in [Emails -> {"NONE", "APPROVED", "REJECTED"}]
      /\ \A h \in Handlers : frame[h] \in AllFrames
  BY DEF TInv, TypeOK, BetaTypeOK, AllFrames
<1>g. /\ SeatsHoldUnlessOverbooked /\ RulingsStand
      /\ \A h \in Handlers : SeatFound(frame[h]) /\ MayReopen(frame[h])
  BY DEF BetaInv
<1>s. \A limits, t : limits \in [TesterType -> 0..MaxSeats] /\ t \in TesterType => limits[t] \in Nat
  BY BetaAssumption
<1>1. ASSUME Untouched(BetaSteps), UNCHANGED betaVars PROVE BetaInv'
  <2>1. SeatsHoldUnlessOverbooked' /\ RulingsStand'
    BY <1>g, <1>1 DEF betaVars, SeatsHoldUnlessOverbooked, Exceeded, UsedIn, RulingsStand, Untouched
  <2>2. \A h \in Handlers : SeatFound(frame'[h]) /\ MayReopen(frame'[h])
    BY <1>g, <1>1 DEF Untouched, BetaSteps, SeatFound, MayReopen
  <2> QED
    BY <2>1, <2>2 DEF BetaInv
<1>2. ASSUME NEW h \in Handlers, BetaStep(h), ServedAt(h, BetaSteps) PROVE BetaInv'
  <2>k. ASSUME SeatFound(frame'[h]), MayReopen(frame'[h])
        PROVE  \A k \in Handlers : SeatFound(frame'[k]) /\ MayReopen(frame'[k])
    BY <1>2, <1>g, <2>k DEF ServedAt
  <2>f. frame[h].at \in BetaSteps => frame[h] \in BetaFrames
    BY <1>t, FrameOfStep
  <2>b. \A f : Become(h, f) => frame'[h] = f
    BY DEF Become, TInv, TypeOK
  <2>i. SeatFound(Idle) /\ MayReopen(Idle)
    BY DEF Idle, SeatFound, MayReopen
  <2>u. At(h, "idle") /\ frame' = frame => frame'[h] = Idle
    BY <1>t, FrameOfStep DEF At
  <2>w. stale \subseteq stale'
    BY <1>2 DEF ServedAt
  <2>1. ASSUME updateSettings(h) PROVE BetaInv'
    <3>1. SeatsHoldUnlessOverbooked'
      BY <2>1 DEF updateSettings, SeatsHoldUnlessOverbooked, Exceeded, UsedIn
    <3>2. RulingsStand'
      BY <1>g, <2>1 DEF updateSettings, RulingsStand
    <3> QED
      BY <2>1, <2>k, <2>i, <2>u, <3>1, <3>2 DEF BetaInv, updateSettings, Serve, Begin
  <2>2. ASSUME UNCHANGED betaVars, SeatFound(frame'[h]), MayReopen(frame'[h]) PROVE BetaInv'
    <3>1. SeatsHoldUnlessOverbooked' /\ RulingsStand'
      BY <1>g, <2>2, <2>w DEF betaVars, SeatsHoldUnlessOverbooked, Exceeded, UsedIn, RulingsStand
    <3> QED
      BY <2>2, <2>k, <3>1 DEF BetaInv
  <2>3. ASSUME requestAccess(h) PROVE BetaInv'
    BY <2>3, <2>2, <2>b DEF requestAccess, SeatFound, MayReopen
  <2>4. ASSUME ReadLimit(h) PROVE BetaInv'
    <3>1. frame[h] \in BetaFrames /\ frame[h].was.status \in {"NONE", "REJECTED"}
      BY <2>4, <2>f, <1>g DEF ReadLimit, At, BetaSteps, MayReopen
    <3>2. frame'[h].at = "beta.count" /\ frame'[h].was = frame[h].was
      BY <2>4, <2>b, <3>1 DEF ReadLimit, BetaFrames
    <3> QED
      BY <2>4, <2>2, <3>1, <3>2 DEF ReadLimit, SeatFound, MayReopen
  <2>5. ASSUME assertSlotAvailable(h) PROVE BetaInv'
    <3>1. frame[h] \in BetaFrames /\ frame[h].was.status \in {"NONE", "REJECTED"}
      BY <2>5, <2>f, <1>g DEF assertSlotAvailable, At, BetaSteps, MayReopen
    <3>2. CASE countUsedSlots(frame[h].type) >= frame[h].limit
      BY <2>5, <2>2, <2>b, <2>i, <3>2 DEF assertSlotAvailable
    <3>3. CASE ~(countUsedSlots(frame[h].type) >= frame[h].limit)
      <4>1. /\ frame'[h].was = frame[h].was /\ frame'[h].limit = frame[h].limit
            /\ frame'[h].used = countUsedSlots(frame[h].type)
        BY <2>5, <2>b, <3>1, <3>3 DEF assertSlotAvailable, BetaFrames
      <4>2. frame[h].limit \in Nat /\ countUsedSlots(frame[h].type) \in Nat
        <5>1. UsedIn(access, frame[h].type) \subseteq Emails
          BY DEF UsedIn
        <5> QED
          BY <5>1, <3>1, BetaAssumption, FS_Subset, FS_CardinalityType
          DEF BetaFrames, countUsedSlots
      <4>3. frame'[h].used < frame'[h].limit
        BY <3>3, <4>1, <4>2
      <4> QED
        BY <2>5, <2>2, <3>1, <4>1, <4>3 DEF assertSlotAvailable, SeatFound, MayReopen
    <3> QED
      BY <3>2, <3>3
  <2>6. ASSUME WriteRequest(h) PROVE BetaInv'
    <3> DEFINE e == frame[h].email
               t == frame[h].type
    <3>1. /\ frame[h] \in BetaFrames /\ e \in Emails /\ t \in TesterType
          /\ frame[h].was.status \in {"NONE", "REJECTED"} /\ frame[h].used < frame[h].limit
      BY <2>6, <2>f, <1>g DEF WriteRequest, At, BetaSteps, BetaFrames, MayReopen, SeatFound
    <3>2. access' = [access EXCEPT ![e] = Pending(t)] /\ seats' = seats
      BY <2>6 DEF WriteRequest
    <3>3. SeatsHoldUnlessOverbooked'
      <4>1. CASE countUsedSlots(t) = frame[h].used /\ seats[t] = frame[h].limit
        <5>1. Cardinality(UsedIn(access, t)) < seats[t]
          BY <3>1, <4>1 DEF countUsedSlots
        <5>2. seats \in [TesterType -> Nat]
          BY <1>t, BetaAssumption
        <5>3. Exceeded([access EXCEPT ![e] = Pending(t)], seats) \subseteq Exceeded(access, seats)
          BY <1>t, <3>1, <5>1, <5>2, OneMoreSeat
        <5>4. overbooked' = overbooked
          BY <2>6, <4>1 DEF WriteRequest
        <5>5. Exceeded(access, seats) \subseteq overbooked
          BY <1>g DEF SeatsHoldUnlessOverbooked
        <5>6. Exceeded(access', seats') \subseteq overbooked'
          BY <3>2, <5>3, <5>4, <5>5
        <5> QED
          BY <5>6 DEF SeatsHoldUnlessOverbooked, Exceeded, UsedIn
      <4>2. CASE ~(countUsedSlots(t) = frame[h].used /\ seats[t] = frame[h].limit)
        <5>1. Exceeded(access', seats') \subseteq overbooked'
          BY <2>6, <3>2, <4>2 DEF WriteRequest
        <5> QED
          BY <5>1 DEF SeatsHoldUnlessOverbooked, Exceeded, UsedIn
      <4> QED
        BY <4>1, <4>2
    <3>4. RulingsStand'
      <4> SUFFICES ASSUME "access" \notin stale', NEW x \in Emails, ruling'[x] = "APPROVED"
                   PROVE  access'[x].status = "APPROVED"
        BY DEF RulingsStand
      <4>1. access[e] = frame[h].was /\ "access" \notin stale /\ ruling' = ruling
        BY <2>6 DEF WriteRequest, Mark
      <4>2. access[x].status = "APPROVED"
        BY <1>g, <4>1 DEF RulingsStand
      <4>3. x # e
        BY <3>1, <4>1, <4>2
      <4> QED
        BY <1>t, <3>2, <4>2, <4>3
    <3>5. frame'[h] = Idle
      BY <2>6, <2>b DEF WriteRequest, Return
    <3> QED
      BY <2>k, <2>i, <3>3, <3>4, <3>5 DEF BetaInv
  <2>7. ASSUME reviewRequest(h) PROVE BetaInv'
    <3>1. SeatsHoldUnlessOverbooked'
      <4>1. Exceeded(access', seats') \subseteq overbooked'
        BY <2>7 DEF reviewRequest
      <4> QED
        BY <4>1 DEF SeatsHoldUnlessOverbooked, Exceeded, UsedIn
    <3>2. RulingsStand'
      <4>1. PICK x \in Emails, decision \in {"APPROVED", "REJECTED"} :
                /\ access' = [access EXCEPT ![x].status = decision,
                                            ![x].session = @ /\ decision = "APPROVED"]
                /\ ruling' = [ruling EXCEPT ![x] = decision]
        BY <2>7 DEF reviewRequest
      <4>2. access'[x].status = decision /\ ruling'[x] = decision
        BY <1>t, <4>1 DEF Access
      <4>3. \A y \in Emails \ {x} : access'[y] = access[y] /\ ruling'[y] = ruling[y]
        BY <1>t, <4>1
      <4> QED
        BY <1>g, <2>7, <4>2, <4>3 DEF reviewRequest, RulingsStand
    <3> QED
      BY <2>7, <2>k, <2>i, <2>u, <3>1, <3>2 DEF BetaInv, reviewRequest, Serve, Begin
  <2>8. ASSUME verifyAndIssueSession(h) PROVE BetaInv'
    BY <2>8, <2>2, <2>b DEF verifyAndIssueSession, SeatFound, MayReopen
  <2>9. ASSUME NEW e, NEW b, access' = [access EXCEPT ![e].session = b], overbooked' = overbooked,
               seats' = seats, ruling' = ruling, frame'[h] = Idle
        PROVE  BetaInv'
    <3>1. \A x \in Emails : access[x].status = access'[x].status /\ access[x].type = access'[x].type
      BY <1>t, <2>9 DEF Access
    <3>2. access' \in [Emails -> Access]
      BY DEF TInv, TypeOK, BetaTypeOK
    <3>3. Exceeded(access', seats') = Exceeded(access, seats)
      <4>1. access \in [Emails -> Access]
        BY <1>t
      <4>2. \A limits : Exceeded(access, limits) = Exceeded(access', limits)
        BY <3>1, <3>2, <4>1, SameSeats
      <4>3. Exceeded(access, seats') = Exceeded(access', seats')
        BY <4>2
      <4>4. seats' = seats
        BY <2>9
      <4> QED
        BY <4>3, <4>4
    <3>4. SeatsHoldUnlessOverbooked'
      <4>1. Exceeded(access', seats') \subseteq overbooked'
        BY <1>g, <2>9, <3>3 DEF SeatsHoldUnlessOverbooked
      <4> QED
        BY <4>1 DEF SeatsHoldUnlessOverbooked, Exceeded, UsedIn
    <3>5. RulingsStand'
      BY <1>g, <2>9, <2>w, <3>1 DEF RulingsStand
    <3> QED
      BY <2>9, <2>k, <2>i, <3>4, <3>5 DEF BetaInv
  <2>10. ASSUME WriteSession(h) PROVE BetaInv'
    <3>1. frame'[h] = Idle
      BY <2>10, <2>b DEF WriteSession, Return
    <3> QED
      BY <2>9, <2>10, <3>1 DEF WriteSession
  <2>11. ASSUME clearSession(h) PROVE BetaInv'
    <3>1. frame'[h] = Idle
      BY <2>11, <2>u DEF clearSession, Serve, Begin
    <3> QED
      BY <2>9, <2>11, <3>1 DEF clearSession
  <2>12. ASSUME BetaRefused(h) PROVE BetaInv'
    BY <2>12, <2>2, <2>b, <2>i DEF BetaRefused, Return
  <2> QED
    BY <1>2, <2>1, <2>3, <2>4, <2>5, <2>6, <2>7, <2>8, <2>10, <2>11, <2>12 DEF BetaStep
<1>3. (\E h \in Handlers : BetaStep(h) /\ ServedAt(h, BetaSteps))
          \/ (Untouched(BetaSteps) /\ UNCHANGED betaVars)
  BY StepCases, ServedElsewhere, StepsDiffer
<1> QED
  BY <1>1, <1>2, <1>3
-----------------------------------------------------------------------------
(* Accounts.                                                               *)

\* The requests that have read the attempts of a code and will count one more.
Guessing(i) == {k \in Handlers : frame[k].at = "code.count" /\ frame[k].code = i}
GuessesBounded ==
    \A i \in 1..issued :
        codes[i].attempts + Cardinality(Guessing(i)) < MaxAttempts + Cardinality(Handlers)

\* No request changes the role of a user that exists.
RoleStays(f) == f.at = "user.save" => f.next.role = f.copy.role

AccountInv ==
    /\ GuessesBounded
    /\ UsersAreAsLastAsked
    /\ \A h \in Handlers : RoleStays(frame[h])

\* The requests that guess are not more than those being served.
LEMMA GuessersCounted ==
    \A S \in SUBSET Handlers :
        /\ IsFiniteSet(S) /\ Cardinality(S) \in Nat
        /\ Cardinality(Handlers) \in Nat
        /\ Cardinality(S) <= Cardinality(Handlers)
        /\ \A T \in SUBSET S : Cardinality(T) <= Cardinality(S)
        /\ \A h \in S : Cardinality(S \ {h}) = Cardinality(S) - 1
BY RequestsAssumption, FS_Subset, FS_CardinalityType, FS_RemoveElement

\* A row saved from a copy that is current is what was asked.
LEMMA SavedAsAsked ==
    ASSUME NEW f, f.copy \in User, f.next \in User, f.next.role = f.copy.role
    PROVE  Apply(f.copy, f) = f.next
<1> DEFINE c == f.copy
           n == f.next
<1>1. /\ c = [role |-> c.role, active |-> c.active, password |-> c.password, name |-> c.name]
      /\ n = [role |-> n.role, active |-> n.active, password |-> n.password, name |-> n.name]
  BY DEF User
<1> QED
  BY <1>1 DEF Apply, User

LEMMA AccountInvInit == Init => AccountInv
<1> SUFFICES ASSUME Init PROVE AccountInv
  OBVIOUS
<1>1. \A h \in Handlers : frame[h].at = "idle"
  BY DEF Init, RequestsInit, Idle
<1>2. \A i : Guessing(i) = {}
  BY <1>1 DEF Guessing
<1>3. \A i \in 1..issued : codes[i].attempts = 0
  BY DEF Init, AccountInit, NewCode
<1>4. Cardinality({}) = 0 /\ Cardinality(Handlers) \in Nat /\ MaxAttempts \in Nat \ {0}
  BY FS_EmptySet, GuessersCounted, AccountsAssumption
<1>5. GuessesBounded
  BY <1>2, <1>3, <1>4 DEF GuessesBounded
<1> QED
  BY <1>1, <1>5 DEF Init, AccountInit, AccountInv, UsersAreAsLastAsked, RoleStays

LEMMA AccountInvStep == TInv /\ TInv' /\ AccountInv /\ [Next]_vars => AccountInv'
<1> SUFFICES ASSUME TInv, TInv', AccountInv, [Next]_vars PROVE AccountInv'
  OBVIOUS
<1> USE DEF AllSteps
<1>t. /\ users \in [Emails -> User] /\ lastAsked \in [Emails -> User]
      /\ issued \in 0..MaxCodes /\ codes \in [1..issued -> Code]
      /\ issued' \in 0..MaxCodes /\ codes' \in [1..issued' -> Code]
      /\ \A h \in Handlers : frame[h] \in AllFrames
  BY DEF TInv, TypeOK, AccountTypeOK, AllFrames
<1>n. /\ \A i \in 1..issued : codes[i].attempts \in Nat
      /\ MaxAttempts \in Nat \ {0} /\ MaxCodes \in Nat
  BY <1>t, AccountsAssumption DEF Code
<1>g. /\ GuessesBounded /\ UsersAreAsLastAsked
      /\ \A h \in Handlers : RoleStays(frame[h])
  BY DEF AccountInv
\* Codes that are guessed by the same requests, or by fewer.
<1>q. ASSUME NEW i \in 1..issued, codes'[i].attempts = codes[i].attempts,
             \A k \in Handlers : frame'[k].at = "code.count" /\ frame'[k].code = i
                                     => frame[k] = frame'[k]
      PROVE  codes'[i].attempts + Cardinality(Guessing(i)')
                 < MaxAttempts + Cardinality(Handlers)
  <2>1. Guessing(i)' \in SUBSET Guessing(i) /\ Guessing(i) \in SUBSET Handlers
    BY <1>q DEF Guessing
  <2>2. Cardinality(Guessing(i)') <= Cardinality(Guessing(i))
    BY <2>1, GuessersCounted
  <2>3. /\ Cardinality(Guessing(i)') \in Nat /\ Cardinality(Guessing(i)) \in Nat
        /\ Cardinality(Handlers) \in Nat
    BY <2>1, GuessersCounted
  <2>4. codes[i].attempts + Cardinality(Guessing(i)) < MaxAttempts + Cardinality(Handlers)
    BY <1>g DEF GuessesBounded
  <2> QED
    BY <1>q, <1>n, <2>2, <2>3, <2>4
<1>p. ASSUME issued' = issued, \A i \in 1..issued : codes'[i].attempts = codes[i].attempts,
             \A k \in Handlers : frame'[k].at = "code.count" => frame'[k] = frame[k]
      PROVE  GuessesBounded'
  BY <1>p, <1>q DEF GuessesBounded
<1>1. ASSUME Untouched(AccountSteps), CodesAge \/ UNCHANGED accountVars
      PROVE  AccountInv'
  <2>1. \A k \in Handlers : /\ frame'[k].at = "code.count" => frame'[k] = frame[k]
                            /\ RoleStays(frame'[k])
    BY <1>1, <1>g DEF Untouched, AccountSteps, RoleStays
  <2>2. /\ issued' = issued /\ users' = users /\ lastAsked' = lastAsked
        /\ \A i \in 1..issued : codes'[i].attempts = codes[i].attempts
    BY <1>1, <1>t DEF CodesAge, accountVars, Code
  <2>3. GuessesBounded'
    BY <1>p, <2>1, <2>2
  <2>4. UsersAreAsLastAsked'
    BY <1>1, <1>g, <2>2 DEF Untouched, UsersAreAsLastAsked
  <2> QED
    BY <2>1, <2>3, <2>4 DEF AccountInv
<1>2. ASSUME NEW h \in Handlers, AccountStep(h), ServedAt(h, AccountSteps) PROVE AccountInv'
  <2>f. frame[h].at \in AccountSteps => frame[h] \in AccountFrames
    BY <1>t, FrameOfStep
  <2>b. \A f : Become(h, f) => frame'[h] = f
    BY DEF Become, TInv, TypeOK
  <2>i. Idle.at = "idle"
    BY DEF Idle
  <2>w. stale \subseteq stale' /\ \A k \in Handlers \ {h} : frame'[k] = frame[k]
    BY <1>2 DEF ServedAt
  \* A request that guesses no code and saves no other role.
  <2>c. ASSUME frame'[h].at # "code.count", RoleStays(frame'[h]), issued' = issued,
               \A i \in 1..issued : codes'[i].attempts = codes[i].attempts
        PROVE  GuessesBounded' /\ \A k \in Handlers : RoleStays(frame'[k])
    <3>1. GuessesBounded'
      BY <1>p, <2>w, <2>c
    <3> QED
      BY <1>g, <2>w, <2>c, <3>1
  <2>d. ASSUME frame'[h].at # "code.count", RoleStays(frame'[h]), issued' = issued,
               users' = users, lastAsked' = lastAsked,
               \A i \in 1..issued : codes'[i].attempts = codes[i].attempts
        PROVE  AccountInv'
    <3>1. UsersAreAsLastAsked'
      BY <1>g, <2>w, <2>d DEF UsersAreAsLastAsked
    <3> QED
      BY <2>c, <2>d, <3>1 DEF AccountInv
  <2>e. ASSUME frame'[h].at \notin {"code.count", "user.save"}, UNCHANGED accountVars
        PROVE  AccountInv'
    BY <2>d, <2>e DEF accountVars, RoleStays
  <2>1. ASSUME StartRegister(h) PROVE AccountInv'
    BY <2>1, <2>b, <2>e DEF StartRegister, Serving
  <2>2. ASSUME ForgotPassword(h) PROVE AccountInv'
    BY <2>2, <2>b, <2>e DEF ForgotPassword, Serving
  <2>3. ASSUME assertResendCooldown(h) PROVE AccountInv'
    <3>1. frame[h] \in AccountFrames
      BY <2>3, <2>f DEF assertResendCooldown, At, AccountSteps
    <3>2. frame'[h].at \in {"idle", "issue.delete"}
      BY <2>3, <2>b, <2>i, <3>1 DEF assertResendCooldown, Return, Goto, AccountFrames
    <3> QED
      BY <2>3, <2>e, <3>2 DEF assertResendCooldown
  <2>4. ASSUME DeleteCodes(h) PROVE AccountInv'
    <3>1. frame[h] \in AccountFrames
      BY <2>4, <2>f DEF DeleteCodes, At, AccountSteps
    <3>2. frame'[h].at = "issue.create"
      BY <2>4, <2>b, <3>1 DEF DeleteCodes, Goto, AccountFrames
    <3>3. \A i \in 1..issued : codes'[i].attempts = codes[i].attempts
      BY <2>4, <1>t DEF DeleteCodes, Code
    <3> QED
      BY <2>4, <2>d, <3>2, <3>3 DEF DeleteCodes, RoleStays
  <2>5. ASSUME CreateCode(h) PROVE AccountInv'
    <3>1. frame'[h].at = "idle"
      BY <2>5, <2>b, <2>i DEF CreateCode, Return
    <3>2. /\ issued' = issued + 1 /\ users' = users /\ lastAsked' = lastAsked
          /\ \A i \in 1..issued : codes'[i].attempts = codes[i].attempts
          /\ codes'[issued'].attempts = 0
      BY <2>5, <1>t, <1>n DEF CreateCode, NewCode
    <3>3. \A i \in 1..issued :
              codes'[i].attempts + Cardinality(Guessing(i)')
                  < MaxAttempts + Cardinality(Handlers)
      BY <1>q, <2>w, <3>1, <3>2
    <3>4. ASSUME NEW i, i = issued + 1
          PROVE  codes'[i].attempts + Cardinality(Guessing(i)')
                     < MaxAttempts + Cardinality(Handlers)
      <4>1. Guessing(i)' \in SUBSET Handlers
        BY DEF Guessing
      <4>2. /\ Cardinality(Guessing(i)') \in Nat /\ Cardinality(Handlers) \in Nat
            /\ Cardinality(Guessing(i)') <= Cardinality(Handlers)
        BY <4>1, GuessersCounted
      <4> QED
        BY <1>n, <3>2, <3>4, <4>2
    <3>5. 1..issued' = (1..issued) \cup {issued + 1}
      BY <1>t, <1>n, <3>2
    <3>6. GuessesBounded'
      BY <3>3, <3>4, <3>5 DEF GuessesBounded
    <3> QED
      BY <1>g, <2>w, <3>1, <3>2, <3>6 DEF AccountInv, UsersAreAsLastAsked, RoleStays
  <2>6. ASSUME consumeRegisterChallenge(h) PROVE AccountInv'
    <3>1. PICK i \in 1..issued, step \in {"code.count", "code.consume"} :
              /\ codes[i].attempts < MaxAttempts
              /\ Become(h, [Serving(step, codes[i].email) EXCEPT
                               !.code = i, !.role = codes[i].role])
      BY <2>6 DEF consumeRegisterChallenge
    <3>2. frame'[h].at = step /\ frame'[h].code = i
      BY <2>b, <3>1 DEF Serving
    <3>3. UNCHANGED accountVars
      BY <2>6 DEF consumeRegisterChallenge
    <3>4. \A j \in 1..issued : j # i =>
              codes'[j].attempts + Cardinality(Guessing(j)')
                  < MaxAttempts + Cardinality(Handlers)
      BY <1>q, <2>w, <3>2, <3>3 DEF accountVars
    <3>5. codes'[i].attempts + Cardinality(Guessing(i)')
              < MaxAttempts + Cardinality(Handlers)
      <4>1. Guessing(i)' \in SUBSET Handlers
        BY DEF Guessing
      <4>2. /\ Cardinality(Guessing(i)') \in Nat /\ Cardinality(Handlers) \in Nat
            /\ Cardinality(Guessing(i)') <= Cardinality(Handlers)
        BY <4>1, GuessersCounted
      <4>3. codes'[i].attempts = codes[i].attempts
        BY <3>3 DEF accountVars
      <4> QED
        BY <1>n, <3>1, <4>2, <4>3
    <3>6. GuessesBounded'
      BY <3>3, <3>4, <3>5 DEF GuessesBounded, accountVars
    <3> QED
      BY <1>g, <2>w, <3>2, <3>3, <3>6
      DEF AccountInv, UsersAreAsLastAsked, RoleStays, accountVars
  <2>7. ASSUME consumePasswordResetChallenge(h) PROVE AccountInv'
    BY <2>7, <2>b, <2>e DEF consumePasswordResetChallenge, Serving
  <2>8. ASSUME CountAttempt(h) PROVE AccountInv'
    <3> PICK i : i = frame[h].code
      OBVIOUS
    <3>1. frame[h] \in AccountFrames /\ frame[h].at = "code.count"
      BY <2>8, <2>f DEF CountAttempt, At, AccountSteps
    <3>2. frame'[h].at = "idle"
      BY <2>8, <2>b, <2>i DEF CountAttempt, Return
    <3>3. /\ issued' = issued /\ users' = users /\ lastAsked' = lastAsked
          /\ codes' = [codes EXCEPT ![i].attempts = @ + 1]
      BY <2>8 DEF CountAttempt
    <3>4. \A j \in 1..issued : codes'[j].attempts =
              IF j = i THEN codes[j].attempts + 1 ELSE codes[j].attempts
      BY <1>t, <3>3 DEF Code
    <3>5. \A j \in 1..issued : j # i =>
              codes'[j].attempts + Cardinality(Guessing(j)')
                  < MaxAttempts + Cardinality(Handlers)
      BY <1>q, <2>w, <3>2, <3>4
    <3>6. i \in 1..issued => codes'[i].attempts + Cardinality(Guessing(i)')
                                 < MaxAttempts + Cardinality(Handlers)
      <4>1. /\ Guessing(i) \in SUBSET Handlers /\ h \in Guessing(i)
            /\ Guessing(i)' = Guessing(i) \ {h}
        BY <2>w, <3>1, <3>2 DEF Guessing
      <4>2. Cardinality(Guessing(i)') = Cardinality(Guessing(i)) - 1
        BY <4>1, GuessersCounted
      <4>3. Cardinality(Guessing(i)) \in Nat /\ Cardinality(Handlers) \in Nat
        BY <4>1, GuessersCounted
      <4>4. i \in 1..issued =>
                codes[i].attempts + Cardinality(Guessing(i)) < MaxAttempts + Cardinality(Handlers)
        BY <1>g DEF GuessesBounded
      <4> QED
        BY <1>n, <3>4, <4>2, <4>3, <4>4
    <3>7. GuessesBounded'
      BY <3>3, <3>5, <3>6 DEF GuessesBounded
    <3> QED
      BY <1>g, <2>w, <3>2, <3>3, <3>7 DEF AccountInv, UsersAreAsLastAsked, RoleStays
  <2>9. ASSUME ConsumeCode(h) PROVE AccountInv'
    <3>1. frame[h] \in AccountFrames
      BY <2>9, <2>f DEF ConsumeCode, At, AccountSteps
    <3>2. frame'[h].at \in {"user.create", "reset.find"}
      BY <2>9, <2>b, <3>1 DEF ConsumeCode, Goto, AccountFrames
    <3>3. \A i \in 1..issued : codes'[i].attempts = codes[i].attempts
      BY <2>9, <1>t DEF ConsumeCode, Code
    <3> QED
      BY <2>9, <2>d, <3>2, <3>3 DEF ConsumeCode, RoleStays
  <2>10. ASSUME RegisterUser(h) PROVE AccountInv'
    BY <2>10, <2>b, <2>e DEF RegisterUser, Serving
  <2>11. ASSUME CreateAdminUser(h) PROVE AccountInv'
    BY <2>11, <2>b, <2>e DEF CreateAdminUser, Serving
  <2>12. ASSUME CreateUser(h) PROVE AccountInv'
    <3>1. frame'[h].at = "idle" /\ codes' = codes /\ issued' = issued
      BY <2>12, <2>b, <2>i DEF CreateUser, Return
    <3>2. UsersAreAsLastAsked'
      BY <2>12, <1>g, <1>t DEF CreateUser, UsersAreAsLastAsked
    <3> QED
      BY <2>c, <3>1, <3>2 DEF AccountInv, RoleStays
  <2>13. ASSUME NEW email \in Emails, NEW next, next.role = users[email].role,
                Holding(h, email, next), UNCHANGED accountVars
         PROVE  AccountInv'
    <3>1. /\ frame'[h].at = "user.save" /\ frame'[h].copy = users[email]
          /\ frame'[h].next = next
      BY <2>13, <2>b DEF Holding, Serving
    <3> QED
      BY <2>13, <2>d, <3>1 DEF accountVars, RoleStays
  <2>14. ASSUME ResetPassword(h) PROVE AccountInv'
    <3>1. frame[h] \in AccountFrames
      BY <2>14, <2>f DEF ResetPassword, At, AccountSteps
    <3>2. PICK version \in Version :
              Holding(h, frame[h].email, [users[frame[h].email] EXCEPT !.password = version])
      BY <2>14 DEF ResetPassword
    <3>3. frame[h].email \in Emails /\ UNCHANGED accountVars
      BY <2>14, <3>1 DEF ResetPassword, AccountFrames
    <3>4. [users[frame[h].email] EXCEPT !.password = version].role = users[frame[h].email].role
      BY <1>t, <3>3 DEF User
    <3> QED
      BY <2>13, <3>2, <3>3, <3>4
  <2>15. ASSUME UpdateCurrentUser(h) PROVE AccountInv'
    <3>1. PICK email \in Emails, version \in Version :
              Holding(h, email, [users[email] EXCEPT !.name = version])
      BY <2>15 DEF UpdateCurrentUser
    <3>2. [users[email] EXCEPT !.name = version].role = users[email].role
      BY <1>t DEF User
    <3>3. UNCHANGED accountVars
      BY <2>15 DEF UpdateCurrentUser
    <3> QED
      BY <2>13, <3>1, <3>2, <3>3
  <2>16. ASSUME PatchAdminUser(h) PROVE AccountInv'
    <3>1. PICK email \in Emails, active \in BOOLEAN :
              Holding(h, email, [users[email] EXCEPT !.active = active])
      BY <2>16 DEF PatchAdminUser
    <3>2. [users[email] EXCEPT !.active = active].role = users[email].role
      BY <1>t DEF User
    <3>3. UNCHANGED accountVars
      BY <2>16 DEF PatchAdminUser
    <3> QED
      BY <2>13, <3>1, <3>2, <3>3
  <2>17. ASSUME SaveUser(h) PROVE AccountInv'
    <3> DEFINE e == frame[h].email
    <3>1. /\ frame[h] \in AccountFrames /\ frame[h].at = "user.save"
          /\ frame[h].next.role = frame[h].copy.role
      BY <2>17, <2>f, <1>g DEF SaveUser, At, AccountSteps, RoleStays
    <3>2. frame'[h].at = "idle" /\ codes' = codes /\ issued' = issued
      BY <2>17, <2>b, <2>i DEF SaveUser, Return
    <3>3. UsersAreAsLastAsked'
      <4> SUFFICES ASSUME "users" \notin stale' PROVE users' = lastAsked'
        BY DEF UsersAreAsLastAsked
      <4>1. /\ users[e] = frame[h].copy /\ "users" \notin stale
            /\ users' = [users EXCEPT ![e] = frame[h].next]
            /\ lastAsked' = [lastAsked EXCEPT ![e] = Apply(@, frame[h])]
        BY <2>17 DEF SaveUser, Mark
      <4>2. users = lastAsked /\ e \in Emails
        BY <1>g, <3>1, <4>1 DEF UsersAreAsLastAsked, AccountFrames
      <4>3. Apply(frame[h].copy, frame[h]) = frame[h].next
        BY <3>1, SavedAsAsked DEF AccountFrames
      <4> QED
        BY <1>t, <4>1, <4>2, <4>3
    <3> QED
      BY <2>c, <3>2, <3>3 DEF AccountInv, RoleStays
  <2>18. ASSUME AccountRefused(h) PROVE AccountInv'
    BY <2>18, <2>b, <2>e, <2>i DEF AccountRefused, Return
  <2> QED
    BY <1>2, <2>1, <2>2, <2>3, <2>4, <2>5, <2>6, <2>7, <2>8, <2>9, <2>10, <2>11, <2>12, <2>14,
       <2>15, <2>16, <2>17, <2>18
    DEF AccountStep
<1>3. ASSUME NEW s \in AllSteps, s # AccountSteps, NEW h, ServedAt(h, s), UNCHANGED accountVars
      PROVE  AccountInv'
  <2>1. Untouched(AccountSteps)
    BY <1>3, ServedElsewhere
  <2> QED
    BY <1>1, <1>3, <2>1
<1> QED
  BY <1>1, <1>2, <1>3, StepCases, StepsDiffer

\* Wrong guesses are as many as were counted.
LEMMA GuessesAreAttempts == TInv /\ AccountInv => AttemptsBounded
<1> SUFFICES ASSUME TInv, AccountInv, NEW i \in 1..issued
             PROVE  codes[i].attempts < MaxAttempts + Cardinality(Handlers)
  BY DEF AttemptsBounded
<1>1. codes[i].attempts \in Nat /\ MaxAttempts \in Nat
  BY AccountsAssumption DEF TInv, TypeOK, AccountTypeOK, Code
<1>2. Guessing(i) \in SUBSET Handlers
  BY DEF Guessing
<1>3. Cardinality(Guessing(i)) \in Nat /\ Cardinality(Handlers) \in Nat
  BY <1>2, GuessersCounted
<1>4. codes[i].attempts + Cardinality(Guessing(i)) < MaxAttempts + Cardinality(Handlers)
  BY DEF AccountInv, GuessesBounded
<1> QED
  BY <1>1, <1>3, <1>4
-----------------------------------------------------------------------------
(* The plan.                                                               *)

Syncing(h) == frame[h].at = "rollout.sync"

\* Where the plan is not what was asked of it, a request is about to change it.
PlanInv ==
    "plan" \notin stale =>
        /\ plan.features = asked.features
        /\ faults = 0 /\ plan.isPublic # asked.isPublic => \E h \in Handlers : Syncing(h)
        /\ faults = 0 /\ plan.isActive # asked.isActive =>
               \E h \in Handlers : Syncing(h) /\ frame[h].phase = "PRODUCTION"

LEMMA PlanInvInit == Init => PlanInv
BY DEF Init, RolloutInit, PlanInv

LEMMA PlanInvStep == TInv /\ TInv' /\ PlanInv /\ [Next]_vars => PlanInv'
<1> SUFFICES ASSUME TInv, TInv', PlanInv, [Next]_vars, "plan" \notin stale' PROVE PlanInv'
  BY DEF PlanInv
<1> USE DEF AllSteps
<1>t. /\ plan \in PlanRow /\ asked \in PlanRow /\ phase \in Phase
      /\ plan' \in PlanRow /\ asked' \in PlanRow
      /\ \A h \in Handlers : frame[h] \in AllFrames
  BY DEF TInv, TypeOK, RolloutTypeOK, AllFrames
<1>1. ASSUME Untouched(RolloutSteps), UNCHANGED rolloutVars PROVE PlanInv'
  <2>1. "plan" \notin stale /\ (faults' = 0 => faults = 0)
    BY <1>1 DEF Untouched
  <2>2. faults' = 0 => \A h \in Handlers : Syncing(h) => frame'[h] = frame[h]
    BY <1>1 DEF Untouched, Syncing, RolloutSteps
  <2> QED
    BY <1>1, <2>1, <2>2 DEF PlanInv, rolloutVars, Syncing
<1>2. ASSUME NEW h \in Handlers, RolloutStep(h), ServedAt(h, RolloutSteps) PROVE PlanInv'
  <2>f. frame[h].at \in RolloutSteps => frame[h] \in RolloutFrames
    BY <1>t, FrameOfStep
  <2>b. \A f : Become(h, f) => frame'[h] = f
    BY DEF Become, TInv, TypeOK
  <2>w. /\ "plan" \notin stale /\ faults' = faults
        /\ \A k \in Handlers \ {h} : frame'[k] = frame[k]
    BY <1>2 DEF ServedAt
  <2>g. /\ plan.features = asked.features
        /\ faults = 0 /\ plan.isPublic # asked.isPublic => \E k \in Handlers : Syncing(k)
        /\ faults = 0 /\ plan.isActive # asked.isActive =>
               \E k \in Handlers : Syncing(k) /\ frame[k].phase = "PRODUCTION"
    BY <2>w DEF PlanInv
  \* The plan is what was asked, and who is about to change it still is.
  <2>a. ASSUME plan'.features = asked'.features,
               plan'.isPublic # asked'.isPublic => plan.isPublic # asked.isPublic,
               plan'.isActive # asked'.isActive => plan.isActive # asked.isActive,
               ~Syncing(h)
        PROVE  PlanInv'
    <3>1. \A k \in Handlers : Syncing(k) => frame'[k] = frame[k]
      BY <2>a, <2>w
    <3> QED
      BY <2>a, <2>g, <2>w, <3>1 DEF PlanInv, Syncing
  <2>1. ASSUME updateConfig(h) PROVE PlanInv'
    <3>1. PICK p \in Phase : asked' = Follows(asked, p)
                             /\ Become(h, [Rolling("rollout.sync") EXCEPT !.phase = p])
      BY <2>1 DEF updateConfig
    <3>2. frame'[h].at = "rollout.sync" /\ frame'[h].phase = p /\ plan' = plan /\ ~Syncing(h)
      BY <2>1, <2>b, <3>1 DEF updateConfig, Rolling, Syncing, Begin, At
    <3>3. asked'.features = asked.features
      BY <1>t, <3>1 DEF Follows, PlanRow
    <3>4. CASE p = "PRODUCTION"
      BY <2>g, <3>2, <3>3, <3>4 DEF PlanInv, Syncing
    <3>5. CASE p # "PRODUCTION"
      <4>1. asked'.isActive = asked.isActive
        BY <1>t, <3>1, <3>5 DEF Follows, PlanRow
      <4>2. \A k \in Handlers : Syncing(k) => frame'[k] = frame[k]
        BY <2>w, <3>2
      <4> QED
        BY <2>g, <2>w, <3>2, <3>3, <4>1, <4>2 DEF PlanInv, Syncing
    <3> QED
      BY <3>4, <3>5
  <2>2. ASSUME syncManagementPlanVisibility(h) PROVE PlanInv'
    <3> DEFINE p == frame[h].phase
    <3>1. /\ phase = p /\ asked = Follows(asked, p)
          /\ plan' = Follows(plan, p) /\ asked' = asked
      BY <2>2, <2>w DEF syncManagementPlanVisibility, Mark
    <3>2. /\ plan'.features = asked'.features
          /\ plan'.isPublic = asked'.isPublic
      BY <1>t, <2>g, <3>1 DEF Follows, PlanRow
    <3>3. CASE p = "PRODUCTION"
      <4>1. plan'.isActive = asked'.isActive
        BY <1>t, <3>1, <3>3 DEF Follows, PlanRow
      <4> QED
        BY <3>2, <4>1 DEF PlanInv
    <3>4. CASE p # "PRODUCTION"
      <4>1. plan'.isActive = plan.isActive
        BY <1>t, <3>1, <3>4 DEF Follows, PlanRow
      <4>2. \A k \in Handlers : Syncing(k) /\ frame[k].phase = "PRODUCTION" => frame'[k] = frame[k]
        BY <2>w, <3>4
      <4> QED
        BY <2>g, <2>w, <3>1, <3>2, <4>1, <4>2 DEF PlanInv, Syncing
    <3> QED
      BY <3>3, <3>4
  <2>3. ASSUME UNCHANGED <<plan, asked>>, ~Syncing(h) PROVE PlanInv'
    BY <2>3, <2>a, <2>g
  <2>4. ASSUME joinWaitlist(h) \/ reviewEntry(h) \/ ReadPlan(h) PROVE PlanInv'
    BY <2>3, <2>4 DEF joinWaitlist, reviewEntry, ReadPlan, rolloutVars, Begin, At, Syncing
  <2>5. ASSUME FindEntry(h) \/ CreateEntry(h) \/ WriteReview(h) \/ PlanRefused(h) PROVE PlanInv'
    BY <2>3, <2>5 DEF FindEntry, CreateEntry, WriteReview, PlanRefused, rolloutVars, At, Syncing
  <2>6. ASSUME WritePlan(h) PROVE PlanInv'
    <3>1. PICK public \in BOOLEAN, active \in BOOLEAN :
              LET now == [isPublic |-> public, isActive |-> active, features |-> frame[h].want]
              IN  /\ plan' = [now EXCEPT !.features =
                         (plan.features \cap frame[h].want) \cup (frame[h].want \ frame[h].read)]
                  /\ asked' = now
      BY <2>6 DEF WritePlan
    <3>2. plan.features = frame[h].read /\ ~Syncing(h)
      BY <2>6, <2>w DEF WritePlan, Mark, At, Syncing
    <3>3. plan'.features = asked'.features
      BY <3>1, <3>2
    <3>4. plan'.isPublic = asked'.isPublic /\ plan'.isActive = asked'.isActive
      BY <3>1
    <3> QED
      BY <2>a, <3>2, <3>3, <3>4
  <2>7. ASSUME PatchPlan(h) PROVE PlanInv'
    <3>1. PICK public \in BOOLEAN, active \in BOOLEAN :
              /\ plan' = [plan EXCEPT !.isPublic = public, !.isActive = active]
              /\ asked' = [asked EXCEPT !.isPublic = public, !.isActive = active]
      BY <2>7 DEF PatchPlan
    <3>2. /\ plan'.features = asked'.features /\ plan'.isPublic = asked'.isPublic
          /\ plan'.isActive = asked'.isActive
      BY <1>t, <2>g, <3>1 DEF PlanRow
    <3>3. ~Syncing(h)
      BY <2>7 DEF PatchPlan, Serve, Begin, At, Syncing
    <3> QED
      BY <2>a, <3>2, <3>3
  <2> QED
    BY <1>2, <2>1, <2>2, <2>4, <2>5, <2>6, <2>7 DEF RolloutStep
<1>3. ASSUME NEW s \in AllSteps, s # RolloutSteps, NEW h, ServedAt(h, s), UNCHANGED rolloutVars
      PROVE  PlanInv'
  <2>1. Untouched(RolloutSteps)
    BY <1>3, ServedElsewhere
  <2> QED
    BY <1>1, <1>3, <2>1
<1> QED
  BY <1>1, <1>2, <1>3, StepCases, StepsDiffer

LEMMA PlanAsAsked == TInv /\ PlanInv => PlanIsAsLastAsked
<1> SUFFICES ASSUME TInv, PlanInv, "plan" \notin stale, faults = 0,
                    \A h \in Handlers : ~At(h, "rollout.sync")
             PROVE  plan = asked
  BY DEF PlanIsAsLastAsked
<1>1. plan \in PlanRow /\ asked \in PlanRow
  BY DEF TInv, TypeOK, RolloutTypeOK
<1>2. /\ plan.features = asked.features /\ plan.isPublic = asked.isPublic
      /\ plan.isActive = asked.isActive
  BY DEF PlanInv, Syncing, At
<1> QED
  BY <1>1, <1>2 DEF PlanRow
-----------------------------------------------------------------------------
(* Reviews.                                                                *)

LEMMA ReviewsInit == Init => ReviewsAreAsLastAsked
BY DEF Init, MarketInit, ReviewsAreAsLastAsked, NoReview

LEMMA ReviewsStep == TInv /\ TInv' /\ ReviewsAreAsLastAsked /\ [Next]_vars => ReviewsAreAsLastAsked'
<1> SUFFICES ASSUME TInv, TInv', ReviewsAreAsLastAsked, [Next]_vars, "reviews" \notin stale'
             PROVE  ReviewsAreAsLastAsked'
  BY DEF ReviewsAreAsLastAsked
<1>t. /\ reviews \in [Authors \X Schools -> ReviewRow]
      /\ reviewAsked \in [Authors \X Schools -> {0} \cup Stars]
      /\ \A h \in Handlers : frame[h] \in AllFrames
  BY DEF TInv, TypeOK, MarketTypeOK, AllFrames, ReviewRow
<1>1. ASSUME stale \subseteq stale', UNCHANGED <<reviews, reviewAsked>>
      PROVE  ReviewsAreAsLastAsked'
  BY <1>1 DEF ReviewsAreAsLastAsked
<1>2. ASSUME NEW h \in Handlers, MarketStep(h), ServedAt(h, MarketSteps)
      PROVE  ReviewsAreAsLastAsked'
  <2>w. stale \subseteq stale' /\ \A x \in DOMAIN reviews : reviews[x].stars = reviewAsked[x]
    BY <1>2 DEF ServedAt, ReviewsAreAsLastAsked
  <2>f. frame[h].at \in MarketSteps => frame[h] \in MarketFrames
    BY <1>t, FrameOfStep
  <2>1. CASE SaveReview(h)
    <3> DEFINE x == <<frame[h].author, frame[h].school>>
    <3>1. x \in Authors \X Schools
      BY <2>1, <2>f DEF SaveReview, At, MarketSteps, MarketFrames
    <3>2. reviews[x] = frame[h].seen
      BY <2>1 DEF SaveReview, Mark
    <3>3. reviewAsked' = [reviewAsked EXCEPT ![x] = frame[h].stars]
      BY <2>1, <3>2 DEF SaveReview
    <3>4. PICK n : reviews' = [reviews EXCEPT ![x] = [id |-> n, stars |-> frame[h].stars]]
      BY <2>1 DEF SaveReview
    <3> QED
      BY <1>t, <2>w, <3>1, <3>3, <3>4 DEF ReviewsAreAsLastAsked
  <2>2. CASE DeleteReview(h)
    <3> DEFINE x == <<frame[h].author, frame[h].school>>
    <3>1. x \in Authors \X Schools
      BY <2>2, <2>f DEF DeleteReview, At, MarketSteps, MarketFrames
    <3>2. /\ reviewAsked' = [reviewAsked EXCEPT ![x] = 0]
          /\ reviews' = [reviews EXCEPT ![x] = NoReview]
      BY <2>2 DEF DeleteReview
    <3> QED
      BY <1>t, <2>w, <3>1, <3>2 DEF ReviewsAreAsLastAsked, NoReview
  <2>3. CASE ~SaveReview(h) /\ ~DeleteReview(h)
    <3>1. UNCHANGED <<reviews, reviewAsked>>
      BY <1>2, <2>3
      DEF MarketStep, marketVars, MarketChanges, AddFavourite, CheckListing, SaveFavourite,
          RemoveFavourite, BeginReview, FindReview, FindOwnReview, ReviewRefused
    <3> QED
      BY <1>1, <2>w, <3>1
  <2> QED
    BY <2>1, <2>2, <2>3
<1>3. (\E h \in Handlers : MarketStep(h) /\ ServedAt(h, MarketSteps))
          \/ (stale \subseteq stale' /\ UNCHANGED <<reviews, reviewAsked>>)
  BY StepCases DEF ServedAt, Untouched, AllSteps, marketVars
<1> QED
  BY <1>1, <1>2, <1>3
-----------------------------------------------------------------------------
(* The conversation.                                                       *)

\* The phase a row may have with these needs and results.
PhaseFits(p, needs, results) ==
    /\ p = "results" => results # {}
    /\ p = "collecting" => results = {}
    /\ p = "processing" /\ ~llmEnabled => isNeedsReady(needs)

\* What a turn or a patch is about to save.
TurnFits(f) ==
    f.at \in {"turn.save", "patch.save"} => PhaseFits(f.phase, f.needs, f.row.results)

ConversationInv ==
    /\ session.there /\ "session" \notin stale =>
        /\ session.needs = needsAsked
        /\ PhaseFits(session.phase, session.needs, session.results)
    /\ \A h \in Handlers : TurnFits(frame[h])

LEMMA ConversationAsAsked == ConversationInv => ConversationIsAsLastAsked
BY DEF ConversationInv, PhaseFits, ConversationIsAsLastAsked

\* An adjustment of needs that are ready leaves them ready.
LEMMA StillReady ==
    ASSUME NEW n \in Needs, NEW soft, isNeedsReady(n)
    PROVE  isNeedsReady(SoftAdjust(n, soft))
<1>1. n.precoMax \in Nat
  BY DEF isNeedsReady, Needs
<1>2. Percent(n.precoMax, 85) # None
  BY <1>1, ShareTypes DEF None
<1>3. CASE soft = "cheaper" /\ n.precoMax # None
  BY <1>2, <1>3 DEF SoftAdjust, isNeedsReady, Needs
<1>4. CASE ~(soft = "cheaper" /\ n.precoMax # None)
  BY <1>4 DEF SoftAdjust, isNeedsReady, Needs
<1> QED
  BY <1>3, <1>4

\* The parser has a search made for needs that are ready only.
LEMMA ParserSearchesReady ==
    ASSUME NEW m, NEW n, parseConciergeTurnDeterministic(m, n).search
    PROVE  isNeedsReady(mergeNeeds(n, parseConciergeTurnDeterministic(m, n).patch))
BY DEF parseConciergeTurnDeterministic, Reading

LEMMA ConversationInvInit == Init => ConversationInv
<1> SUFFICES ASSUME Init PROVE ConversationInv
  OBVIOUS
<1>1. \A h \in Handlers : TurnFits(frame[h])
  BY DEF Init, RequestsInit, Idle, TurnFits
<1>2. session.there => \E n \in FirstNeeds : session.needs = n /\ session.phase = "processing"
  BY DEF Init, ConciergeInit, NewSession
<1>3. session.there => PhaseFits(session.phase, session.needs, session.results)
  BY <1>2, FirstNeedsAssumption DEF PhaseFits
<1> QED
  BY <1>1, <1>3 DEF Init, ConciergeInit, ConversationInv

LEMMA ConversationInvStep == TInv /\ TInv' /\ ConversationInv /\ [Next]_vars => ConversationInv'
<1> SUFFICES ASSUME TInv, TInv', ConversationInv, [Next]_vars PROVE ConversationInv'
  OBVIOUS
<1> USE DEF AllSteps
<1>t. /\ session \in Session /\ session.needs \in Needs
      /\ \A h \in Handlers : frame[h] \in AllFrames
  BY DEF TInv, TypeOK, ConciergeTypeOK, AllFrames, Session
<1> DEFINE Kempt == session.there /\ "session" \notin stale =>
                        /\ session.needs = needsAsked
                        /\ PhaseFits(session.phase, session.needs, session.results)
<1>g. Kempt /\ \A h \in Handlers : TurnFits(frame[h])
  BY DEF ConversationInv
<1> HIDE DEF Kempt
<1>r. ASSUME llmEnabled' = llmEnabled, Kempt', \A h \in Handlers : TurnFits(frame'[h])
      PROVE  ConversationInv'
  BY <1>r DEF ConversationInv, TurnFits, PhaseFits, Kempt
<1>1. ASSUME Untouched(ConciergeSteps), UNCHANGED conciergeVars PROVE ConversationInv'
  <2>1. \A h \in Handlers : TurnFits(frame'[h])
    BY <1>1, <1>g DEF Untouched, ConciergeSteps, TurnFits
  <2>2. Kempt'
    BY <1>1, <1>g DEF Untouched, conciergeVars, Kempt, PhaseFits
  <2> QED
    BY <1>1, <1>r, <2>1, <2>2 DEF conciergeVars
<1>2. ASSUME NEW h \in Handlers, ConciergeStep(h), ServedAt(h, ConciergeSteps)
      PROVE  ConversationInv'
  <2>f. frame[h].at \in ConciergeSteps => frame[h] \in ConciergeFrames
    BY <1>t, FrameOfStep
  <2>b. \A f : Become(h, f) => frame'[h] = f
    BY DEF Become, TInv, TypeOK
  <2>w. stale \subseteq stale' /\ \A k \in Handlers \ {h} : frame'[k] = frame[k]
    BY <1>2 DEF ServedAt
  <2>k. TurnFits(frame'[h]) => \A k \in Handlers : TurnFits(frame'[k])
    BY <1>g, <2>w
  <2>i. TurnFits(Idle)
    BY DEF TurnFits, Idle
  <2>u. At(h, "idle") /\ frame' = frame => TurnFits(frame'[h])
    BY <1>g
  <2>e. ASSUME UNCHANGED <<session, needsAsked, llmEnabled>>, TurnFits(frame'[h])
        PROVE  ConversationInv'
    <3>1. Kempt'
      BY <1>g, <2>w, <2>e DEF Kempt, PhaseFits
    <3> QED
      BY <1>r, <2>e, <2>k, <3>1
  <2>1. ASSUME CreateSession(h) PROVE ConversationInv'
    <3>1. Kempt'
      BY <2>1 DEF CreateSession, NewSession, Kempt, PhaseFits
    <3> QED
      BY <1>r, <2>1, <2>k, <2>u, <3>1 DEF CreateSession, Serve, Begin
  <2>2. ASSUME ProcessTurn(h) PROVE ConversationInv'
    <3> DEFINE hasResults == session.results # {}
    <3>1. PICK m \in Messages :
              \/ hasResults /\ AnswerFromResults(h)
              \/ UNCHANGED frame
              \/ \E llm \in interpretTurn(m, session.needs, hasResults) : TakeUp(h, llm)
      BY <2>2 DEF ProcessTurn
    <3>2. CASE hasResults /\ AnswerFromResults(h)
      <4>1. /\ frame'[h].phase = "results" /\ frame'[h].row = session
        BY <2>b, <3>2 DEF AnswerFromResults, Talking
      <4> QED
        BY <2>2, <2>e, <3>2, <4>1 DEF ProcessTurn, conciergeVars, TurnFits, PhaseFits
    <3>3. CASE UNCHANGED frame
      BY <2>2, <2>e, <2>u, <3>3 DEF ProcessTurn, conciergeVars, Begin
    <3>4. ASSUME NEW llm \in interpretTurn(m, session.needs, hasResults), TakeUp(h, llm)
          PROVE  ConversationInv'
      <4> DEFINE merged == mergeNeeds(session.needs, llm.patch)
                 needs == SoftAdjust(merged, llm.soft)
                 search == llm.search \/ (isNeedsReady(needs) /\ ~isNeedsReady(session.needs))
      <4>1. /\ frame'[h].phase = IF search THEN "processing"
                                 ELSE IF session.results # {} THEN "results" ELSE "collecting"
            /\ frame'[h].needs = needs /\ frame'[h].row = session
        BY <2>b, <3>4 DEF TakeUp, Talking
      <4>2. merged \in Needs
        BY <1>t, <3>4, ReadingsHavePatches, MergeTypes
      <4>3. ~llmEnabled => llm = parseConciergeTurnDeterministic(m, session.needs)
        BY <3>4 DEF interpretTurn
      <4>4. ~llmEnabled /\ llm.search => isNeedsReady(merged)
        BY <4>3, ParserSearchesReady
      <4>5. ~llmEnabled /\ search => isNeedsReady(needs)
        BY <4>2, <4>4, StillReady
      <4> HIDE DEF needs, search
      <4>6. TurnFits(frame'[h])
        BY <4>1, <4>5 DEF TurnFits, PhaseFits
      <4> QED
        BY <2>2, <2>e, <4>6 DEF ProcessTurn, conciergeVars
    <3> QED
      BY <3>1, <3>2, <3>3, <3>4
  <2>3. ASSUME NEW n, NEW p, PhaseFits(p, n, frame[h].row.results), TurnFits(frame'[h]),
               session' = [session EXCEPT !.needs = n, !.phase = p], needsAsked' = n,
               llmEnabled' = llmEnabled, Mark("session", session = frame[h].row)
        PROVE  ConversationInv'
    <3>1. /\ session'.needs = n /\ session'.phase = p /\ session'.results = session.results
      BY <1>t, <2>3 DEF Session
    <3>2. "session" \notin stale' => session = frame[h].row
      BY <2>3 DEF Mark
    <3>3. Kempt'
      BY <2>3, <3>1, <3>2 DEF Kempt, PhaseFits
    <3> QED
      BY <1>r, <2>3, <2>k, <3>3
  <2>4. ASSUME SaveTurn(h) PROVE ConversationInv'
    <3>1. PhaseFits(frame[h].phase, frame[h].needs, frame[h].row.results)
      BY <2>4, <1>g DEF SaveTurn, At, TurnFits
    <3> QED
      BY <2>3, <2>4, <2>b, <2>i, <3>1 DEF SaveTurn, Return
  <2>5. ASSUME PatchNeeds(h) PROVE ConversationInv'
    <3>1. PICK patch \in Patches, search \in BOOLEAN :
              LET needs == mergeNeeds(session.needs, patch) IN
              Become(h, [Talking("patch.save") EXCEPT
                  !.needs = needs, !.search = search,
                  !.phase = IF isNeedsReady(needs) THEN "processing" ELSE "adjusting"])
      BY <2>5 DEF PatchNeeds
    <3> DEFINE needs == mergeNeeds(session.needs, patch)
    <3>2. /\ frame'[h].phase = IF isNeedsReady(needs) THEN "processing" ELSE "adjusting"
          /\ frame'[h].needs = needs
      BY <2>b, <3>1 DEF Talking
    <3>3. TurnFits(frame'[h])
      BY <3>2 DEF TurnFits, PhaseFits
    <3> QED
      BY <2>5, <2>e, <3>3 DEF PatchNeeds, conciergeVars
  <2>6. ASSUME SavePatch(h) PROVE ConversationInv'
    <3>1. /\ PhaseFits(frame[h].phase, frame[h].needs, frame[h].row.results)
          /\ frame[h] \in ConciergeFrames
      BY <2>6, <2>f, <1>g DEF SavePatch, At, TurnFits, ConciergeSteps
    <3>2. frame'[h].at \in {"search.read", "idle"}
      BY <2>6, <2>b, <3>1 DEF SavePatch, Goto, Return, ConciergeFrames, Idle
    <3>3. TurnFits(frame'[h])
      BY <3>2 DEF TurnFits
    <3> QED
      BY <2>3, <2>6, <3>1, <3>3 DEF SavePatch
  <2>7. ASSUME FindSession(h) PROVE ConversationInv'
    BY <2>7, <2>e, <2>b DEF FindSession, Talking, TurnFits, conciergeVars
  <2>8. ASSUME ~session'.there, llmEnabled' = llmEnabled, TurnFits(frame'[h])
        PROVE  ConversationInv'
    BY <1>r, <2>k, <2>8 DEF Kempt
  <2>9. ASSUME DeleteSession(h) PROVE ConversationInv'
    BY <1>t, <2>9, <2>8, <2>b, <2>i DEF DeleteSession, Return, Session
  <2>10. ASSUME DeleteAllSessions(h) PROVE ConversationInv'
    BY <1>t, <2>10, <2>8, <2>u DEF DeleteAllSessions, Serve, Begin, Session
  <2>11. ASSUME SearchSession(h) PROVE ConversationInv'
    BY <2>11, <2>e, <2>b DEF SearchSession, Talking, TurnFits, conciergeVars
  <2>12. ASSUME ReadForSearch(h) PROVE ConversationInv'
    BY <2>12, <2>e, <2>b DEF ReadForSearch, Talking, TurnFits, conciergeVars
  <2>13. ASSUME runSearch(h) PROVE ConversationInv'
    <3>1. frame[h] \in ConciergeFrames /\ frame[h].at = "search.find"
      BY <2>13, <2>f DEF runSearch, At, ConciergeSteps
    <3>2. \/ \E r, n : Become(h, [frame[h] EXCEPT !.relax = r, !.needs = n])
          \/ \E x : Become(h, [frame[h] EXCEPT !.at = "search.tell", !.found = x])
      BY <2>13 DEF runSearch
    <3>3. frame'[h].at \in {"search.find", "search.tell"}
      BY <2>b, <3>1, <3>2 DEF ConciergeFrames
    <3> QED
      BY <2>13, <2>e, <3>3 DEF runSearch, TurnFits, conciergeVars
  <2>14. ASSUME TellResults(h) PROVE ConversationInv'
    <3>1. frame[h] \in ConciergeFrames
      BY <2>14, <2>f DEF TellResults, At, ConciergeSteps
    <3>2. frame'[h].at = "search.save"
      BY <2>14, <2>b, <3>1 DEF TellResults, Goto, ConciergeFrames
    <3> QED
      BY <2>14, <2>e, <3>2 DEF TellResults, TurnFits
  <2>15. ASSUME SaveResults(h) PROVE ConversationInv'
    <3> DEFINE ids == DOMAIN frame[h].found.offers
               p == IF ids = {} THEN "adjusting" ELSE "results"
    <3>1. session' = [session EXCEPT !.needs = frame[h].row.needs, !.results = ids, !.phase = p]
      BY <2>15 DEF SaveResults
    <3>2. /\ session'.needs = frame[h].row.needs /\ session'.results = ids
          /\ session'.phase = p /\ session'.there = session.there
      BY <1>t, <3>1 DEF Session
    <3>3. /\ needsAsked' = needsAsked /\ llmEnabled' = llmEnabled
          /\ "session" \notin stale' => session = frame[h].row /\ "session" \notin stale
      BY <2>15 DEF SaveResults, Mark
    <3> HIDE DEF ids
    <3>4. Kempt'
      BY <1>g, <3>2, <3>3 DEF Kempt, PhaseFits
    <3> QED
      BY <1>r, <2>15, <2>b, <2>i, <2>k, <3>3, <3>4 DEF SaveResults, Return
  <2>16. ASSUME SessionLost(h) PROVE ConversationInv'
    BY <2>16, <2>e, <2>b, <2>i DEF SessionLost, Return, conciergeVars
  <2> QED
    BY <1>2, <2>1, <2>2, <2>4, <2>5, <2>6, <2>7, <2>9, <2>10, <2>11, <2>12, <2>13, <2>14, <2>15,
       <2>16
    DEF ConciergeStep
<1>3. ASSUME NEW s \in AllSteps, s # ConciergeSteps, NEW h, ServedAt(h, s),
             UNCHANGED conciergeVars
      PROVE  ConversationInv'
  <2>1. Untouched(ConciergeSteps)
    BY <1>3, ServedElsewhere
  <2> QED
    BY <1>1, <1>3, <2>1
<1> QED
  BY <1>1, <1>2, <1>3, StepCases, StepsDiffer
-----------------------------------------------------------------------------
(* The results of a conversation.                                          *)

\* What was found fits what it was looked for with.
SearchFits(x) ==
    \A s \in DOMAIN x.offers :
        LET o == x.offers[s]
            n == x.needs
        IN  /\ n.provincia # "" => o.province = n.provincia
            /\ n.precoMax # None => tuitionFrom(o) \in 0..Percent(n.precoMax, 125)
            /\ ~x.relaxed => buildWhere(o, needsToMarketplaceFilters(n))

\* Needs that were relaxed keep the province, and a budget a quarter higher.
RelaxedSoFar(f) ==
    /\ f.needs.provincia = f.row.needs.provincia
    /\ f.relax = 0 => f.needs = f.row.needs
    /\ f.relax > 0 /\ f.row.needs.precoMax # None =>
           f.needs.precoMax = Percent(f.row.needs.precoMax, 125)

SearchInv(f) ==
    /\ f.at = "search.find" => RelaxedSoFar(f)
    /\ f.at \in {"search.tell", "search.save"} => SearchFits(f.found)

\* Somebody was told of results that are about to be saved.
AboutToSave == \E h \in Handlers : frame[h].at = "search.save" /\ frame[h].row.id = session.id

ResultsInv ==
    /\ session.results = DOMAIN sought.offers /\ SearchFits(sought)
    /\ session.there /\ "session" \notin stale /\ faults = 0 /\ session.results # {}
           /\ told # session.results =>
        AboutToSave
    /\ \A h \in Handlers : SearchInv(frame[h])

LEMMA ResultsFit == ResultsInv => ResultsFitNeeds
BY DEF ResultsInv, SearchFits, ResultsFitNeeds, AboutToSave, At

\* A set of numbers has a least one: the intervals below its elements are well-founded.
LEMMA MinIsLeast ==
    ASSUME NEW S \in SUBSET Nat, S # {}
    PROVE  Min(S) \in S /\ \A y \in S : Min(S) <= y
<1>1. PICK n \in S : TRUE
  OBVIOUS
<1> DEFINE T == {0..m : m \in {k \in S : k <= n}}
<1>2. IsFiniteSet(0..n)
  BY FS_Interval
<1>3. T \subseteq SUBSET (0..n) /\ T # {}
  <2>1. 0..n \in T
    OBVIOUS
  <2> QED
    BY <2>1
<1>4. IsWellFoundedOn(StrictSubsetOrdering(0..n), SUBSET (0..n))
  <2>1. FiniteSubsetsOf(0..n) = SUBSET (0..n)
    BY <1>2, FS_FiniteSubsetsOfFinite
  <2> QED
    BY <2>1, FS_StrictSubsetOrderingWellFounded
<1>5. PICK x \in T : \A y \in T : <<y, x>> \notin StrictSubsetOrdering(0..n)
  <2> HIDE DEF T
  <2> QED
    BY <1>3, <1>4, WFMin
<1>6. PICK m \in S : m <= n /\ x = 0..m
  BY <1>5
<1>7. ASSUME NEW k \in S PROVE m <= k
  <2>1. CASE k > n
    BY <1>6, <2>1
  <2>2. CASE k <= n
    <3>1. 0..k \in T
      BY <2>2
    <3>2. <<0..k, 0..m>> \notin StrictSubsetOrdering(0..n)
      BY <1>5, <1>6, <3>1
    <3>3. ~(0..k \subseteq 0..m /\ 0..k # 0..m)
      BY <1>6, <2>2, <3>2 DEF StrictSubsetOrdering
    <3>4. k < m => 0..k \subseteq 0..m /\ m \in 0..m /\ m \notin 0..k
      OBVIOUS
    <3> QED
      BY <3>3, <3>4
  <2> QED
    BY <2>1, <2>2
<1> QED
  BY <1>7 DEF Min

\* A school found with relaxed needs is in the province and within the raised budget.
LEMMA OfferFits ==
    ASSUME NEW n \in Needs, NEW m \in Needs, NEW o \in Offers,
           m.provincia = n.provincia,
           n.precoMax # None => m.precoMax \in {n.precoMax, Percent(n.precoMax, 125)},
           buildWhere(o, needsToMarketplaceFilters(m))
    PROVE  /\ n.provincia # "" => o.province = n.provincia
           /\ n.precoMax # None => tuitionFrom(o) \in 0..Percent(n.precoMax, 125)
<1>1. n.provincia # "" => o.province = n.provincia
  BY DEF buildWhere, needsToMarketplaceFilters
<1>2. ASSUME n.precoMax # None PROVE tuitionFrom(o) \in 0..Percent(n.precoMax, 125)
  <2>1. n.precoMax \in Nat /\ Percent(n.precoMax, 125) \in Nat
    BY <1>2, ShareTypes DEF Needs
  <2>2. n.precoMax <= Percent(n.precoMax, 125)
    BY <2>1 DEF Percent
  <2>3. m.precoMax \in Nat /\ m.precoMax <= Percent(n.precoMax, 125) /\ m.precoMax # None
    BY <1>2, <2>1, <2>2 DEF None
  <2>4. o.tuition \subseteq Nat
    BY OffersAssumption
  <2>5. CASE o.feesAreFree
    BY <2>1, <2>5 DEF tuitionFrom
  <2>6. CASE ~o.feesAreFree
    <3>1. PICK t \in o.tuition : t <= m.precoMax
      BY <2>3, <2>6 DEF buildWhere, needsToMarketplaceFilters
    <3>2. Min(o.tuition) \in Nat /\ Min(o.tuition) <= t
      BY <2>4, <3>1, MinIsLeast
    <3>3. tuitionFrom(o) = Min(o.tuition)
      BY <2>6, <3>1 DEF tuitionFrom
    <3> QED
      BY <2>1, <2>3, <2>4, <3>1, <3>2, <3>3
  <2> QED
    BY <2>5, <2>6
<1> QED
  BY <1>1, <1>2

\* What each relaxation leaves of the province and the budget.
LEMMA RelaxedFields ==
    ASSUME NEW n \in Needs
    PROVE  /\ Relaxed(n, 1).provincia = n.provincia
           /\ n.precoMax # None => Relaxed(n, 1).precoMax = Percent(n.precoMax, 125)
           /\ \A step \in {2, 3} : /\ Relaxed(n, step).provincia = n.provincia
                                   /\ Relaxed(n, step).precoMax = n.precoMax
<1> DEFINE price == IF n.precoMax = None THEN None ELSE Percent(n.precoMax, 125)
<1>1. Relaxed(n, 1) = [n EXCEPT !.transporte = "unknown", !.integral = FALSE,
                                !.tipoEnsino = "", !.precoMax = price]
  BY DEF Relaxed
<1>2. /\ Relaxed(n, 2) = [n EXCEPT !.municipio = ""]
      /\ Relaxed(n, 3) = [n EXCEPT !.classe = ""]
  BY DEF Relaxed
<1>3. n.precoMax # None => price = Percent(n.precoMax, 125)
  OBVIOUS
<1> HIDE DEF price
<1>4. Relaxed(n, 1).provincia = n.provincia /\ Relaxed(n, 1).precoMax = price
  BY <1>1 DEF Needs
<1>5. \A step \in {2, 3} : /\ Relaxed(n, step).provincia = n.provincia
                          /\ Relaxed(n, step).precoMax = n.precoMax
  BY <1>2 DEF Needs
<1> QED
  BY <1>3, <1>4, <1>5

\* One relaxation more.
LEMMA RelaxesFurther ==
    ASSUME NEW f \in ConciergeFrames, f.relax < 3, RelaxedSoFar(f),
           NEW step, step = NextRelaxation(f.relax, f.needs),
           NEW g, g = [f EXCEPT !.relax = step, !.needs = Relaxed(@, step)]
    PROVE  RelaxedSoFar(g)
<1>1. /\ f.needs \in Needs /\ f.row.needs \in Needs
      /\ g.relax = step /\ g.needs = Relaxed(f.needs, step) /\ g.row = f.row
  BY DEF ConciergeFrames, Session
<1>2. f.relax = 0 \/ f.relax = 1 \/ f.relax = 2
  <2>1. f.relax \in 0..3
    BY DEF ConciergeFrames
  <2> QED
    BY <2>1
<1>3. CASE f.relax = 0
  <2>1. step = 1
    BY <1>3 DEF NextRelaxation
  <2>2. /\ g.needs.provincia = f.needs.provincia
        /\ f.needs.precoMax # None => g.needs.precoMax = Percent(f.needs.precoMax, 125)
    BY <1>1, <2>1, RelaxedFields
  <2>3. f.needs = f.row.needs
    BY <1>3 DEF RelaxedSoFar
  <2> QED
    BY <1>1, <2>1, <2>2, <2>3 DEF RelaxedSoFar
<1>4. CASE f.relax = 1 \/ f.relax = 2
  <2>1. step \in {2, 3}
    <3>1. step = 3 \/ step = f.relax + 1
      BY DEF NextRelaxation
    <3> QED
      BY <1>4, <3>1
  <2>2. g.needs.provincia = f.needs.provincia /\ g.needs.precoMax = f.needs.precoMax
    BY <1>1, <2>1, RelaxedFields
  <2>3. step > 0 /\ step # 0 /\ f.relax > 0
    BY <1>4, <2>1
  <2> QED
    BY <1>1, <2>2, <2>3 DEF RelaxedSoFar
<1> QED
  BY <1>2, <1>3, <1>4

LEMMA ResultsInvInit == Init => ResultsInv
<1> SUFFICES ASSUME Init PROVE ResultsInv
  OBVIOUS
<1>1. \A h \in Handlers : SearchInv(frame[h])
  BY DEF Init, RequestsInit, Idle, SearchInv
<1>2. session.results = {} /\ DOMAIN sought.offers = {}
  <2>1. session.results = {}
    BY DEF Init, ConciergeInit, NewSession
  <2>2. sought.offers = <<>>
    BY DEF Init, ConciergeInit, NoSearch
  <2> QED
    BY <2>1, <2>2
<1> QED
  BY <1>1, <1>2 DEF ResultsInv, SearchFits

LEMMA ResultsInvStep == TInv /\ TInv' /\ ResultsInv /\ [Next]_vars => ResultsInv'
<1> SUFFICES ASSUME TInv, TInv', ResultsInv, [Next]_vars PROVE ResultsInv'
  OBVIOUS
<1> USE DEF AllSteps
<1>t. /\ session \in Session /\ sought \in Search /\ told \subseteq Schools
      /\ market \in [Schools -> [active : BOOLEAN, subscribed : BOOLEAN, offer : Offers]]
      /\ \A h \in Handlers : frame[h] \in AllFrames
  BY DEF TInv, TypeOK, ConciergeTypeOK, MarketTypeOK, AllFrames
<1> DEFINE SaidSo == session.there /\ "session" \notin stale /\ faults = 0
                         /\ session.results # {} /\ told # session.results => AboutToSave
<1>g. /\ session.results = DOMAIN sought.offers /\ SearchFits(sought) /\ SaidSo
      /\ \A h \in Handlers : SearchInv(frame[h])
  BY DEF ResultsInv
<1>r. ASSUME session'.results = DOMAIN sought'.offers, SearchFits(sought'), SaidSo',
             \A h \in Handlers : SearchInv(frame'[h])
      PROVE  ResultsInv'
  BY <1>r DEF ResultsInv, SearchFits
<1> HIDE DEF SaidSo
<1>1. ASSUME Untouched(ConciergeSteps), UNCHANGED conciergeVars PROVE ResultsInv'
  <2>1. \A h \in Handlers : SearchInv(frame'[h])
    BY <1>1, <1>g DEF Untouched, ConciergeSteps, SearchInv
  <2>2. UNCHANGED <<session, told, sought>>
    BY <1>1 DEF conciergeVars
  <2>3. faults' = 0 /\ AboutToSave => AboutToSave'
    BY <1>1, <2>2 DEF Untouched, ConciergeSteps, AboutToSave
  <2>4. SaidSo'
    BY <1>1, <1>g, <2>2, <2>3 DEF Untouched, SaidSo
  <2> QED
    BY <1>g, <1>r, <2>1, <2>2, <2>4
<1>2. ASSUME NEW h \in Handlers, ConciergeStep(h), ServedAt(h, ConciergeSteps) PROVE ResultsInv'
  <2>f. frame[h].at \in ConciergeSteps => frame[h] \in ConciergeFrames
    BY <1>t, FrameOfStep
  <2>b. \A f : Become(h, f) => frame'[h] = f
    BY DEF Become, TInv, TypeOK
  <2>w. stale \subseteq stale' /\ faults' = faults /\ \A k \in Handlers \ {h} : frame'[k] = frame[k]
    BY <1>2 DEF ServedAt
  <2>k. SearchInv(frame'[h]) => \A k \in Handlers : SearchInv(frame'[k])
    BY <1>g, <2>w
  <2>i. SearchInv(Idle) /\ Idle.at = "idle"
    BY DEF SearchInv, Idle
  <2>u. At(h, "idle") /\ frame' = frame => SearchInv(frame'[h]) /\ frame[h].at # "search.save"
    BY <1>g DEF At
  \* Neither the results change nor who is about to save some.
  <2>e. ASSUME UNCHANGED <<told, sought>>, SearchInv(frame'[h]),
               session'.results = session.results, session'.id = session.id,
               session'.there => session.there,
               frame[h].at # "search.save" \/ frame[h].row.id # session.id
        PROVE  ResultsInv'
    <3>1. AboutToSave => AboutToSave'
      BY <2>e, <2>w DEF AboutToSave
    <3>2. SaidSo'
      BY <1>g, <2>e, <2>w, <3>1 DEF SaidSo
    <3> QED
      BY <1>g, <1>r, <2>e, <2>k, <3>2
  <2>v. ASSUME UNCHANGED conciergeVars, SearchInv(frame'[h]), frame[h].at # "search.save"
        PROVE  ResultsInv'
    BY <2>e, <2>v DEF conciergeVars
  <2>1. ASSUME CreateSession(h) PROVE ResultsInv'
    <3>1. session'.results = {} /\ DOMAIN sought'.offers = {}
      BY <2>1 DEF CreateSession, NewSession, NoSearch
    <3>2. SearchFits(sought') /\ SaidSo'
      BY <3>1 DEF SearchFits, SaidSo
    <3> QED
      BY <1>r, <2>1, <2>k, <2>u, <3>1, <3>2 DEF CreateSession, Serve, Begin
  <2>2. ASSUME ProcessTurn(h) PROVE ResultsInv'
    <3>1. UNCHANGED frame \/ \E n, p : \/ Become(h, [Talking("turn.save") EXCEPT !.phase = p])
                                       \/ Become(h, [Talking("turn.save") EXCEPT !.needs = n, !.phase = p])
      BY <2>2 DEF ProcessTurn, AnswerFromResults, TakeUp
    <3>2. UNCHANGED frame \/ frame'[h].at = "turn.save"
      BY <2>b, <3>1 DEF Talking
    <3> QED
      BY <2>2, <2>v, <2>u, <3>2 DEF ProcessTurn, Begin, At, SearchInv
  <2>3. ASSUME SaveTurn(h) PROVE ResultsInv'
    <3>1. /\ session'.results = session.results /\ session'.id = session.id
          /\ session'.there = session.there
      BY <1>t, <2>3 DEF SaveTurn, Session
    <3> QED
      BY <2>3, <2>e, <2>b, <2>i, <3>1 DEF SaveTurn, Return, At
  <2>4. ASSUME PatchNeeds(h) PROVE ResultsInv'
    <3>1. frame'[h].at = "patch.save"
      BY <2>4, <2>b DEF PatchNeeds, Talking
    <3> QED
      BY <2>4, <2>v, <3>1 DEF PatchNeeds, Begin, At, SearchInv
  <2>5. ASSUME SavePatch(h) PROVE ResultsInv'
    <3>1. /\ session'.results = session.results /\ session'.id = session.id
          /\ session'.there = session.there
      BY <1>t, <2>5 DEF SavePatch, Session
    <3>2. frame[h] \in ConciergeFrames
      BY <2>5, <2>f DEF SavePatch, At, ConciergeSteps
    <3>3. frame'[h].at \in {"search.read", "idle"}
      BY <2>5, <2>b, <2>i, <3>2 DEF SavePatch, Goto, Return, ConciergeFrames
    <3> QED
      BY <2>5, <2>e, <3>1, <3>3 DEF SavePatch, At, SearchInv
  <2>6. ASSUME FindSession(h) PROVE ResultsInv'
    BY <2>6, <2>v, <2>b DEF FindSession, Talking, Begin, At, SearchInv
  <2>7. ASSUME DeleteSession(h) PROVE ResultsInv'
    <3>1. /\ session'.results = session.results /\ session'.id = session.id
          /\ ~session'.there
      BY <1>t, <2>7 DEF DeleteSession, Session
    <3> QED
      BY <2>7, <2>e, <2>b, <2>i, <3>1 DEF DeleteSession, Return, At
  <2>8. ASSUME DeleteAllSessions(h) PROVE ResultsInv'
    <3>1. /\ session'.results = session.results /\ session'.id = session.id
          /\ ~session'.there
      BY <1>t, <2>8 DEF DeleteAllSessions, Session
    <3> QED
      BY <2>8, <2>e, <2>u, <3>1 DEF DeleteAllSessions, Serve, Begin
  <2>9. ASSUME SearchSession(h) PROVE ResultsInv'
    <3>1. PICK b : Become(h, [Talking("search.find") EXCEPT !.search = b])
      BY <2>9 DEF SearchSession
    <3>2. SearchInv(frame'[h])
      BY <2>b, <3>1 DEF Talking, SearchInv, RelaxedSoFar
    <3> QED
      BY <2>9, <2>v, <3>2 DEF SearchSession, Begin, At
  <2>10. ASSUME ReadForSearch(h) PROVE ResultsInv'
    <3>1. SearchInv(frame'[h])
      BY <2>10, <2>b DEF ReadForSearch, Talking, SearchInv, RelaxedSoFar
    <3> QED
      BY <2>10, <2>v, <3>1 DEF ReadForSearch, At
  <2>11. ASSUME runSearch(h) PROVE ResultsInv'
    <3> DEFINE n == frame[h].row.needs
               m == frame[h].needs
    <3>1. /\ frame[h] \in ConciergeFrames /\ frame[h].at = "search.find"
          /\ RelaxedSoFar(frame[h])
      BY <2>11, <2>f, <1>g DEF runSearch, At, ConciergeSteps, SearchInv
    <3>2. n \in Needs /\ m \in Needs /\ frame[h].relax \in 0..3
      BY <3>1 DEF ConciergeFrames, Session
    <3>3. PICK ids \in FirstCards(needsToMarketplaceFilters(m)) :
            \/ /\ frame[h].relax < 3
               /\ LET step == NextRelaxation(frame[h].relax, m)
                  IN  Become(h, [frame[h] EXCEPT !.relax = step, !.needs = Relaxed(@, step)])
            \/ Become(h, [frame[h] EXCEPT !.at = "search.tell", !.found =
                    [needs |-> n, relaxed |-> frame[h].relax > 0,
                     offers |-> [s \in ids |-> market[s].offer]]])
      BY <2>11 DEF runSearch
    <3>4. ASSUME frame[h].relax < 3, NEW step, step = NextRelaxation(frame[h].relax, m),
                 Become(h, [frame[h] EXCEPT !.relax = step, !.needs = Relaxed(@, step)])
          PROVE  SearchInv(frame'[h])
      <4>1. RelaxedSoFar(frame'[h])
        BY <2>b, <3>1, <3>4, RelaxesFurther
      <4>2. frame'[h].at = "search.find"
        BY <2>b, <3>1, <3>4 DEF ConciergeFrames
      <4> QED
        BY <4>1, <4>2 DEF SearchInv
    <3> DEFINE found == [needs |-> n, relaxed |-> frame[h].relax > 0,
                         offers |-> [s \in ids |-> market[s].offer]]
    <3>5. ASSUME Become(h, [frame[h] EXCEPT !.at = "search.tell", !.found = found])
          PROVE  SearchInv(frame'[h])
      <4>1. frame'[h].at = "search.tell" /\ frame'[h].found = found
        BY <2>b, <3>1, <3>5 DEF ConciergeFrames
      <4>2. ids \subseteq {s \in Schools : Visible(s) /\ buildWhere(market[s].offer,
                                                             needsToMarketplaceFilters(m))}
        BY <3>3 DEF FirstCards, findVisibleSchools
      <4>3. /\ m.provincia = n.provincia
            /\ n.precoMax # None => m.precoMax \in {n.precoMax, Percent(n.precoMax, 125)}
            /\ ~(frame[h].relax > 0) => m = n
        BY <3>1, <3>2 DEF RelaxedSoFar
      <4>4. ASSUME NEW s \in ids
            PROVE  LET o == market[s].offer
                   IN  /\ n.provincia # "" => o.province = n.provincia
                       /\ n.precoMax # None => tuitionFrom(o) \in 0..Percent(n.precoMax, 125)
                       /\ ~(frame[h].relax > 0) => buildWhere(o, needsToMarketplaceFilters(n))
        <5>1. market[s].offer \in Offers /\ buildWhere(market[s].offer, needsToMarketplaceFilters(m))
          BY <1>t, <4>2
        <5> HIDE DEF n, m
        <5> QED
          BY <3>2, <4>3, <5>1, OfferFits
      <4>5. SearchFits(found)
        BY <4>4 DEF SearchFits
      <4> HIDE DEF found
      <4> QED
        BY <4>1, <4>5 DEF SearchInv
    <3>6. SearchInv(frame'[h])
      BY <3>3, <3>4, <3>5
    <3> QED
      BY <2>11, <2>v, <3>1, <3>6 DEF runSearch
  <2>12. ASSUME TellResults(h) PROVE ResultsInv'
    <3>1. /\ frame[h] \in ConciergeFrames /\ SearchFits(frame[h].found)
          /\ frame[h].row.id = session.id
      BY <2>12, <2>f, <1>g DEF TellResults, At, ConciergeSteps, SearchInv, Kept
    <3>2. /\ frame'[h].at = "search.save" /\ frame'[h].found = frame[h].found
          /\ frame'[h].row = frame[h].row
      BY <2>12, <2>b, <3>1 DEF TellResults, Goto, ConciergeFrames
    <3>3. session' = session /\ sought' = sought
      BY <2>12 DEF TellResults
    <3>4. AboutToSave'
      BY <3>1, <3>2, <3>3 DEF AboutToSave
    <3>5. SaidSo' /\ SearchInv(frame'[h])
      BY <3>1, <3>2, <3>4 DEF SaidSo, SearchInv
    <3> QED
      BY <1>g, <1>r, <2>k, <3>3, <3>5
  <2>13. ASSUME SaveResults(h) PROVE ResultsInv'
    <3> DEFINE ids == DOMAIN frame[h].found.offers
    <3>1. /\ session'.results = ids /\ sought' = frame[h].found /\ told' = told
      BY <1>t, <2>13 DEF SaveResults, Session
    <3>2. SearchFits(sought')
      BY <1>g, <2>13, <3>1 DEF SaveResults, At, SearchInv
    <3>3. "session" \notin stale' => (ids # {} => told = ids)
      BY <2>13 DEF SaveResults, Mark
    <3>4. SaidSo'
      BY <3>1, <3>3 DEF SaidSo
    <3> QED
      BY <1>r, <2>13, <2>b, <2>i, <2>k, <3>1, <3>2, <3>4 DEF SaveResults, Return
  <2>14. ASSUME SessionLost(h) PROVE ResultsInv'
    <3>1. UNCHANGED conciergeVars /\ SearchInv(frame'[h])
      BY <2>14, <2>b, <2>i DEF SessionLost, Return
    <3>2. CASE session.there
      BY <2>14, <2>e, <3>1, <3>2 DEF SessionLost, Kept, conciergeVars
    <3>3. CASE ~session.there
      <4>1. SaidSo'
        BY <3>1, <3>3 DEF SaidSo, conciergeVars
      <4> QED
        BY <1>g, <1>r, <2>k, <3>1, <4>1 DEF conciergeVars
    <3> QED
      BY <3>2, <3>3
  <2> QED
    BY <1>2, <2>1, <2>2, <2>3, <2>4, <2>5, <2>6, <2>7, <2>8, <2>9, <2>10, <2>11, <2>12, <2>13,
       <2>14
    DEF ConciergeStep
<1>3. ASSUME NEW s \in AllSteps, s # ConciergeSteps, NEW h, ServedAt(h, s),
             UNCHANGED conciergeVars
      PROVE  ResultsInv'
  <2>1. Untouched(ConciergeSteps)
    BY <1>3, ServedElsewhere
  <2> QED
    BY <1>1, <1>3, <2>1
<1> QED
  BY <1>1, <1>2, <1>3, StepCases, StepsDiffer
-----------------------------------------------------------------------------
(* Decisions.                                                              *)

AnswersTo(about) == IF about = "application" THEN Answers ELSE {"CONFIRMED", "REJECTED"}
RowsOf(about) == IF about = "application" THEN DOMAIN applications ELSE DOMAIN visits
StatusOf(about, i) == IF about = "application" THEN applications[i].status ELSE visits[i].status
Table(about) == IF about = "application" THEN "applications" ELSE "visits"
Matter(f) == IF f.code = 0 THEN "application" ELSE "visit"

\* What a request on an application or a visit holds.
TrailFrame(f) ==
    /\ f.at \in {"apply.class", "apply.create"} => f.says = "sent" /\ f.code = 0
    /\ f.at = "visit.create" => f.says = "sent" /\ f.code # 0
    /\ f.at = "apply.decide" => f.code = 0 /\ f.says \in Answers
                                  /\ f.seen \in DECIDABLE_APPLICATION_STATUSES
    /\ f.at = "visit.decide" => f.code # 0 /\ f.says \in {"CONFIRMED", "REJECTED"}
    /\ f.at = "tell.school" => f.says = "sent"
    /\ f.at \in {"apply.decide", "visit.decide", "tell.school", "tell.family"} =>
           f.row \in RowsOf(Matter(f))
    /\ f.at = "tell.family" /\ f.says # "sent" =>
           /\ f.says \in AnswersTo(Matter(f))
           /\ Table(Matter(f)) \notin stale => StatusOf(Matter(f), f.row) = f.says

\* What the family was told is of a row there is, and an answer.
NoticesFit ==
    \A j \in DOMAIN notices : notices[j].to = "family" =>
        /\ notices[j].row \in RowsOf(notices[j].about)
        /\ notices[j].says \in AnswersTo(notices[j].about) \cup {"sent"}

ToldIsStatus ==
    \A about \in Subjects : Table(about) \notin stale =>
        \A i \in RowsOf(about) : Told(about, i) \subseteq {StatusOf(about, i)}

TrailsHold ==
    "applications" \notin stale => \A i \in DOMAIN applications :
        Len(applications[i].history) >= 1 /\ HistoryLeadsToStatus(applications[i])

\* A decision was told, or somebody is about to tell it.
Telling(i) ==
    \E k \in Handlers : /\ frame[k].at = "tell.family" /\ frame[k].code = 0
                        /\ frame[k].row = i /\ frame[k].says = applications[i].status
DecisionsTold ==
    faults = 0 => \A i \in DOMAIN applications :
        applications[i].status \in Told("application", i) \cup {"SUBMITTED"} \/ Telling(i)

TrailInv ==
    /\ NoticesFit /\ ToldIsStatus /\ TrailsHold /\ DecisionsTold
    /\ \A h \in Handlers : TrailFrame(frame[h])

LEMMA OneTrail == TrailInv => DecisionsFormOneTrail
<1> SUFFICES ASSUME TrailInv PROVE DecisionsFormOneTrail
  OBVIOUS
<1>1. "applications" \notin stale => \A i \in DOMAIN applications :
          /\ HistoryLeadsToStatus(applications[i])
          /\ Told("application", i) \subseteq {applications[i].status}
  BY DEF TrailInv, ToldIsStatus, TrailsHold, Subjects, RowsOf, StatusOf, Table
<1>2. "visits" \notin stale => \A i \in DOMAIN visits :
          Told("visit", i) \subseteq {visits[i].status}
  BY DEF TrailInv, ToldIsStatus, Subjects, RowsOf, StatusOf, Table
<1>3. faults = 0 /\ (\A h \in Handlers : At(h, "idle")) =>
          \A i \in DOMAIN applications :
              applications[i].status \in Told("application", i) \cup {"SUBMITTED"}
  BY DEF TrailInv, DecisionsTold, Telling, At
<1> QED
  BY <1>1, <1>2, <1>3 DEF DecisionsFormOneTrail

\* Reading a notice does not change what was told.
LEMMA ToldSame ==
    ASSUME DOMAIN notices' = DOMAIN notices,
           \A j \in DOMAIN notices :
               /\ notices'[j].to = notices[j].to /\ notices'[j].about = notices[j].about
               /\ notices'[j].row = notices[j].row /\ notices'[j].says = notices[j].says
    PROVE  \A about, i : Told(about, i)' = Told(about, i)
BY DEF Told

\* A notice more is one answer more at most.
LEMMA ToldMore ==
    ASSUME notices \in Seq(Notice), NEW n \in Notice, notices' = Append(notices, n)
    PROVE  /\ \A about, i :
                  Told(about, i)' = Told(about, i) \cup
                      {s \in {n.says} : n.to = "family" /\ s # "sent" /\ n.about = about /\ n.row = i}
           /\ DOMAIN notices' = DOMAIN notices \cup {Len(notices) + 1}
           /\ \A j \in DOMAIN notices : notices'[j] = notices[j]
           /\ notices'[Len(notices) + 1] = n
<1>1. /\ DOMAIN notices = 1..Len(notices) /\ Len(notices) \in Nat
      /\ notices' \in Seq(Notice) /\ Len(notices') = Len(notices) + 1
      /\ \A j \in 1..Len(notices) : notices'[j] = notices[j]
      /\ notices'[Len(notices) + 1] = n
  BY LenProperties, AppendProperties
<1>2. DOMAIN notices' = 1..(Len(notices) + 1)
  BY <1>1, LenProperties
<1>3. /\ DOMAIN notices' = DOMAIN notices \cup {Len(notices) + 1}
      /\ \A j \in DOMAIN notices : notices'[j] = notices[j]
  BY <1>1, <1>2
<1> QED
  BY <1>1, <1>3 DEF Told

\* A decision taken from the status there is lengthens the trail.
LEMMA TrailGrows ==
    ASSUME NEW a, a.history \in Seq(Step), Len(a.history) >= 1, HistoryLeadsToStatus(a),
           NEW s \in Step, s.from = a.status,
           NEW b, b.history = Append(a.history, s), b.status = s.to
    PROVE  Len(b.history) >= 1 /\ HistoryLeadsToStatus(b)
<1> DEFINE n == Len(a.history)
<1>1. /\ n \in Nat /\ Len(b.history) = n + 1
      /\ \A i \in 1..n : b.history[i] = a.history[i]
      /\ b.history[n + 1] = s
  BY LenProperties, AppendProperties
<1>2. /\ a.history[1].from = "NONE" /\ a.history[n].to = a.status
      /\ \A k \in 1..(n - 1) : a.history[k].to = a.history[k + 1].from
  BY DEF HistoryLeadsToStatus
<1> HIDE DEF n
<1>3. n >= 1
  BY DEF n
<1>4. b.history[1].from = "NONE" /\ b.history[n + 1].to = b.status
  BY <1>1, <1>2, <1>3
<1>5. ASSUME NEW k \in 1..n PROVE b.history[k].to = b.history[k + 1].from
  <2>1. CASE k = n
    BY <1>1, <1>2, <1>3, <2>1
  <2>2. CASE k # n
    <3>1. k \in 1..(n - 1) /\ k + 1 \in 1..n
      BY <1>1, <2>2
    <3> QED
      BY <1>1, <1>2, <3>1
  <2> QED
    BY <2>1, <2>2
<1> QED
  BY <1>1, <1>3, <1>4, <1>5 DEF HistoryLeadsToStatus

LEMMA TrailInvInit == Init => TrailInv
<1> SUFFICES ASSUME Init PROVE TrailInv
  OBVIOUS
<1>1. \A h \in Handlers : TrailFrame(frame[h])
  BY DEF Init, RequestsInit, Idle, TrailFrame
<1>2. DOMAIN applications = {} /\ DOMAIN visits = {} /\ DOMAIN notices = {}
  <2>1. applications = <<>> /\ visits = <<>> /\ notices = <<>>
    BY DEF Init, AdmissionInit
  <2> QED
    BY <2>1
<1> QED
  BY <1>1, <1>2 DEF TrailInv, NoticesFit, ToldIsStatus, TrailsHold, DecisionsTold, RowsOf

LEMMA TrailInvStep == TInv /\ TInv' /\ TrailInv /\ [Next]_vars => TrailInv'
<1> SUFFICES ASSUME TInv, TInv', TrailInv, [Next]_vars PROVE TrailInv'
  OBVIOUS
<1> USE DEF AllSteps
<1> DEFINE Application == [status : ApplicationStatus, history : Seq(Step)]
           VisitRow == [status : VisitStatus, code : 1..(MaxVisits + 1), user : BOOLEAN]
<1>t. /\ applications \in Seq(Application) /\ visits \in Seq(VisitRow) /\ notices \in Seq(Notice)
      /\ \A h \in Handlers : frame[h] \in AllFrames
  BY DEF TInv, TypeOK, AdmissionTypeOK, AllFrames
<1>a. /\ DOMAIN applications = 1..Len(applications) /\ Len(applications) \in Nat
      /\ \A i \in DOMAIN applications : applications[i] \in Application
  BY <1>t, LenProperties, ElementOfSeq
<1>v. /\ DOMAIN visits = 1..Len(visits) /\ Len(visits) \in Nat
      /\ \A i \in DOMAIN visits : visits[i] \in VisitRow /\ visits[i].code # 0
  <2>1. /\ DOMAIN visits = 1..Len(visits) /\ Len(visits) \in Nat
        /\ \A i \in DOMAIN visits : visits[i] \in VisitRow
    BY <1>t, LenProperties, ElementOfSeq
  <2> QED
    BY <2>1
<1>n. \A j \in DOMAIN notices : notices[j] \in Notice
  BY <1>t, LenProperties, ElementOfSeq
<1> HIDE DEF Application, VisitRow
<1>g. /\ NoticesFit /\ ToldIsStatus /\ TrailsHold /\ DecisionsTold
      /\ \A h \in Handlers : TrailFrame(frame[h])
  BY DEF TrailInv
<1>m. \A f : Matter(f) \in Subjects
  BY DEF Matter, Subjects
<1>r. Table("application") = "applications" /\ Table("visit") = "visits"
      /\ RowsOf("application") = DOMAIN applications /\ RowsOf("visit") = DOMAIN visits
      /\ \A i : StatusOf("application", i) = applications[i].status
                /\ StatusOf("visit", i) = visits[i].status
  BY DEF Table, RowsOf, StatusOf
\* The rows that nobody writes are where they were.
<1>s. ASSUME UNCHANGED <<applications, visits>>
      PROVE  \A about \in Subjects : \A i \in RowsOf(about) :
                 i \in RowsOf(about)' /\ StatusOf(about, i)' = StatusOf(about, i)
  BY <1>s DEF RowsOf, StatusOf
\* Only notices are written, and frames.
<1>e. ASSUME UNCHANGED <<applications, visits, notices>>, stale \subseteq stale',
             \A k \in Handlers : TrailFrame(frame'[k]),
             faults' = 0 => faults = 0 /\ \A i : Telling(i) => Telling(i)'
      PROVE  TrailInv'
  <2>1. \A k \in Handlers : TrailFrame(frame[k])'
    <3>1. \A k \in Handlers : TrailFrame(frame'[k]) => TrailFrame(frame[k])'
      BY <1>e, <1>s, <1>m DEF TrailFrame
    <3> QED
      BY <1>e, <3>1
  <2>2. \A about, i : Told(about, i)' = Told(about, i)
    BY <1>e, ToldSame
  <2>3. NoticesFit'
    BY <1>g, <1>e DEF NoticesFit, RowsOf
  <2>4. ToldIsStatus'
    BY <1>g, <1>e, <2>2 DEF ToldIsStatus, RowsOf, StatusOf
  <2>5. TrailsHold'
    BY <1>g, <1>e DEF TrailsHold
  <2>6. DecisionsTold'
    BY <1>g, <1>e, <2>2 DEF DecisionsTold
  <2> QED
    BY <2>1, <2>3, <2>4, <2>5, <2>6 DEF TrailInv
<1>1. ASSUME Untouched(AdmissionSteps), UNCHANGED <<applications, visits, notices>> PROVE TrailInv'
  <2>1. \A k \in Handlers : TrailFrame(frame'[k])
    BY <1>1, <1>g DEF Untouched, AdmissionSteps, TrailFrame
  <2>2. faults' = 0 => faults = 0 /\ \A i : Telling(i) => Telling(i)'
    BY <1>1 DEF Untouched, AdmissionSteps, Telling
  <2> QED
    BY <1>1, <1>e, <2>1, <2>2 DEF Untouched
<1>2. ASSUME NEW h \in Handlers, AdmissionStep(h), ServedAt(h, AdmissionSteps) PROVE TrailInv'
  <2>f. frame[h].at \in AdmissionSteps => frame[h] \in AdmissionFrames
    BY <1>t, FrameOfStep
  <2>b. \A f : Become(h, f) => frame'[h] = f
    BY DEF Become, TInv, TypeOK
  <2>w. /\ stale \subseteq stale' /\ faults' = faults
        /\ \A k \in Handlers \ {h} : frame'[k] = frame[k]
    BY <1>2 DEF ServedAt
  <2>k. TrailFrame(frame'[h]) => \A k \in Handlers : TrailFrame(frame'[k])
    BY <1>g, <2>w
  <2>i. TrailFrame(Idle) /\ Idle.at = "idle"
    BY DEF TrailFrame, Idle
  <2>u. At(h, "idle") /\ frame' = frame => TrailFrame(frame'[h]) /\ frame[h].at # "tell.family"
    BY <1>g DEF At
  \* A request goes on that is not the one a decision waits for.
  <2>e. ASSUME UNCHANGED <<applications, visits, notices>>, TrailFrame(frame'[h]),
               frame[h].at # "tell.family"
        PROVE  TrailInv'
    <3>1. \A i : Telling(i) => Telling(i)'
      BY <2>e, <2>w DEF Telling
    <3> QED
      BY <1>e, <2>e, <2>k, <2>w, <3>1
  <2>1. ASSUME assertCanReceiveApplications(h) PROVE TrailInv'
    <3>1. TrailFrame(frame'[h])
      BY <2>1, <2>b DEF assertCanReceiveApplications, Asking, TrailFrame
    <3> QED
      BY <2>1, <2>e, <3>1 DEF assertCanReceiveApplications, Begin, At, admissionVars
  <2>2. ASSUME CheckClass(h) PROVE TrailInv'
    <3>1. frame[h] \in AdmissionFrames /\ frame[h].at = "apply.class" /\ TrailFrame(frame[h])
      BY <2>2, <2>f, <1>g DEF CheckClass, At, AdmissionSteps
    <3>2. TrailFrame(frame'[h])
      BY <2>2, <2>b, <2>i, <3>1 DEF CheckClass, Goto, Return, AdmissionFrames, TrailFrame
    <3> QED
      BY <2>2, <2>e, <3>1, <3>2 DEF CheckClass, admissionVars
  <2>3. ASSUME CreateApplication(h) PROVE TrailInv'
    <3> DEFINE n == Len(applications) + 1
               new == [status |-> "SUBMITTED", history |-> <<[from |-> "NONE", to |-> "SUBMITTED"]>>]
    <3>1. /\ applications' = Append(applications, new)
          /\ visits' = visits /\ notices' = notices
          /\ frame' = [frame EXCEPT ![h] = [frame[h] EXCEPT !.at = "tell.school", !.row = n]]
      BY <2>3 DEF CreateApplication, Become
    <3>2. new \in Application
      BY DEF Application, Step, ApplicationStatus
    <3>3. /\ DOMAIN applications' = DOMAIN applications \cup {n}
          /\ \A i \in DOMAIN applications : applications'[i] = applications[i]
          /\ applications'[n] = new /\ n \notin DOMAIN applications
      <4> HIDE DEF new
      <4>1. /\ applications' \in Seq(Application) /\ Len(applications') = n
            /\ \A i \in 1..Len(applications) : applications'[i] = applications[i]
            /\ applications'[n] = new
        BY <1>t, <3>1, <3>2, AppendProperties
      <4>2. DOMAIN applications' = 1..n
        BY <4>1, LenProperties
      <4> QED
        BY <1>a, <4>1, <4>2
    <3>4. /\ Len(new.history) >= 1 /\ HistoryLeadsToStatus(new) /\ new.status = "SUBMITTED"
      BY DEF HistoryLeadsToStatus
    <3> HIDE DEF new, n
    <3>5. /\ frame[h] \in AdmissionFrames /\ frame[h].at = "apply.create"
          /\ frame[h].says = "sent" /\ frame[h].code = 0
      BY <2>3, <2>f, <1>g DEF CreateApplication, At, AdmissionSteps, TrailFrame
    <3>6. /\ frame'[h].at = "tell.school" /\ frame'[h].row = n
          /\ frame'[h].says = "sent" /\ frame'[h].code = 0
      BY <3>1, <3>5 DEF AdmissionFrames, TInv, TypeOK
    <3>7. \A about \in Subjects : \A i \in RowsOf(about) :
              i \in RowsOf(about)' /\ StatusOf(about, i)' = StatusOf(about, i)
      BY <3>1, <3>3 DEF RowsOf, StatusOf
    <3>8. \A k \in Handlers : TrailFrame(frame[k])'
      <4>1. TrailFrame(frame[h])'
        BY <3>3, <3>6 DEF TrailFrame, RowsOf, Matter
      <4>2. \A k \in Handlers \ {h} : TrailFrame(frame[k])'
        <5> SUFFICES ASSUME NEW k \in Handlers \ {h} PROVE TrailFrame(frame[k])'
          OBVIOUS
        <5>1. frame'[k] = frame[k] /\ TrailFrame(frame[k])
          BY <1>g, <2>w
        <5> QED
          BY <1>m, <2>w, <3>7, <5>1 DEF TrailFrame
      <4> QED
        BY <4>1, <4>2
    <3>9. \A about, i : Told(about, i)' = Told(about, i)
      BY <3>1, ToldSame
    <3>10. Told("application", n) = {}
      BY <1>g, <3>3 DEF Told, NoticesFit, RowsOf
    <3>11. NoticesFit'
      BY <1>g, <1>n, <3>1, <3>7 DEF NoticesFit, Notice
    <3>12. ToldIsStatus'
      BY <1>g, <2>w, <3>1, <3>3, <3>9, <3>10 DEF ToldIsStatus, RowsOf, StatusOf
    <3>13. TrailsHold'
      BY <1>g, <2>w, <3>3, <3>4 DEF TrailsHold
    <3>14. DecisionsTold'
      BY <1>g, <2>w, <3>3, <3>4, <3>5, <3>9 DEF DecisionsTold, Telling
    <3> QED
      BY <3>8, <3>11, <3>12, <3>13, <3>14 DEF TrailInv
  \* A notice more: what was told changes, and no row.
  <2>n. ASSUME NEW audience \in {"school", "family"}, Tell(h, audience),
               frame[h].at \in {"tell.school", "tell.family"},
               audience = "school" => frame[h].at # "tell.family",
               UNCHANGED <<applications, visits, stale>>, TrailFrame(frame'[h])
        PROVE  TrailInv'
    <3> DEFINE n == [to |-> audience, about |-> Matter(frame[h]), row |-> frame[h].row,
                     says |-> frame[h].says, read |-> FALSE]
    <3>1. frame[h] \in AdmissionFrames /\ TrailFrame(frame[h])
      BY <2>f, <2>n, <1>g DEF AdmissionSteps
    <3>2. n \in Notice /\ notices' = Append(notices, n)
      BY <1>m, <2>n, <3>1 DEF Tell, Notice, AdmissionFrames, Matter
    <3>3. /\ n.to = audience /\ n.about = Matter(frame[h]) /\ n.row = frame[h].row
          /\ n.says = frame[h].says
      OBVIOUS
    <3> HIDE DEF n
    <3>4. /\ \A about, i :
                 Told(about, i)' = Told(about, i) \cup
                     {s \in {n.says} : n.to = "family" /\ s # "sent" /\ n.about = about /\ n.row = i}
          /\ DOMAIN notices' = DOMAIN notices \cup {Len(notices) + 1}
          /\ \A j \in DOMAIN notices : notices'[j] = notices[j]
          /\ notices'[Len(notices) + 1] = n
      BY <1>t, <3>2, ToldMore
    <3>5. /\ n.row \in RowsOf(n.about)
          /\ n.says # "sent" => n.says \in AnswersTo(n.about) \/ n.to = "school"
          /\ n.to = "family" /\ n.says # "sent" =>
                 n.says \in AnswersTo(n.about)
                 /\ (Table(n.about) \notin stale => StatusOf(n.about, n.row) = n.says)
      BY <2>n, <3>1, <3>3 DEF TrailFrame
    <3>6. NoticesFit'
      BY <1>g, <2>n, <3>4, <3>5 DEF NoticesFit, RowsOf
    <3>7. ToldIsStatus'
      BY <1>g, <2>n, <3>4, <3>5 DEF ToldIsStatus, RowsOf, StatusOf
    <3>8. TrailsHold'
      BY <1>g, <2>n DEF TrailsHold
    <3>9. DecisionsTold'
      <4> SUFFICES ASSUME faults = 0, NEW i \in DOMAIN applications
                   PROVE  applications[i].status \in Told("application", i)' \cup {"SUBMITTED"}
                              \/ Telling(i)'
        BY <2>n, <2>w DEF DecisionsTold
      <4>1. CASE applications[i].status \in Told("application", i) \cup {"SUBMITTED"}
        BY <3>4, <4>1
      <4>2. CASE applications[i].status \notin Told("application", i) \cup {"SUBMITTED"}
        <5>1. PICK k \in Handlers : /\ frame[k].at = "tell.family" /\ frame[k].code = 0
                                    /\ frame[k].row = i /\ frame[k].says = applications[i].status
          BY <1>g, <4>2 DEF DecisionsTold, Telling
        <5>2. CASE k = h
          <6>1. audience = "family" /\ n.about = "application" /\ n.row = i
                /\ n.says = applications[i].status
            BY <2>n, <3>3, <5>1, <5>2 DEF Matter
          <6>2. n.says # "sent"
            BY <1>a, <6>1 DEF Application, ApplicationStatus, Answers
          <6> QED
            BY <3>3, <3>4, <6>1, <6>2
        <5>3. CASE k # h
          BY <2>n, <2>w, <5>1, <5>3 DEF Telling
        <5> QED
          BY <5>2, <5>3
      <4> QED
        BY <4>1, <4>2
    <3>10. \A k \in Handlers : TrailFrame(frame[k])'
      BY <1>m, <1>s, <2>k, <2>n DEF TrailFrame
    <3> QED
      BY <3>6, <3>7, <3>8, <3>9, <3>10 DEF TrailInv
  <2>4. ASSUME notifySchoolMembers(h) PROVE TrailInv'
    <3>1. frame[h] \in AdmissionFrames /\ frame[h].at = "tell.school" /\ TrailFrame(frame[h])
      BY <2>4, <2>f, <1>g DEF notifySchoolMembers, At, AdmissionSteps
    <3>2. TrailFrame(frame'[h])
      BY <2>4, <2>b, <3>1 DEF notifySchoolMembers, Goto, AdmissionFrames, TrailFrame, Matter
    <3> QED
      BY <2>4, <2>n, <3>1, <3>2 DEF notifySchoolMembers
  <2>5. ASSUME NotifyFamily(h) PROVE TrailInv'
    <3>1. /\ frame[h].at = "tell.family" /\ TrailFrame(frame'[h])
          /\ UNCHANGED <<applications, visits, stale>>
      BY <2>5, <2>b, <2>i DEF NotifyFamily, At, Return
    <3>2. CASE Known(h)
      BY <2>5, <2>n, <3>1, <3>2 DEF NotifyFamily
    <3>3. CASE ~Known(h)
      <4>1. notices' = notices /\ frame[h].code # 0
        BY <2>5, <3>3 DEF NotifyFamily, Known
      <4>2. \A i : Telling(i) => Telling(i)'
        BY <2>w, <3>1, <4>1 DEF Telling
      <4> QED
        BY <1>e, <2>k, <2>w, <3>1, <4>1, <4>2
    <3> QED
      BY <3>2, <3>3
  <2>6. ASSUME ApproveApplication(h) PROVE TrailInv'
    <3>1. PICK i \in DOMAIN applications :
              /\ applications[i].status \in DECIDABLE_APPLICATION_STATUSES
              /\ Become(h, [Asking("apply.decide") EXCEPT
                     !.row = i, !.seen = applications[i].status, !.says = "ACCEPTED"])
      BY <2>6 DEF ApproveApplication
    <3>2. TrailFrame(frame'[h])
      BY <2>b, <3>1 DEF Asking, TrailFrame, Matter, RowsOf, Answers
    <3> QED
      BY <2>6, <2>e, <3>2 DEF ApproveApplication, Begin, At, admissionVars
  <2>7. ASSUME RejectApplication(h) PROVE TrailInv'
    <3>1. PICK i \in DOMAIN applications :
              /\ applications[i].status \in DECIDABLE_APPLICATION_STATUSES
              /\ Become(h, [Asking("apply.decide") EXCEPT
                     !.row = i, !.seen = applications[i].status, !.says = "REJECTED"])
      BY <2>7 DEF RejectApplication
    <3>2. TrailFrame(frame'[h])
      BY <2>b, <3>1 DEF Asking, TrailFrame, Matter, RowsOf, Answers
    <3> QED
      BY <2>7, <2>e, <3>2 DEF RejectApplication, Begin, At, admissionVars
  \* One row gets its answer, from a status that was none or by a stale request.
  <2>d. ASSUME NEW about \in Subjects, NEW i \in RowsOf(about), NEW says \in AnswersTo(about),
               frame[h].at \in {"apply.decide", "visit.decide"},
               frame'[h].at = "tell.family", frame'[h].row = i, frame'[h].says = says,
               Matter(frame'[h]) = about, frame'[h].code = frame[h].code, notices' = notices,
               \A a \in Subjects : RowsOf(a)' = RowsOf(a),
               \A a \in Subjects : \A j \in RowsOf(a) :
                   StatusOf(a, j)' = IF a = about /\ j = i THEN says ELSE StatusOf(a, j),
               Table(about) \notin stale' => StatusOf(about, i) \notin AnswersTo(about)
        PROVE  /\ NoticesFit' /\ ToldIsStatus' /\ DecisionsTold'
               /\ \A k \in Handlers : TrailFrame(frame[k])'
    <3>1. \A a, j : Told(a, j)' = Told(a, j)
      BY <2>d, ToldSame
    <3>2. NoticesFit'
      BY <1>g, <1>n, <2>d DEF NoticesFit, Notice
    <3>3. \A j : Told(about, j) \subseteq AnswersTo(about)
      BY <1>g DEF Told, NoticesFit
    <3>4. \A a \in Subjects : Table(a)' = Table(a)
      BY DEF Table
    <3>5. ToldIsStatus'
      <4> SUFFICES ASSUME NEW a \in Subjects, Table(a) \notin stale', NEW j \in RowsOf(a)
                   PROVE  Told(a, j) \subseteq {StatusOf(a, j)'}
        BY <2>d, <3>1, <3>4 DEF ToldIsStatus
      <4>1. Told(a, j) \subseteq {StatusOf(a, j)}
        BY <1>g, <2>w DEF ToldIsStatus
      <4>2. CASE a = about /\ j = i
        <5>1. Told(a, j) = {}
          BY <2>d, <3>3, <4>1, <4>2
        <5> QED
          BY <5>1
      <4>3. CASE ~(a = about /\ j = i)
        BY <2>d, <4>1, <4>3
      <4> QED
        BY <4>2, <4>3
    <3>6. DecisionsTold'
      <4> SUFFICES ASSUME faults = 0, NEW j \in DOMAIN applications
                   PROVE  applications'[j].status \in Told("application", j) \cup {"SUBMITTED"}
                              \/ Telling(j)'
        BY <1>r, <2>d, <2>w, <3>1 DEF DecisionsTold, Subjects, RowsOf
      <4>1. CASE about = "application" /\ j = i
        <5>1. applications'[j].status = says /\ frame'[h].code = 0
          BY <2>d, <4>1 DEF StatusOf, Matter
        <5> QED
          BY <2>d, <4>1, <5>1 DEF Telling
      <4>2. CASE ~(about = "application" /\ j = i)
        <5>1. applications'[j].status = applications[j].status
          BY <2>d, <4>2 DEF StatusOf, Subjects, RowsOf
        <5>2. Telling(j) => Telling(j)'
          BY <2>d, <2>w, <5>1 DEF Telling
        <5> QED
          BY <1>g, <5>1, <5>2 DEF DecisionsTold
      <4> QED
        BY <4>1, <4>2
    <3>7. TrailFrame(frame[h])'
      <4>1. RowsOf(about)' = RowsOf(about) /\ StatusOf(about, i)' = says
        BY <2>d
      <4>2. AnswersTo(about)' = AnswersTo(about)
        BY DEF AnswersTo
      <4> QED
        BY <2>d, <4>1, <4>2 DEF TrailFrame
    <3>8. ASSUME NEW k \in Handlers \ {h} PROVE TrailFrame(frame[k])'
      <4>1. frame'[k] = frame[k] /\ TrailFrame(frame[k]) /\ Matter(frame[k]) \in Subjects
        BY <1>g, <1>m, <2>w
      <4>2. frame[k].at \in {"apply.decide", "visit.decide", "tell.school", "tell.family"} =>
                frame[k].row \in RowsOf(Matter(frame[k])) /\ frame[k].row \in RowsOf(Matter(frame[k]))'
        BY <2>d, <4>1 DEF TrailFrame
      <4>3. ASSUME frame[k].at = "tell.family", frame[k].says # "sent",
                   Table(Matter(frame[k])) \notin stale'
            PROVE  StatusOf(Matter(frame[k]), frame[k].row)' = frame[k].says
        <5>1. /\ frame[k].says \in AnswersTo(Matter(frame[k]))
              /\ StatusOf(Matter(frame[k]), frame[k].row) = frame[k].says
              /\ frame[k].row \in RowsOf(Matter(frame[k]))
          BY <2>w, <4>1, <4>3 DEF TrailFrame
        <5>2. ~(Matter(frame[k]) = about /\ frame[k].row = i)
          BY <2>d, <4>3, <5>1
        <5>3. StatusOf(Matter(frame[k]), frame[k].row)' = StatusOf(Matter(frame[k]), frame[k].row)
          BY <2>d, <4>1, <5>1, <5>2 DEF StatusOf, Matter
        <5> QED
          BY <5>1, <5>3
      <4> QED
        BY <4>1, <4>2, <4>3 DEF TrailFrame, Matter, Table, AnswersTo
    <3> QED
      BY <3>2, <3>5, <3>6, <3>7, <3>8
  <2>8. ASSUME SaveDecision(h) PROVE TrailInv'
    <3> DEFINE i == frame[h].row
               s == [from |-> frame[h].seen, to |-> frame[h].says]
    <3>1. /\ frame[h] \in AdmissionFrames /\ frame[h].at = "apply.decide" /\ TrailFrame(frame[h])
      BY <2>8, <2>f, <1>g DEF SaveDecision, At, AdmissionSteps
    <3>2. /\ frame[h].code = 0 /\ frame[h].says \in Answers /\ i \in DOMAIN applications
          /\ frame[h].seen \in DECIDABLE_APPLICATION_STATUSES
      BY <3>1 DEF TrailFrame, Matter, RowsOf
    <3>3. s \in Step /\ s.from = frame[h].seen /\ s.to = frame[h].says
      BY <3>2 DEF Step, DECIDABLE_APPLICATION_STATUSES, ApplicationStatus
    <3>4. frame'[h] = [frame[h] EXCEPT !.at = "tell.family"]
      BY <2>8, <2>b DEF SaveDecision, Goto
    <3>5. /\ frame'[h].at = "tell.family" /\ frame'[h].row = i
          /\ frame'[h].says = frame[h].says /\ frame'[h].code = 0
      BY <3>1, <3>2, <3>4 DEF AdmissionFrames
    <3>6. \A j \in DOMAIN applications :
              /\ j # i => applications'[j] = applications[j]
              /\ j = i => /\ applications'[j].status = frame[h].says
                          /\ applications'[j].history = Append(applications[j].history, s)
      BY <1>a, <2>8, <3>2 DEF SaveDecision, Application
    <3>7. DOMAIN applications' = DOMAIN applications
      BY <2>8 DEF SaveDecision
    <3>8. UNCHANGED <<visits, notices>>
      BY <2>8 DEF SaveDecision
    <3>9. "applications" \notin stale' => applications[i].status = frame[h].seen
      BY <2>8 DEF SaveDecision, Mark
    <3> HIDE DEF i, s
    <3>10. /\ NoticesFit' /\ ToldIsStatus' /\ DecisionsTold'
           /\ \A k \in Handlers : TrailFrame(frame[k])'
      <4>1. \A a \in Subjects : RowsOf(a)' = RowsOf(a)
        BY <3>7, <3>8 DEF RowsOf
      <4>2. \A a \in Subjects : \A j \in RowsOf(a) :
                StatusOf(a, j)' = IF a = "application" /\ j = i THEN frame[h].says
                                                                ELSE StatusOf(a, j)
        BY <3>6, <3>8 DEF RowsOf, StatusOf, Subjects
      <4>3. /\ "application" \in Subjects /\ i \in RowsOf("application")
            /\ frame[h].says \in AnswersTo("application") /\ Matter(frame'[h]) = "application"
        BY <3>2, <3>5 DEF Subjects, RowsOf, AnswersTo, Matter, i
      <4>4. Table("application") \notin stale' =>
                StatusOf("application", i) \notin AnswersTo("application")
        BY <1>r, <3>2, <3>9
        DEF AnswersTo, DECIDABLE_APPLICATION_STATUSES, Answers
      <4> QED
        BY <2>d, <3>1, <3>2, <3>5, <3>8, <4>1, <4>2, <4>3, <4>4
    <3>11. TrailsHold'
      <4> SUFFICES ASSUME "applications" \notin stale', NEW j \in DOMAIN applications
                   PROVE  Len(applications'[j].history) >= 1 /\ HistoryLeadsToStatus(applications'[j])
        BY <3>7 DEF TrailsHold
      <4>1. /\ applications[j].history \in Seq(Step) /\ Len(applications[j].history) >= 1
            /\ HistoryLeadsToStatus(applications[j])
        BY <1>a, <1>g, <2>w DEF TrailsHold, Application
      <4>2. CASE j = i
        <5>1. s.from = applications[j].status
          BY <3>3, <3>9, <4>2
        <5>2. /\ applications'[j].history = Append(applications[j].history, s)
              /\ applications'[j].status = s.to
          BY <3>3, <3>6, <4>2
        <5> QED
          BY <3>3, <4>1, <5>1, <5>2, TrailGrows
      <4>3. CASE j # i
        BY <3>6, <4>1, <4>3
      <4> QED
        BY <4>2, <4>3
    <3> QED
      BY <3>10, <3>11 DEF TrailInv
  <2>9. ASSUME ScheduleVisit(h) PROVE TrailInv'
    <3>1. TrailFrame(frame'[h])
      BY <1>v, <2>9, <2>b DEF ScheduleVisit, Asking, TrailFrame
    <3> QED
      BY <2>9, <2>e, <3>1 DEF ScheduleVisit, Begin, At, admissionVars
  <2>10. ASSUME CreateVisit(h) PROVE TrailInv'
    <3> DEFINE n == Len(visits) + 1
    <3>1. /\ frame[h] \in AdmissionFrames /\ frame[h].at = "visit.create"
          /\ frame[h].says = "sent" /\ frame[h].code # 0
      BY <2>10, <2>f, <1>g DEF CreateVisit, At, AdmissionSteps, TrailFrame
    <3>2. PICK user \in BOOLEAN : visits' = Append(visits,
              [status |-> "PENDING_SCHOOL_CONFIRMATION", code |-> frame[h].code, user |-> user])
      BY <2>10 DEF CreateVisit
    <3> DEFINE new == [status |-> "PENDING_SCHOOL_CONFIRMATION", code |-> frame[h].code,
                       user |-> user]
    <3>3. new \in VisitRow
      BY <3>1 DEF AdmissionFrames, VisitRow, VisitStatus
    <3> HIDE DEF new
    <3>4. /\ DOMAIN visits' = DOMAIN visits \cup {n}
          /\ \A i \in DOMAIN visits : visits'[i] = visits[i]
          /\ n \notin DOMAIN visits
      <4>1. /\ visits' \in Seq(VisitRow) /\ Len(visits') = n
            /\ \A i \in 1..Len(visits) : visits'[i] = visits[i]
        BY <1>t, <3>2, <3>3, AppendProperties DEF new
      <4>2. DOMAIN visits' = 1..n
        BY <4>1, LenProperties
      <4> QED
        BY <1>v, <4>1, <4>2
    <3>5. frame'[h] = [frame[h] EXCEPT !.at = "tell.school", !.row = n]
      BY <2>10, <2>b DEF CreateVisit
    <3>6. /\ UNCHANGED <<applications, notices, stale>>
      BY <2>10 DEF CreateVisit
    <3> HIDE DEF n
    <3>7. /\ frame'[h].at = "tell.school" /\ frame'[h].row = n
          /\ frame'[h].says = "sent" /\ frame'[h].code # 0
      BY <3>1, <3>5 DEF AdmissionFrames
    <3>8. \A about \in Subjects : \A i \in RowsOf(about) :
              i \in RowsOf(about)' /\ StatusOf(about, i)' = StatusOf(about, i)
      BY <3>4, <3>6 DEF RowsOf, StatusOf
    <3>9. \A k \in Handlers : TrailFrame(frame[k])'
      <4>1. TrailFrame(frame[h])'
        BY <3>4, <3>7 DEF TrailFrame, RowsOf, Matter
      <4>2. ASSUME NEW k \in Handlers \ {h} PROVE TrailFrame(frame[k])'
        <5>1. frame'[k] = frame[k] /\ TrailFrame(frame[k])
          BY <1>g, <2>w
        <5> QED
          BY <1>m, <2>w, <3>8, <5>1 DEF TrailFrame
      <4> QED
        BY <4>1, <4>2
    <3>10. \A about, i : Told(about, i)' = Told(about, i)
      BY <3>6, ToldSame
    <3>11. Told("visit", n) = {}
      BY <1>g, <3>4 DEF Told, NoticesFit, RowsOf
    <3>12. NoticesFit'
      BY <1>g, <1>n, <3>6, <3>8 DEF NoticesFit, Notice
    <3>13. ToldIsStatus'
      <4> SUFFICES ASSUME NEW about \in Subjects, Table(about) \notin stale,
                          NEW i \in RowsOf(about)'
                   PROVE  Told(about, i) \subseteq {StatusOf(about, i)'}
        BY <3>6, <3>10 DEF ToldIsStatus, Table
      <4>1. CASE i \in RowsOf(about)
        BY <1>g, <3>8, <4>1 DEF ToldIsStatus
      <4>2. CASE i \notin RowsOf(about)
        <5>1. about = "visit" /\ i = n
          BY <3>4, <3>6, <4>2 DEF RowsOf, Subjects
        <5> QED
          BY <3>11, <5>1
      <4> QED
        BY <4>1, <4>2
    <3>14. TrailsHold'
      BY <1>g, <3>6 DEF TrailsHold
    <3>15. DecisionsTold'
      <4>1. \A i : Telling(i) => Telling(i)'
        BY <2>w, <3>1, <3>6 DEF Telling
      <4> QED
        BY <1>g, <2>w, <3>6, <3>10, <4>1 DEF DecisionsTold
    <3> QED
      BY <3>9, <3>12, <3>13, <3>14, <3>15 DEF TrailInv
  <2>11. ASSUME FindPendingVisit(h) PROVE TrailInv'
    <3>1. PICK i \in DOMAIN visits, answer \in {"CONFIRMED", "REJECTED"} :
              Become(h, [Asking("visit.decide") EXCEPT
                  !.row = i, !.says = answer, !.code = visits[i].code])
      BY <2>11 DEF FindPendingVisit
    <3>2. visits[i].code # 0
      BY <1>v
    <3>3. TrailFrame(frame'[h])
      BY <2>b, <3>1, <3>2 DEF Asking, TrailFrame, Matter, RowsOf
    <3> QED
      BY <2>11, <2>e, <3>3 DEF FindPendingVisit, Begin, At, admissionVars
  <2>12. ASSUME DecideVisit(h) PROVE TrailInv'
    <3> DEFINE i == frame[h].row
    <3>1. /\ frame[h] \in AdmissionFrames /\ frame[h].at = "visit.decide" /\ TrailFrame(frame[h])
      BY <2>12, <2>f, <1>g DEF DecideVisit, At, AdmissionSteps
    <3>2. /\ frame[h].code # 0 /\ frame[h].says \in {"CONFIRMED", "REJECTED"}
          /\ i \in DOMAIN visits
      BY <3>1 DEF TrailFrame, Matter, RowsOf
    <3>3. frame'[h] = [frame[h] EXCEPT !.at = "tell.family"]
      BY <2>12, <2>b DEF DecideVisit, Goto
    <3>4. /\ frame'[h].at = "tell.family" /\ frame'[h].row = i
          /\ frame'[h].says = frame[h].says /\ frame'[h].code = frame[h].code
      BY <3>1, <3>3 DEF AdmissionFrames
    <3>5. /\ DOMAIN visits' = DOMAIN visits
          /\ \A j \in DOMAIN visits :
                 visits'[j].status = IF j = i THEN frame[h].says ELSE visits[j].status
      BY <1>v, <2>12, <3>2 DEF DecideVisit, VisitRow
    <3>6. UNCHANGED <<applications, notices>>
      BY <2>12 DEF DecideVisit
    <3>7. "visits" \notin stale' => visits[i].status = "PENDING_SCHOOL_CONFIRMATION"
      BY <2>12 DEF DecideVisit, Mark
    <3> HIDE DEF i
    <3>8. /\ NoticesFit' /\ ToldIsStatus' /\ DecisionsTold'
          /\ \A k \in Handlers : TrailFrame(frame[k])'
      <4>1. \A a \in Subjects : RowsOf(a)' = RowsOf(a)
        BY <3>5, <3>6 DEF RowsOf
      <4>2. \A a \in Subjects : \A j \in RowsOf(a) :
                StatusOf(a, j)' = IF a = "visit" /\ j = i THEN frame[h].says
                                                          ELSE StatusOf(a, j)
        BY <3>5, <3>6 DEF RowsOf, StatusOf, Subjects
      <4>3. /\ "visit" \in Subjects /\ i \in RowsOf("visit")
            /\ frame[h].says \in AnswersTo("visit") /\ Matter(frame'[h]) = "visit"
        BY <3>2, <3>4 DEF Subjects, RowsOf, AnswersTo, Matter, i
      <4>4. Table("visit") \notin stale' => StatusOf("visit", i) \notin AnswersTo("visit")
        BY <1>r, <3>7 DEF AnswersTo
      <4> QED
        BY <2>d, <3>1, <3>4, <3>6, <4>1, <4>2, <4>3, <4>4
    <3>9. TrailsHold'
      BY <1>g, <2>w, <3>6 DEF TrailsHold
    <3> QED
      BY <3>8, <3>9 DEF TrailInv
  \* A notice is read: what it says stays.
  <2>r. ASSUME UNCHANGED <<applications, visits>>, DOMAIN notices' = DOMAIN notices,
               \A j \in DOMAIN notices :
                   /\ notices'[j].to = notices[j].to /\ notices'[j].about = notices[j].about
                   /\ notices'[j].row = notices[j].row /\ notices'[j].says = notices[j].says,
               TrailFrame(frame'[h]), frame[h].at # "tell.family"
        PROVE  TrailInv'
    <3>1. \A about, i : Told(about, i)' = Told(about, i)
      BY <2>r, ToldSame
    <3>2. \A k \in Handlers : TrailFrame(frame[k])'
      <4>1. \A k \in Handlers : TrailFrame(frame'[k])
        BY <2>k, <2>r
      <4>2. \A k \in Handlers : TrailFrame(frame'[k]) => TrailFrame(frame[k])'
        BY <1>m, <1>s, <2>r, <2>w DEF TrailFrame
      <4> QED
        BY <4>1, <4>2
    <3>3. NoticesFit'
      BY <1>g, <2>r DEF NoticesFit, RowsOf
    <3>4. ToldIsStatus'
      BY <1>g, <2>r, <2>w, <3>1 DEF ToldIsStatus, RowsOf, StatusOf
    <3>5. TrailsHold'
      BY <1>g, <2>r, <2>w DEF TrailsHold
    <3>6. \A i : Telling(i) => Telling(i)'
      BY <2>r, <2>w DEF Telling
    <3>7. DecisionsTold'
      BY <1>g, <2>r, <2>w, <3>1, <3>6 DEF DecisionsTold
    <3> QED
      BY <3>2, <3>3, <3>4, <3>5, <3>7 DEF TrailInv
  <2>13. ASSUME FindNotice(h) PROVE TrailInv'
    <3>1. PICK i : Become(h, [Asking("notice.read") EXCEPT !.row = i])
      BY <2>13 DEF FindNotice
    <3>2. TrailFrame(frame'[h])
      BY <2>b, <3>1 DEF Asking, TrailFrame
    <3> QED
      BY <2>13, <2>e, <3>2 DEF FindNotice, Begin, At, admissionVars
  <2>14. ASSUME MarkRead(h) PROVE TrailInv'
    <3>1. /\ notices' = [notices EXCEPT ![frame[h].row].read = TRUE]
          /\ UNCHANGED <<applications, visits>> /\ TrailFrame(frame'[h])
          /\ frame[h].at # "tell.family"
      BY <2>14, <2>b, <2>i DEF MarkRead, Return, At
    <3>2. \A j \in DOMAIN notices :
              /\ notices'[j].to = notices[j].to /\ notices'[j].about = notices[j].about
              /\ notices'[j].row = notices[j].row /\ notices'[j].says = notices[j].says
      BY <1>n, <3>1 DEF Notice
    <3> QED
      BY <2>r, <3>1, <3>2
  <2>15. ASSUME MarkAllRead(h) PROVE TrailInv'
    <3>1. /\ notices' = [i \in DOMAIN notices |->
                            [notices[i] EXCEPT !.read = @ \/ notices[i].to = "family"]]
          /\ UNCHANGED <<applications, visits>> /\ TrailFrame(frame'[h])
          /\ frame[h].at # "tell.family"
      BY <2>15, <2>u DEF MarkAllRead, Serve, Begin
    <3>2. \A j \in DOMAIN notices :
              /\ notices'[j].to = notices[j].to /\ notices'[j].about = notices[j].about
              /\ notices'[j].row = notices[j].row /\ notices'[j].says = notices[j].says
      BY <1>n, <3>1 DEF Notice
    <3> QED
      BY <2>r, <3>1, <3>2
  <2>16. ASSUME AdmissionRefused(h) PROVE TrailInv'
    <3>1. /\ TrailFrame(frame'[h]) /\ frame[h].at # "tell.family"
          /\ UNCHANGED <<applications, visits, notices>>
      BY <2>16, <2>b, <2>i DEF AdmissionRefused, Return, At, admissionVars
    <3> QED
      BY <2>e, <3>1
  <2> QED
    BY <1>2, <2>1, <2>2, <2>3, <2>4, <2>5, <2>6, <2>7, <2>8, <2>9, <2>10, <2>11, <2>12, <2>13,
       <2>14, <2>15, <2>16
    DEF AdmissionStep
<1>3. (\E h \in Handlers : AdmissionStep(h) /\ ServedAt(h, AdmissionSteps))
          \/ (Untouched(AdmissionSteps) /\ UNCHANGED <<applications, visits, notices>>)
  BY StepCases, StepsDiffer, ServedElsewhere DEF admissionVars, SchoolChanges
<1> QED
  BY <1>1, <1>2, <1>3

-----------------------------------------------------------------------------
(* Pages.                                                                  *)

\* An order in which no two rows share a place.
LinearOn(order, ids) ==
    /\ \A i \in ids : <<i, i>> \in order
    /\ \A i, j \in ids : <<i, j>> \in order \/ <<j, i>> \in order
    /\ \A i, j \in ids : <<i, j>> \in order /\ <<j, i>> \in order => i = j
    /\ \A i, j, k \in ids : <<i, j>> \in order /\ <<j, k>> \in order => <<i, k>> \in order

\* No two conversations were last updated at the same time.
DatesApart ==
    list.name = "sessions" =>
        \A i \in DOMAIN rows :
            /\ rows[i].at <= clock
            /\ \A j \in DOMAIN rows : i # j => rows[i].at # rows[j].at

\* What a reader whose list did not shift has not seen is on the pages to come.
ReadsOn(h, f) ==
    /\ f.at = "list.page" => f.page >= 1
    /\ f.at = "list.page" /\ h \notin shifted =>
           \A i \in f.had : i \in ShownRows /\ (i \in f.seen \/ Place(i) > skip(f.page))
    /\ f.at = "list.done" /\ h \notin shifted => f.had \subseteq f.seen

PagesInv ==
    /\ DatesApart
    /\ \A h \in Handlers : ReadsOn(h, frame[h])

LEMMA PagesComplete == PagesInv => PagesMissNothing
BY DEF PagesInv, PagesMissNothing, ReadsOn, At

LEMMA NewestIsLinear ==
    ASSUME NEW ids \in SUBSET Nat PROVE LinearOn(NewestFirst(ids), ids)
<1>1. \A i, j \in ids : <<i, j>> \in NewestFirst(ids) <=> i >= j
  BY DEF NewestFirst
<1> QED
  BY <1>1 DEF LinearOn

\* The rows of every list are in a linear order.
LEMMA ShownIsLinear ==
    ASSUME rows \in Seq(Row), list.name \in ListName, DatesApart
    PROVE  LinearOn(Shown, ShownRows)
<1>r. /\ DOMAIN rows \subseteq Nat /\ \A i \in DOMAIN rows : rows[i].at \in Nat
  <2>1. DOMAIN rows = 1..Len(rows) /\ Len(rows) \in Nat
    BY LenProperties
  <2>2. \A i \in DOMAIN rows : rows[i] \in Row
    BY <2>1, ElementOfSeq
  <2> QED
    BY <2>1, <2>2 DEF Row
<1>p. Passing \subseteq There /\ There \subseteq DOMAIN rows
  BY DEF Passing, There
<1>1. ASSUME NEW ids, ids \subseteq DOMAIN rows, Shown = NewestFirst(ids)
      PROVE  LinearOn(Shown, ShownRows)
  <2>1. LinearOn(Shown, ids)
    BY <1>r, <1>1, NewestIsLinear
  <2>2. ShownRows \subseteq ids
    BY <1>1 DEF ShownRows, NewestFirst
  <2> QED
    BY <2>1, <2>2 DEF LinearOn
<1>2. CASE list.name \in {"applications", "users", "payments", "waitlist", "beta"}
  <2>1. Shown = NewestFirst(Passing)
    BY <1>2 DEF Shown, ListApplications, ViewUsers, ViewPayments, ListWaitlist, ListRequests
  <2> QED
    BY <1>1, <1>p, <2>1
<1>3. CASE list.name \in {"activity", "transactions"}
  <2>1. Shown = NewestFirst(There)
    BY <1>3 DEF Shown, ListAdminActivity, ListWalletTransactions
  <2> QED
    BY <1>1, <1>p, <2>1
<1>4. CASE list.name = "reviews"
  <2>1. Shown = NewestFirst({i \in There : rows[i].open})
    BY <1>4 DEF Shown, ListSchoolReviews
  <2> QED
    BY <1>1, <1>p, <2>1
<1>5. CASE list.name = "subscriptions"
  <2>1. Shown = NewestFirst(IF list.filter = "open" THEN {i \in Passing : ~rows[i].due}
                                                    ELSE Passing)
    BY <1>5 DEF Shown, ViewSubscriptions
  <2> QED
    BY <1>1, <1>p, <2>1
\* An order by a rank and, where it is the same, the newest first.
<1>l. ASSUME NEW ids, ids \subseteq DOMAIN rows, ShownRows \subseteq ids,
             NEW rank \in [ids -> Int],
             \A i, j \in ids : <<i, j>> \in Shown <=>
                 rank[i] < rank[j] \/ (rank[i] = rank[j] /\ i >= j)
      PROVE  LinearOn(Shown, ShownRows)
  <2>1. \A i \in ids : rank[i] \in Int /\ i \in Nat
    BY <1>l, <1>r
  <2>2. \A i \in ids : <<i, i>> \in Shown
    BY <1>l, <2>1
  <2>3. ASSUME NEW i \in ids, NEW j \in ids PROVE <<i, j>> \in Shown \/ <<j, i>> \in Shown
    <3>1. /\ rank[i] < rank[j] \/ (rank[i] = rank[j] /\ i >= j) => <<i, j>> \in Shown
          /\ rank[j] < rank[i] \/ (rank[j] = rank[i] /\ j >= i) => <<j, i>> \in Shown
      BY <1>l
    <3>2. rank[i] \in Int /\ rank[j] \in Int /\ i \in Nat /\ j \in Nat
      BY <2>1
    <3> QED
      BY <3>1, <3>2
  <2>4. \A i, j \in ids : <<i, j>> \in Shown /\ <<j, i>> \in Shown => i = j
    BY <1>l, <2>1
  <2>5. \A i, j, k \in ids : <<i, j>> \in Shown /\ <<j, k>> \in Shown => <<i, k>> \in Shown
    BY <1>l, <2>1
  <2> QED
    BY <1>l, <2>2, <2>3, <2>4, <2>5 DEF LinearOn
<1>6. CASE list.name = "schools"
  <2> DEFINE date == [i \in Passing |-> rows[i].at]
  <2>1. Shown = ViewSchools
    BY <1>6 DEF Shown
  <2>2. ShownRows \subseteq Passing
    BY <2>1 DEF ShownRows, ViewSchools
  <2>3. \A i, j \in Passing : <<i, j>> \in Shown <=>
            \/ date[i] = 0 /\ date[j] # 0
            \/ date[j] # 0 /\ date[i] > date[j]
            \/ date[i] = date[j] /\ i >= j
    BY <2>1 DEF ViewSchools
  <2>4. \A i \in Passing : date[i] \in Nat /\ i \in Nat
    BY <1>r, <1>p
  <2> HIDE DEF date
  <2>5. \A i \in Passing : <<i, i>> \in Shown
    BY <2>3, <2>4
  <2>6. ASSUME NEW i \in Passing, NEW j \in Passing
        PROVE  <<i, j>> \in Shown \/ <<j, i>> \in Shown
    <3>1. /\ (\/ date[i] = 0 /\ date[j] # 0
              \/ date[j] # 0 /\ date[i] > date[j]
              \/ date[i] = date[j] /\ i >= j) => <<i, j>> \in Shown
          /\ (\/ date[j] = 0 /\ date[i] # 0
              \/ date[i] # 0 /\ date[j] > date[i]
              \/ date[j] = date[i] /\ j >= i) => <<j, i>> \in Shown
      BY <2>3
    <3>2. date[i] \in Nat /\ date[j] \in Nat /\ i \in Nat /\ j \in Nat
      BY <2>4
    <3> QED
      BY <3>1, <3>2
  <2>7. \A i, j \in Passing : <<i, j>> \in Shown /\ <<j, i>> \in Shown => i = j
    BY <2>3, <2>4
  <2>8. \A i, j, k \in Passing : <<i, j>> \in Shown /\ <<j, k>> \in Shown => <<i, k>> \in Shown
    BY <2>3, <2>4
  <2> QED
    BY <2>2, <2>5, <2>6, <2>7, <2>8 DEF LinearOn
<1>7. CASE list.name = "schoolVisits"
  <2> DEFINE rank == [i \in Passing |-> rows[i].at]
  <2>1. Shown = ListSchoolConciergeVisits
    BY <1>7 DEF Shown
  <2>2. ShownRows \subseteq Passing
    BY <2>1 DEF ShownRows, ListSchoolConciergeVisits
  <2>3. \A i, j \in Passing : <<i, j>> \in Shown <=>
            rows[i].at < rows[j].at \/ (rows[i].at = rows[j].at /\ i >= j)
    BY <2>1 DEF ListSchoolConciergeVisits
  <2>4. rank \in [Passing -> Int]
    BY <1>r, <1>p
  <2>5. \A i, j \in Passing : <<i, j>> \in Shown <=>
            rank[i] < rank[j] \/ (rank[i] = rank[j] /\ i >= j)
    BY <1>r, <1>p, <2>3
  <2> HIDE DEF rank
  <2> QED
    BY <1>l, <1>p, <2>2, <2>4, <2>5
<1>8. CASE list.name = "myVisits"
  <2> DEFINE rank == [i \in There |-> 0 - rows[i].at]
  <2>1. Shown = ListMyConciergeVisits
    BY <1>8 DEF Shown
  <2>2. ShownRows \subseteq There
    BY <2>1 DEF ShownRows, ListMyConciergeVisits
  <2>3. \A i, j \in There : <<i, j>> \in Shown <=>
            rows[i].at > rows[j].at \/ (rows[i].at = rows[j].at /\ i >= j)
    BY <2>1 DEF ListMyConciergeVisits
  <2>4. rank \in [There -> Int]
    BY <1>r, <1>p
  <2>5. ASSUME NEW i \in There, NEW j \in There
        PROVE  <<i, j>> \in Shown <=> rank[i] < rank[j] \/ (rank[i] = rank[j] /\ i >= j)
    <3>1. /\ rank[i] = 0 - rows[i].at /\ rows[i].at \in Nat
          /\ rank[j] = 0 - rows[j].at /\ rows[j].at \in Nat
      BY <1>r, <1>p
    <3> HIDE DEF rank
    <3>2. /\ rank[i] < rank[j] <=> rows[i].at > rows[j].at
          /\ rank[i] = rank[j] <=> rows[i].at = rows[j].at
      BY <3>1
    <3> QED
      BY <2>3, <3>2
  <2> HIDE DEF rank
  <2> QED
    BY <1>l, <1>p, <2>2, <2>4, <2>5
<1>9. CASE list.name = "sessions"
  <2>1. Shown = ListSessions
    BY <1>9 DEF Shown
  <2>2. ShownRows \subseteq There
    BY <2>1 DEF ShownRows, ListSessions
  <2>3. \A i, j \in There : <<i, j>> \in Shown <=> rows[i].at >= rows[j].at
    BY <2>1 DEF ListSessions
  <2>4. \A i, j \in There : i # j => rows[i].at # rows[j].at
    BY <1>9, <1>p DEF DatesApart
  <2> QED
    BY <1>r, <1>p, <2>2, <2>3, <2>4 DEF LinearOn
<1> QED
  BY <1>2, <1>3, <1>4, <1>5, <1>6, <1>7, <1>8, <1>9 DEF ListName

Before(i) == {j \in ShownRows : <<j, i>> \in Shown}

\* Every row has a place, and no two the same.
LEMMA Places ==
    ASSUME IsFiniteSet(ShownRows), LinearOn(Shown, ShownRows)
    PROVE  /\ \A i \in ShownRows : Place(i) \in Nat /\ Place(i) >= 1
           /\ \A i, j \in ShownRows : <<i, j>> \in Shown => Place(i) <= Place(j)
           /\ \A i, j \in ShownRows : Place(i) = Place(j) => i = j
<1>1. \A i : Place(i) = Cardinality(Before(i))
  BY DEF Place, Before
<1>2. \A i : Before(i) \subseteq ShownRows
  BY DEF Before
<1>3. \A i : IsFiniteSet(Before(i)) /\ Cardinality(Before(i)) \in Nat
  BY <1>2, FS_Subset, FS_CardinalityType
<1>4. \A i \in ShownRows : i \in Before(i)
  BY DEF Before, LinearOn
<1>5. \A i \in ShownRows : Place(i) \in Nat /\ Place(i) >= 1
  <2>1. \A i \in ShownRows : Cardinality(Before(i)) # 0
    BY <1>3, <1>4, FS_EmptySet
  <2> QED
    BY <1>1, <1>3, <2>1
<1>6. ASSUME NEW i \in ShownRows, NEW j \in ShownRows, <<i, j>> \in Shown
      PROVE  /\ Place(i) <= Place(j)
             /\ Place(i) = Place(j) => i = j
  <2>1. Before(i) \subseteq Before(j)
    BY <1>6 DEF Before, LinearOn
  <2>2. /\ Cardinality(Before(i)) <= Cardinality(Before(j))
        /\ Cardinality(Before(i)) = Cardinality(Before(j)) => Before(i) = Before(j)
    BY <1>3, <2>1, FS_Subset
  <2>3. Before(i) = Before(j) => i = j
    BY <1>4, <1>6 DEF Before, LinearOn
  <2> QED
    BY <1>1, <2>2, <2>3
<1>7. \A i, j \in ShownRows : Place(i) = Place(j) => i = j
  BY <1>6 DEF LinearOn
<1> QED
  BY <1>5, <1>6, <1>7

\* After a page that is short there is no row.
LEMMA ShortPageIsLast ==
    ASSUME IsFiniteSet(ShownRows), LinearOn(Shown, ShownRows),
           NEW before \in Nat, NEW size \in Nat, NEW items,
           items = {i \in ShownRows : Place(i) \in (before + 1)..(before + size)},
           Cardinality(items) < size
    PROVE  \A k \in ShownRows : Place(k) <= before + size
<1> SUFFICES ASSUME NEW k \in ShownRows, ~(Place(k) <= before + size) PROVE FALSE
  OBVIOUS
<1>1. /\ \A i \in ShownRows : Place(i) \in Nat /\ Place(i) >= 1
      /\ \A i, j \in ShownRows : <<i, j>> \in Shown => Place(i) <= Place(j)
      /\ \A i, j \in ShownRows : Place(i) = Place(j) => i = j
  BY Places
<1> DEFINE n == Place(k)
           f == [i \in Before(k) |-> Place(i)]
           g == [i \in items |-> Place(i)]
<1>2. n \in Nat /\ n > before + size /\ Before(k) \subseteq ShownRows /\ n = Cardinality(Before(k))
  BY <1>1 DEF Before, Place
<1>3. f \in Injection(Before(k), 1..n)
  <2>1. \A i \in Before(k) : Place(i) \in 1..n
    BY <1>1, <1>2 DEF Before
  <2>2. f \in [Before(k) -> 1..n]
    BY <2>1
  <2> QED
    BY <1>1, <1>2, <2>2 DEF Injection, IsInjective
<1>4. f \in Surjection(Before(k), 1..n)
  <2>1. IsFiniteSet(1..n) /\ Cardinality(1..n) = n
    BY <1>2, FS_Interval
  <2> QED
    BY <1>2, <1>3, <2>1, FS_Injection
<1>5. \A m \in 1..n : \E i \in ShownRows : Place(i) = m
  BY <1>2, <1>4 DEF Surjection
<1> HIDE DEF n
<1>6. \A m \in (before + 1)..(before + size) : \E i \in items : Place(i) = m
  BY <1>2, <1>5
<1>7. g \in Surjection(items, (before + 1)..(before + size))
  BY <1>6 DEF Surjection
<1>8. IsFiniteSet(items)
  BY FS_Subset
<1>9. Cardinality((before + 1)..(before + size)) = size
  BY FS_Interval
<1>10. Cardinality(items) \in Nat /\ size <= Cardinality(items)
  BY <1>7, <1>8, <1>9, FS_Surjection, FS_CardinalityType
<1> QED
  BY <1>10

\* Where no row left its place among the others, every place is where it was or later.
LEMMA PlacesGrow ==
    ASSUME IsFiniteSet(ShownRows), IsFiniteSet(ShownRows'), DOMAIN rows \subseteq DOMAIN rows', ~Shifts
    PROVE  /\ ShownRows \subseteq ShownRows'
           /\ \A i \in ShownRows : /\ Place(i) \in Nat /\ Place(i)' \in Nat
                                   /\ Place(i) <= Place(i)'
<1>1. ShownRows \subseteq ShownRows'
  BY DEF ShownRows, Shifts
<1>2. ASSUME NEW i PROVE Before(i) \subseteq Before(i)' /\ Before(i)' \subseteq ShownRows'
  BY <1>1 DEF Before, Shifts
<1>3. \A i : Place(i) = Cardinality(Before(i)) /\ Place(i)' = Cardinality(Before(i)')
  BY DEF Place, Before
<1>4. ASSUME NEW i
      PROVE  /\ IsFiniteSet(Before(i)') /\ Cardinality(Before(i)) <= Cardinality(Before(i)')
             /\ Cardinality(Before(i)) \in Nat /\ Cardinality(Before(i)') \in Nat
  <2>1. IsFiniteSet(Before(i)')
    BY <1>2, FS_Subset
  <2>2. IsFiniteSet(Before(i)) /\ Cardinality(Before(i)) <= Cardinality(Before(i)')
    BY <1>2, <2>1, FS_Subset
  <2> QED
    BY <2>1, <2>2, FS_CardinalityType
<1> QED
  BY <1>1, <1>3, <1>4

\* A page begins where the one before it ends.
LEMMA PageAfterPage ==
    ASSUME NEW p \in Nat, p >= 1, PageSize \in Nat
    PROVE  skip(p) \in Nat /\ skip(p + 1) = skip(p) + PageSize
<1>1. PICK n \in Nat : p = n + 1
  <2>1. p - 1 \in Nat /\ p = (p - 1) + 1
    OBVIOUS
  <2> QED
    BY <2>1
<1>2. (p - 1) = n /\ (p + 1) - 1 = n + 1
  BY <1>1
<1>3. n * PageSize \in Nat /\ (n + 1) * PageSize = n * PageSize + PageSize
  BY <1>1
<1>4. skip(p) = n * PageSize /\ skip(p + 1) = (n + 1) * PageSize
  BY <1>2, Zenon DEF skip
<1> QED
  BY <1>3, <1>4

\* The list and the tables as they are.
LEMMA ListHolds ==
    ASSUME TInv
    PROVE  /\ rows \in Seq(Row) /\ DOMAIN rows = 1..Len(rows) /\ Len(rows) \in Nat
           /\ list \in [name : ListName, filter : Filter] /\ clock \in Nat
           /\ IsFiniteSet(ShownRows)
           /\ PageSize \in Nat \ {0}
<1>1. /\ rows \in Seq(Row) /\ DOMAIN rows = 1..Len(rows) /\ Len(rows) \in Nat
      /\ list \in [name : ListName, filter : Filter] /\ clock \in Nat
  BY LenProperties DEF TInv, TypeOK, ListTypeOK
<1>2. IsFiniteSet(1..Len(rows)) /\ ShownRows \subseteq 1..Len(rows)
  BY <1>1, FS_Interval DEF ShownRows
<1>3. IsFiniteSet(ShownRows)
  BY <1>2, FS_Subset
<1> QED
  BY <1>1, <1>3, ListsAssumption

LEMMA PagesInvInit == Init => PagesInv
<1> SUFFICES ASSUME Init PROVE PagesInv
  OBVIOUS
<1>1. \A h \in Handlers : ReadsOn(h, frame[h])
  BY DEF Init, RequestsInit, Idle, ReadsOn
<1>2. DatesApart
  <2> SUFFICES ASSUME list.name = "sessions"
               PROVE  \A i \in DOMAIN rows :
                          /\ rows[i].at <= clock
                          /\ \A j \in DOMAIN rows : i # j => rows[i].at # rows[j].at
    BY DEF DatesApart
  <2>1. "list" \in agenda /\ clock = 3
    BY DEF Init, ListInit, NoList
  <2>2. rows = [i \in 1..3 |-> NewRow(i)]
    BY <2>1 DEF Init, ListInit
  <2>3. DOMAIN rows = 1..3 /\ \A i \in 1..3 : rows[i].at = i
    BY <2>2 DEF NewRow
  <2> QED
    BY <2>1, <2>3
<1> QED
  BY <1>1, <1>2 DEF PagesInv

LEMMA PagesInvStep == TInv /\ TInv' /\ PagesInv /\ [Next]_vars => PagesInv'
<1> SUFFICES ASSUME TInv, TInv', PagesInv, [Next]_vars PROVE PagesInv'
  OBVIOUS
<1> USE DEF AllSteps
<1>t. /\ rows \in Seq(Row) /\ DOMAIN rows = 1..Len(rows) /\ Len(rows) \in Nat
      /\ rows' \in Seq(Row) /\ DOMAIN rows' = 1..Len(rows') /\ Len(rows') \in Nat
      /\ list.name \in ListName /\ clock \in Nat
      /\ IsFiniteSet(ShownRows) /\ IsFiniteSet(ShownRows')
      /\ PageSize \in Nat /\ PageSize >= 1
  <2>1. /\ rows \in Seq(Row) /\ DOMAIN rows = 1..Len(rows) /\ Len(rows) \in Nat
        /\ list \in [name : ListName, filter : Filter] /\ clock \in Nat
        /\ IsFiniteSet(ShownRows) /\ PageSize \in Nat \ {0}
    BY ListHolds
  <2>2. rows' \in Seq(Row) /\ DOMAIN rows' = 1..Len(rows') /\ Len(rows') \in Nat
    BY LenProperties DEF TInv, TypeOK, ListTypeOK
  <2>3. IsFiniteSet(1..Len(rows')) /\ ShownRows' \subseteq 1..Len(rows')
    BY <2>2, FS_Interval DEF ShownRows
  <2>4. IsFiniteSet(ShownRows')
    BY <2>3, FS_Subset
  <2> QED
    BY <2>1, <2>2, <2>4
<1>f. \A h \in Handlers : frame[h] \in AllFrames
  BY DEF TInv, TypeOK, AllFrames
<1>n. \A i \in DOMAIN rows : rows[i] \in Row
  BY <1>t, ElementOfSeq
<1>g. DatesApart /\ \A h \in Handlers : ReadsOn(h, frame[h])
  BY DEF PagesInv
<1>l. LinearOn(Shown, ShownRows)
  BY <1>t, <1>g, ShownIsLinear
\* The list stays: so does what a reader holds of it.
<1>s. ASSUME UNCHANGED <<list, rows>>, NEW k \in Handlers, NEW f, f = frame'[k], ReadsOn(k, f),
             k \notin shifted' => k \notin shifted
      PROVE  ReadsOn(k, frame[k])'
  <2>1. \A i : Place(i)' = Place(i)
    BY <1>s DEF Place, ShownRows, Shown, ListApplications, ViewUsers, ViewPayments, ListWaitlist,
        ListRequests, ListAdminActivity, ListWalletTransactions, ListSchoolReviews,
        ViewSubscriptions, ViewSchools, ListSchoolConciergeVisits, ListMyConciergeVisits,
        ListSessions, Passing, There, NewestFirst
  <2>2. ShownRows' = ShownRows
    BY <1>s DEF ShownRows, Shown, ListApplications, ViewUsers, ViewPayments, ListWaitlist,
        ListRequests, ListAdminActivity, ListWalletTransactions, ListSchoolReviews,
        ViewSubscriptions, ViewSchools, ListSchoolConciergeVisits, ListMyConciergeVisits,
        ListSessions, Passing, There, NewestFirst
  <2> QED
    BY <1>s, <2>1, <2>2 DEF ReadsOn, skip
<1>1. ASSUME Untouched(ListSteps), UNCHANGED listVars PROVE PagesInv'
  <2>1. DatesApart'
    BY <1>1, <1>g DEF DatesApart, listVars
  <2>2. \A k \in Handlers : ReadsOn(k, frame'[k])
    BY <1>1, <1>g DEF Untouched, ListSteps, ReadsOn
  <2>3. \A k \in Handlers : ReadsOn(k, frame[k])'
    BY <1>1, <1>s, <2>2 DEF listVars
  <2> QED
    BY <2>1, <2>3 DEF PagesInv
<1>2. ASSUME NEW h \in Handlers, ListStep(h), ServedAt(h, ListSteps) PROVE PagesInv'
  <2>f. frame[h].at \in ListSteps => frame[h] \in ListFrames
    BY <1>f, FrameOfStep
  <2>b. \A f : Become(h, f) => frame'[h] = f
    BY DEF Become, TInv, TypeOK
  <2>w. \A k \in Handlers \ {h} : frame'[k] = frame[k]
    BY <1>2 DEF ServedAt
  \* A row is written.
  <2>r. ASSUME frame' = frame, Written, DOMAIN rows \subseteq DOMAIN rows', DatesApart'
        PROVE  PagesInv'
    <3> SUFFICES ASSUME NEW k \in Handlers PROVE ReadsOn(k, frame[k])'
      BY <2>r DEF PagesInv
    <3>1. CASE frame[k].at \notin ListSteps
      BY <2>r, <3>1 DEF ReadsOn, ListSteps
    <3>2. CASE frame[k].at \in ListSteps /\ Shifts
      <4>1. k \in shifted'
        BY <2>r, <3>2 DEF Written, At, ListSteps
      <4> QED
        BY <1>g, <2>r, <4>1 DEF ReadsOn
    <3>3. CASE frame[k].at \in ListSteps /\ ~Shifts
      <4>1. shifted' = shifted
        BY <2>r, <3>3 DEF Written
      <4>2. /\ ShownRows \subseteq ShownRows'
            /\ \A i \in ShownRows : /\ Place(i) \in Nat /\ Place(i)' \in Nat
                                    /\ Place(i) <= Place(i)'
        BY <1>t, <2>r, <3>3, PlacesGrow
      <4>3. ReadsOn(k, frame[k]) /\ frame[k] \in ListFrames
        BY <1>f, <1>g, <3>3, FrameOfStep
      <4>4. frame[k].at = "list.page" => skip(frame[k].page) \in Nat
        BY <1>t, <4>3 DEF ReadsOn, ListFrames, skip
      <4> QED
        BY <2>r, <4>1, <4>2, <4>3, <4>4 DEF ReadsOn, skip
    <3> QED
      BY <3>1, <3>2, <3>3
  \* The table as it is, and the reader reads on.
  <2>p. ASSUME UNCHANGED <<list, rows, clock>>, shifted \ {h} \subseteq shifted',
               ReadsOn(h, frame'[h]), h \notin shifted' => h \notin shifted
        PROVE  PagesInv'
    <3>1. DatesApart'
      BY <1>g, <2>p DEF DatesApart
    <3>2. ReadsOn(h, frame[h])'
      BY <1>s, <2>p
    <3>3. ASSUME NEW k \in Handlers \ {h} PROVE ReadsOn(k, frame[k])'
      BY <1>g, <1>s, <2>p, <2>w
    <3> QED
      BY <3>1, <3>2, <3>3 DEF PagesInv
  <2>1. ASSUME InsertRow(h) PROVE PagesInv'
    <3>1. PICK date \in FirstDates : rows' = Append(rows, NewRow(date))
      BY <2>1 DEF InsertRow
    <3>2. /\ DOMAIN rows' = DOMAIN rows \cup {Len(rows) + 1}
          /\ \A i \in DOMAIN rows : rows'[i] = rows[i]
          /\ rows'[Len(rows) + 1] = NewRow(date)
      <4>1. NewRow(date) \in Row
        BY <1>t, <3>1 DEF FirstDates, NewRow, Row
      <4>2. /\ Len(rows') = Len(rows) + 1 /\ \A i \in 1..Len(rows) : rows'[i] = rows[i]
            /\ rows'[Len(rows) + 1] = NewRow(date)
        BY <1>t, <3>1, <4>1, AppendProperties
      <4> QED
        BY <1>t, <4>2
    <3>3. clock' = clock + 1 /\ list' = list
      BY <2>1 DEF InsertRow, Written
    <3>4. DatesApart'
      <4> SUFFICES ASSUME list.name = "sessions"
                   PROVE  \A i \in DOMAIN rows' :
                              /\ rows'[i].at <= clock'
                              /\ \A j \in DOMAIN rows' : i # j => rows'[i].at # rows'[j].at
        BY <3>3 DEF DatesApart
      <4>1. rows'[Len(rows) + 1].at = clock + 1
        <5>1. FirstDates = {clock + 1}
          BY DEF FirstDates, Dated
        <5> QED
          BY <3>1, <3>2, <5>1 DEF NewRow
      <4>2. \A i \in DOMAIN rows : rows[i].at \in Nat /\ rows[i].at <= clock
        BY <1>g, <1>n DEF DatesApart, Row
      <4>3. \A i, j \in DOMAIN rows : i # j => rows[i].at # rows[j].at
        BY <1>g DEF DatesApart
      <4>4. \A i \in DOMAIN rows : rows'[i].at \in Nat /\ rows'[i].at <= clock
        BY <3>2, <4>2
      <4>5. \A i, j \in DOMAIN rows : i # j => rows'[i].at # rows'[j].at
        BY <3>2, <4>3
      <4>6. \A i \in DOMAIN rows : rows'[Len(rows) + 1].at # rows'[i].at
        BY <1>t, <4>1, <4>4
      <4>7. ASSUME NEW i \in DOMAIN rows', NEW j \in DOMAIN rows', i # j
            PROVE  rows'[i].at # rows'[j].at
        BY <3>2, <4>5, <4>6, <4>7
      <4>8. \A i \in DOMAIN rows' : rows'[i].at <= clock'
        <5>1. \A i \in DOMAIN rows : rows'[i].at <= clock + 1
          BY <1>t, <4>4
        <5>2. rows'[Len(rows) + 1].at <= clock + 1
          BY <1>t, <4>1
        <5> QED
          BY <3>2, <3>3, <5>1, <5>2
      <4> QED
        BY <4>7, <4>8
    <3> QED
      BY <2>1, <2>r, <3>2, <3>4 DEF InsertRow, Serve
  <2>2. ASSUME ChangeStatus(h) PROVE PagesInv'
    <3>1. PICK i \in There :
              \/ rows' = [rows EXCEPT ![i].open = FALSE]
              \/ rows' = [rows EXCEPT ![i].open = TRUE]
              \/ rows' = [rows EXCEPT ![i].due = TRUE]
      BY <2>2 DEF ChangeStatus
    <3>2. DOMAIN rows' = DOMAIN rows /\ \A j \in DOMAIN rows : rows'[j].at = rows[j].at
      BY <1>n, <3>1 DEF Row
    <3>3. UNCHANGED <<list, clock>>
      BY <2>2 DEF ChangeStatus, Written
    <3>4. DatesApart'
      BY <1>g, <3>2, <3>3 DEF DatesApart
    <3> QED
      BY <2>2, <2>r, <3>2, <3>4 DEF ChangeStatus, Serve
  <2>3. ASSUME MoveRow(h) PROVE PagesInv'
    <3>1. PICK i \in There : rows' = [rows EXCEPT ![i].at = clock + 1]
      BY <2>3 DEF MoveRow
    <3>2. DOMAIN rows' = DOMAIN rows /\ i \in DOMAIN rows
          /\ \A j \in DOMAIN rows : rows'[j].at = IF j = i THEN clock + 1 ELSE rows[j].at
      BY <1>n, <3>1 DEF Row, There
    <3>3. list' = list /\ clock' = clock + 1
      BY <2>3 DEF MoveRow, Written
    <3>4. DatesApart'
      <4> SUFFICES ASSUME list.name = "sessions", NEW j \in DOMAIN rows
                   PROVE  /\ rows'[j].at <= clock'
                          /\ \A k \in DOMAIN rows : j # k => rows'[j].at # rows'[k].at
        BY <3>2, <3>3 DEF DatesApart
      <4>1. \A k \in DOMAIN rows : rows[k].at \in Nat /\ rows[k].at <= clock
        BY <1>g, <1>n DEF DatesApart, Row
      <4>2. \A k \in DOMAIN rows : j # k => rows[j].at # rows[k].at
        BY <1>g DEF DatesApart
      <4> QED
        BY <1>t, <3>2, <3>3, <4>1, <4>2
    <3> QED
      BY <2>3, <2>r, <3>2, <3>4 DEF MoveRow, Serve
  <2>4. ASSUME DeleteRow(h) PROVE PagesInv'
    <3>1. PICK i \in There : rows' = [rows EXCEPT ![i].there = FALSE]
      BY <2>4 DEF DeleteRow
    <3>2. DOMAIN rows' = DOMAIN rows /\ \A j \in DOMAIN rows : rows'[j].at = rows[j].at
      BY <1>n, <3>1 DEF Row
    <3>3. UNCHANGED <<list, clock>>
      BY <2>4 DEF DeleteRow, Written
    <3>4. DatesApart'
      BY <1>g, <3>2, <3>3 DEF DatesApart
    <3> QED
      BY <2>4, <2>r, <3>2, <3>4 DEF DeleteRow, Serve
  <2>5. ASSUME StartReading(h) PROVE PagesInv'
    <3>1. frame'[h] = [at |-> "list.page", page |-> 1, seen |-> {}, had |-> ShownRows]
      BY <2>5, <2>b DEF StartReading
    <3>2. /\ UNCHANGED <<list, rows, clock>> /\ shifted' = shifted \ {h}
      BY <2>5 DEF StartReading
    <3>3. \A i \in ShownRows : Place(i) \in Nat /\ Place(i) >= 1
      BY <1>t, <1>l, Places
    <3>4. skip(1) = 0
      BY <1>t DEF skip
    <3>5. DatesApart'
      BY <1>g, <3>2 DEF DatesApart
    <3>6. ASSUME NEW k \in Handlers \ {h} PROVE ReadsOn(k, frame[k])'
      BY <1>g, <1>s, <2>w, <3>2
    <3>7. ReadsOn(h, frame[h])'
      <4>1. /\ frame'[h].at = "list.page" /\ frame'[h].page = 1 /\ frame'[h].had = ShownRows
        BY <3>1
      <4>2. ShownRows' = ShownRows /\ \A i : Place(i)' = Place(i)
        BY <3>2 DEF Place, ShownRows, Shown, ListApplications, ViewUsers, ViewPayments,
            ListWaitlist, ListRequests, ListAdminActivity, ListWalletTransactions,
            ListSchoolReviews, ViewSubscriptions, ViewSchools, ListSchoolConciergeVisits,
            ListMyConciergeVisits, ListSessions, Passing, There, NewestFirst
      <4> QED
        BY <3>3, <3>4, <4>1, <4>2 DEF ReadsOn, skip
    <3> QED
      BY <3>5, <3>6, <3>7 DEF PagesInv
  <2>6. ASSUME ReadPage(h) PROVE PagesInv'
    <3> DEFINE f == frame[h]
               before == skip(f.page)
               items == {i \in ShownRows : Place(i) \in (before + 1)..(before + PageSize)}
    <3>1. f \in ListFrames /\ f.at = "list.page" /\ ReadsOn(h, f)
      BY <1>g, <2>6, <2>f DEF ReadPage, At, ListSteps
    <3>2. frame'[h] = [f EXCEPT !.at = IF Cardinality(items) < PageSize THEN "list.done" ELSE @,
                                !.page = @ + 1, !.seen = @ \cup items]
      BY <2>6, <2>b DEF ReadPage
    <3>3. /\ frame'[h].at = IF Cardinality(items) < PageSize THEN "list.done" ELSE "list.page"
          /\ frame'[h].page = f.page + 1 /\ frame'[h].seen = f.seen \cup items
          /\ frame'[h].had = f.had
      BY <3>1, <3>2 DEF ListFrames
    <3>4. f.page \in Nat /\ f.page >= 1
      BY <3>1 DEF ListFrames, ReadsOn
    <3>5. before \in Nat /\ skip(f.page + 1) = before + PageSize
      BY <1>t, <3>4, PageAfterPage
    <3>6. \A i \in ShownRows : Place(i) \in Nat
      BY <1>t, <1>l, Places
    <3>7. Cardinality(items) < PageSize => \A i \in ShownRows : Place(i) <= before + PageSize
      BY <1>t, <1>l, <3>5, ShortPageIsLast
    <3>8. ASSUME h \notin shifted, NEW i \in f.had
          PROVE  i \in ShownRows /\ (i \in f.seen \cup items \/ Place(i) > before + PageSize)
      BY <1>t, <3>1, <3>5, <3>6, <3>8 DEF ReadsOn
    <3> HIDE DEF f, before, items
    <3>9. ReadsOn(h, frame'[h])
      <4>1. CASE Cardinality(items) < PageSize
        <5>1. ASSUME h \notin shifted, NEW i \in f.had PROVE i \in f.seen \cup items
          BY <1>t, <3>5, <3>6, <3>7, <3>8, <4>1, <5>1
        <5> QED
          BY <3>3, <4>1, <5>1 DEF ReadsOn
      <4>2. CASE ~(Cardinality(items) < PageSize)
        BY <3>3, <3>4, <3>5, <3>8, <4>2 DEF ReadsOn
      <4> QED
        BY <4>1, <4>2
    <3> QED
      BY <2>6, <2>p, <3>9 DEF ReadPage, listVars
  <2>7. ASSUME StopReading(h) PROVE PagesInv'
    <3>1. ReadsOn(h, frame'[h])
      BY <2>7, <2>b DEF StopReading, Return, Idle, ReadsOn
    <3> QED
      BY <2>7, <2>p, <3>1 DEF StopReading, listVars
  <2> QED
    BY <1>2, <2>1, <2>2, <2>3, <2>4, <2>5, <2>6, <2>7 DEF ListStep
<1>3. (\E h \in Handlers : ListStep(h) /\ ServedAt(h, ListSteps))
          \/ (Untouched(ListSteps) /\ UNCHANGED listVars)
  BY StepCases, StepsDiffer, ServedElsewhere
<1> QED
  BY <1>1, <1>2, <1>3
-----------------------------------------------------------------------------
(* What holds of every behaviour.                                          *)

\* The inductive invariant: the types, and for each part what its requests hold
\* of the rows they have read.
IInv ==
    /\ TInv /\ BetaInv /\ AccountInv /\ PlanInv /\ ReviewsAreAsLastAsked
    /\ ConversationInv /\ ResultsInv /\ TrailInv /\ PagesInv

\* The invariant holds at first and every step keeps it.
LEMMA IInvHolds == Spec => []IInv
<1>1. Init => IInv
  BY TypeInit, BetaInvInit, AccountInvInit, PlanInvInit, ReviewsInit, ConversationInvInit,
     ResultsInvInit, TrailInvInit, PagesInvInit DEF IInv
<1>2. IInv /\ [Next]_vars => IInv'
  <2> SUFFICES ASSUME IInv, [Next]_vars PROVE IInv'
    OBVIOUS
  <2>1. TInv /\ TInv'
    BY TypeStep DEF IInv
  <2> QED
    BY <2>1, BetaInvStep, AccountInvStep, PlanInvStep, ReviewsStep, ConversationInvStep,
       ResultsInvStep, TrailInvStep, PagesInvStep DEF IInv
<1> QED
  BY <1>1, <1>2, PTL DEF Spec

(***************************************************************************)
(* Wrong guesses of a code are bounded by its attempts and one more for    *)
(* each request served with it, and the testers of a kind by their seats   *)
(* unless two were let in on one count, for every number of requests.      *)
(***************************************************************************)
THEOREM LimitsAreKept == Spec => []LimitsHold
<1>1. IInv => LimitsHold
  BY GuessesAreAttempts DEF IInv, BetaInv, LimitsHold
<1> QED
  BY <1>1, IInvHolds, PTL

(***************************************************************************)
(* The rows of users, testers' rulings, the plan, the reviews and the      *)
(* conversation are what was last asked of them, whatever else is served,  *)
(* unless a request saved a copy that was out of date.                     *)
(***************************************************************************)
THEOREM RowsFollowTheRequests == Spec => []RowsAreAsLastAsked
<1>1. IInv => RowsAreAsLastAsked
  BY PlanAsAsked, ConversationAsAsked DEF IInv, BetaInv, AccountInv, RowsAreAsLastAsked
<1> QED
  BY <1>1, IInvHolds, PTL

(***************************************************************************)
(* The schools a conversation holds are those its needs, relaxed in the    *)
(* code's order, let through: for every catalogue, patch and limit.        *)
(***************************************************************************)
THEOREM ConversationsFitNeeds == Spec => []ResultsFitNeeds
<1>1. IInv => ResultsFitNeeds
  BY ResultsFit DEF IInv
<1> QED
  BY <1>1, IInvHolds, PTL

(***************************************************************************)
(* Decisions on an application form one trail that ends in its status, and *)
(* a family is told no other answer, unless two decided from one read; and *)
(* where nothing failed every decision was told.                           *)
(***************************************************************************)
THEOREM DecisionsAreOneTrail == Spec => []DecisionsFormOneTrail
<1>1. IInv => DecisionsFormOneTrail
  BY OneTrail DEF IInv
<1> QED
  BY <1>1, IInvHolds, PTL

(***************************************************************************)
(* A reader who goes through the pages of any of the thirteen lists sees   *)
(* every row that was in it when he began, for every size of a page and    *)
(* whatever is added meanwhile, unless a row leaves the list or moves.     *)
(***************************************************************************)
THEOREM NoRowIsMissed == Spec => []PagesMissNothing
<1>1. IInv => PagesMissNothing
  BY PagesComplete DEF IInv
<1> QED
  BY <1>1, IInvHolds, PTL
=============================================================================
