----------------------------- MODULE PortalTypes -----------------------------
(***************************************************************************)
(* The rows of the portal and the requests being served keep their types:  *)
(* one lemma for each part, what a step of it does to its own tables and   *)
(* to the request it serves, and the theorem they add up to.               *)
(***************************************************************************)
EXTENDS Portal, FiniteSetTheorems, SequenceTheorems, TLAPS

\* The steps of a request, by the part that serves it.
BetaSteps == {"beta.limit", "beta.count", "beta.write", "beta.session"}
AccountSteps ==
    {"issue.cooldown", "issue.delete", "issue.create", "code.count", "code.consume",
     "user.create", "reset.find", "user.save"}
AdmissionSteps ==
    {"apply.class", "apply.create", "visit.create", "apply.decide", "visit.decide",
     "tell.school", "tell.family", "notice.read"}
RolloutSteps == {"rollout.sync", "join.find", "join.create", "review.write", "plan.write"}
ListSteps == {"list.page", "list.done"}
MarketSteps ==
    {"favourite.sub", "favourite.add", "review.find", "review.save", "review.delete"}
ConciergeSteps ==
    {"turn.save", "patch.save", "search.read", "search.find", "search.tell", "search.save",
     "session.delete"}

AllFrames ==
    {Idle} \cup BetaFrames \cup AccountFrames \cup AdmissionFrames \cup RolloutFrames
        \cup ListFrames \cup MarketFrames \cup ConciergeFrames
FrameTypes == frame \in [Handlers -> AllFrames]

-----------------------------------------------------------------------------
\* A frame is of the part of the platform its step belongs to.
LEMMA FrameOfStep ==
    ASSUME NEW f \in AllFrames
    PROVE  /\ f.at = "idle" => f = Idle
           /\ f.at \in BetaSteps => f \in BetaFrames
           /\ f.at \in AccountSteps => f \in AccountFrames
           /\ f.at \in AdmissionSteps => f \in AdmissionFrames
           /\ f.at \in RolloutSteps => f \in RolloutFrames
           /\ f.at \in ListSteps => f \in ListFrames
           /\ f.at \in MarketSteps => f \in MarketFrames
           /\ f.at \in ConciergeSteps => f \in ConciergeFrames
<1>1. f = Idle => f.at = "idle"
  BY DEF Idle
<1>2. f \in BetaFrames => f.at \in BetaSteps
  BY DEF BetaFrames, BetaSteps
<1>3. f \in AccountFrames => f.at \in AccountSteps
  BY DEF AccountFrames, AccountSteps
<1>4. f \in AdmissionFrames => f.at \in AdmissionSteps
  BY DEF AdmissionFrames, AdmissionSteps
<1>5. f \in RolloutFrames => f.at \in RolloutSteps
  BY DEF RolloutFrames, RolloutSteps
<1>6. f \in ListFrames => f.at \in ListSteps
  BY DEF ListFrames, ListSteps
<1>7. f \in MarketFrames => f.at \in MarketSteps
  BY DEF MarketFrames, MarketSteps
<1>8. f \in ConciergeFrames => f.at \in ConciergeSteps
  BY DEF ConciergeFrames, ConciergeSteps
<1> QED
  BY <1>1, <1>2, <1>3, <1>4, <1>5, <1>6, <1>7, <1>8
  DEF AllFrames, BetaSteps, AccountSteps, AdmissionSteps, RolloutSteps, ListSteps, MarketSteps,
      ConciergeSteps

\* ... and has the steps of it.
LEMMA StepOfFrame ==
    ASSUME NEW f
    PROVE  /\ f = Idle => f.at = "idle"
           /\ f \in BetaFrames => f.at \in BetaSteps
           /\ f \in AccountFrames => f.at \in AccountSteps
           /\ f \in AdmissionFrames => f.at \in AdmissionSteps
           /\ f \in RolloutFrames => f.at \in RolloutSteps
           /\ f \in ListFrames => f.at \in ListSteps
           /\ f \in MarketFrames => f.at \in MarketSteps
           /\ f \in ConciergeFrames => f.at \in ConciergeSteps
BY DEF Idle, BetaFrames, BetaSteps, AccountFrames, AccountSteps, AdmissionFrames, AdmissionSteps,
       RolloutFrames, RolloutSteps, ListFrames, ListSteps, MarketFrames, MarketSteps,
       ConciergeFrames, ConciergeSteps

\* The frames after one of them became another.
LEMMA FramesAfter ==
    ASSUME FrameTypes, NEW h \in Handlers, NEW f \in AllFrames, Become(h, f)
    PROVE  FrameTypes' /\ \A k \in Handlers : frame'[k] = IF k = h THEN f ELSE frame[k]
BY DEF FrameTypes, Become

\* A request that one statement answers leaves an idle frame idle.
LEMMA IdleStays ==
    ASSUME FrameTypes, NEW h \in Handlers, At(h, "idle"), frame' = frame
    PROVE  Become(h, Idle)
<1>1. frame[h] = Idle
  BY FrameOfStep DEF FrameTypes, At
<1> QED
  BY <1>1 DEF FrameTypes, Become

-----------------------------------------------------------------------------
\* The closed beta.
LEMMA BetaStepTypes ==
    ASSUME TypeOK, FrameTypes, NEW h \in Handlers, BetaStep(h)
    PROVE  /\ BetaTypeOK'
           /\ \E f \in BetaFrames \cup {Idle} : Become(h, f)
           /\ frame[h].at \in BetaSteps \cup {"idle"}
           /\ stale \subseteq stale' /\ faults' = faults
<1> DEFINE Goal == /\ BetaTypeOK'
                   /\ \E f \in BetaFrames \cup {Idle} : Become(h, f)
                   /\ frame[h].at \in BetaSteps \cup {"idle"}
                   /\ stale \subseteq stale' /\ faults' = faults
<1> USE BetaAssumption
<1>0. BetaTypeOK /\ frame[h] \in AllFrames
  BY DEF TypeOK, FrameTypes
<1>f. frame[h].at \in BetaSteps => frame[h] \in BetaFrames
  BY <1>0, FrameOfStep
<1>i. At(h, "idle") /\ frame' = frame => Become(h, Idle)
  BY IdleStays
<1>n. \A t \in TesterType : countUsedSlots(t) \in 0..Cardinality(Emails)
  <2> TAKE t \in TesterType
  <2>1. UsedIn(access, t) \subseteq Emails
    BY DEF UsedIn
  <2> QED
    BY <2>1, FS_Subset, FS_CardinalityType DEF countUsedSlots
<1>1. ASSUME updateSettings(h) PROVE Goal
  BY <1>0, <1>1, <1>i DEF updateSettings, Serve, Begin, At, BetaTypeOK, Exceeded
<1>2. ASSUME requestAccess(h) PROVE Goal
  BY <1>0, <1>2, FS_CardinalityType DEF requestAccess, Begin, At, BetaTypeOK, betaVars, BetaFrames
<1>3. ASSUME ReadLimit(h) PROVE Goal
  BY <1>0, <1>f, <1>3 DEF ReadLimit, At, BetaTypeOK, betaVars, counters, BetaFrames, BetaSteps
<1>4. ASSUME assertSlotAvailable(h) PROVE Goal
  BY <1>0, <1>f, <1>n, <1>4
  DEF assertSlotAvailable, At, BetaTypeOK, betaVars, counters, BetaFrames, BetaSteps
<1>5. ASSUME WriteRequest(h) PROVE Goal
  BY <1>0, <1>f, <1>5
  DEF WriteRequest, At, Return, BetaTypeOK, counters, Mark, BetaFrames, BetaSteps, Pending,
      Access, AccessStatus, Exceeded
<1>6. ASSUME reviewRequest(h) PROVE Goal
  BY <1>0, <1>i, <1>6
  DEF reviewRequest, Serve, Begin, At, BetaTypeOK, Access, AccessStatus, Exceeded
<1>7. ASSUME verifyAndIssueSession(h) PROVE Goal
  BY <1>0, <1>7, FS_CardinalityType
  DEF verifyAndIssueSession, Begin, At, BetaTypeOK, betaVars, BetaFrames, Access
<1>8. ASSUME WriteSession(h) PROVE Goal
  BY <1>0, <1>f, <1>8 DEF WriteSession, At, Return, BetaTypeOK, counters, Access, BetaSteps
<1>9. ASSUME clearSession(h) PROVE Goal
  BY <1>0, <1>i, <1>9 DEF clearSession, Serve, Begin, At, BetaTypeOK, Access
<1>10. ASSUME BetaRefused(h) PROVE Goal
  BY <1>0, <1>10 DEF BetaRefused, At, Return, BetaTypeOK, betaVars, counters, BetaSteps
<1> QED
  BY <1>1, <1>2, <1>3, <1>4, <1>5, <1>6, <1>7, <1>8, <1>9, <1>10 DEF BetaStep
-----------------------------------------------------------------------------
\* Users and codes.
\* A frame with some of what it holds changed is a frame.
LEMMA AccountFrameChanges ==
    ASSUME NEW f \in AccountFrames
    PROVE  /\ \A s \in AccountSteps : [f EXCEPT !.at = s] \in AccountFrames
           /\ \A r \in UserRole : [f EXCEPT !.role = r] \in AccountFrames
           /\ \A p \in Purpose : [f EXCEPT !.purpose = p] \in AccountFrames
           /\ \A c \in 0..MaxCodes, r \in UserRole :
                  [f EXCEPT !.code = c, !.role = r] \in AccountFrames
           /\ \A c \in 0..MaxCodes, p \in Purpose :
                  [f EXCEPT !.code = c, !.purpose = p] \in AccountFrames
           /\ \A c, n \in User : [f EXCEPT !.copy = c, !.next = n] \in AccountFrames
BY DEF AccountFrames, AccountSteps

\* The steps on users and codes.
LEMMA AccountStepTypes ==
    ASSUME TypeOK, FrameTypes, NEW h \in Handlers, AccountStep(h)
    PROVE  /\ AccountTypeOK'
           /\ \E f \in AccountFrames \cup {Idle} : Become(h, f)
           /\ frame[h].at \in AccountSteps \cup {"idle"}
           /\ stale \subseteq stale' /\ faults' = faults
<1> DEFINE Goal == /\ AccountTypeOK'
                   /\ \E f \in AccountFrames \cup {Idle} : Become(h, f)
                   /\ frame[h].at \in AccountSteps \cup {"idle"}
                   /\ stale \subseteq stale' /\ faults' = faults
<1>0. AccountTypeOK /\ frame[h] \in AllFrames
  BY DEF TypeOK, FrameTypes
<1>f. frame[h].at \in AccountSteps => frame[h] \in AccountFrames
  BY <1>0, FrameOfStep
<1>i. At(h, "idle") /\ frame' = frame => Become(h, Idle)
  BY IdleStays
<1>s. \A step \in AccountSteps, email \in Emails : Serving(step, email) \in AccountFrames
  BY AccountsAssumption
  DEF Serving, AccountFrames, AccountSteps, UserRole, Purpose, User, NoUser, Version
<1>c. \A email \in Emails, purpose \in Purpose, role \in UserRole :
        NewCode(email, purpose, role) \in Code
  BY DEF NewCode, Code
<1>u. \A role \in UserRole : NewUser(role) \in User
  BY DEF NewUser, User, Version
<1>g. frame[h].at \in AccountSteps =>
        /\ frame[h].email \in Emails /\ frame[h].role \in UserRole
        /\ frame[h].purpose \in Purpose
        /\ frame[h].copy \in User /\ frame[h].next \in User
  BY <1>f DEF AccountFrames
<1>v. \A row \in User :
        /\ \A b \in BOOLEAN : [row EXCEPT !.active = b] \in User
        /\ \A v \in Version :
              [row EXCEPT !.password = v] \in User /\ [row EXCEPT !.name = v] \in User
  BY DEF User
<1>a. frame[h].at \in AccountSteps =>
        \A row \in User : Apply(row, frame[h]) \in User
  BY <1>g DEF Apply, User
<1>m. \A row \in Code : /\ [row EXCEPT !.consumed = TRUE] \in Code
                        /\ [row EXCEPT !.attempts = @ + 1] \in Code
  <2> TAKE row \in Code
  <2>1. row.attempts + 1 \in Nat
    BY DEF Code
  <2> QED
    BY <2>1 DEF Code
<1>l. \A i \in 1..issued :
        [codes[i] EXCEPT !.live = @ /\ ~Of(i, frame[h].email, frame[h].purpose)] \in Code
  <2> TAKE i \in 1..issued
  <2>1. codes[i] \in Code /\ Of(i, frame[h].email, frame[h].purpose) \in BOOLEAN
    BY <1>0 DEF AccountTypeOK, Of
  <2> QED
    BY <2>1, Zenon DEF Code
<1>e. issued \in 0..MaxCodes /\ \A i \in 1..issued : codes[i] \in Code
  BY <1>0 DEF AccountTypeOK
<1>d. \A i \in 1..issued : codes[i].email \in Emails /\ codes[i].role \in UserRole
  BY <1>0 DEF AccountTypeOK, Code
<1>1. ASSUME StartRegister(h) PROVE Goal
  BY <1>0, <1>s, AccountFrameChanges, <1>1
  DEF StartRegister, At, AccountTypeOK, Begin, betaVars, accountVars, UserRole, AccountSteps,
      Purpose
<1>2. ASSUME ForgotPassword(h) PROVE Goal
  BY <1>0, <1>s, AccountFrameChanges, <1>2
  DEF ForgotPassword, At, AccountTypeOK, Begin, betaVars, accountVars, Purpose, AccountSteps
<1>3. ASSUME assertResendCooldown(h) PROVE Goal
  BY <1>0, <1>f, AccountFrameChanges, <1>3
  DEF assertResendCooldown, At, AccountTypeOK, counters, AccountSteps, Return, betaVars,
      accountVars, Goto
<1>4. ASSUME DeleteCodes(h) PROVE Goal
  BY <1>0, <1>f, AccountFrameChanges, <1>l, <1>4
  DEF DeleteCodes, At, AccountTypeOK, counters, AccountSteps, Goto
<1>5. ASSUME CreateCode(h) PROVE Goal
  BY <1>0, <1>f, <1>c, <1>e, <1>g, AccountsAssumption, <1>5
  DEF CreateCode, At, AccountTypeOK, counters, AccountSteps, Return
<1>6. ASSUME consumeRegisterChallenge(h) PROVE Goal
  <2>1. PICK i \in 1..issued, step \in {"code.count", "code.consume"} :
            Become(h, [Serving(step, codes[i].email) EXCEPT !.code = i, !.role = codes[i].role])
    BY <1>6 DEF consumeRegisterChallenge
  <2>2. i \in 0..MaxCodes
    BY <1>e, AccountsAssumption
  <2>3. Serving(step, codes[i].email) \in AccountFrames
    BY <1>s, <1>d DEF AccountSteps
  <2>4. [Serving(step, codes[i].email) EXCEPT !.code = i, !.role = codes[i].role] \in AccountFrames
    BY <2>2, <2>3, <1>d, AccountFrameChanges
  <2> QED
    BY <1>0, <1>6, <2>1, <2>4
    DEF consumeRegisterChallenge, At, AccountTypeOK, Begin, accountVars
<1>7. ASSUME consumePasswordResetChallenge(h) PROVE Goal
  <2>1. PICK i \in 1..issued :
            Become(h, [Serving("code.consume", codes[i].email) EXCEPT
                           !.code = i, !.purpose = "PASSWORD_RESET"])
    BY <1>7 DEF consumePasswordResetChallenge
  <2>2. i \in 0..MaxCodes
    BY <1>e, AccountsAssumption
  <2>3. Serving("code.consume", codes[i].email) \in AccountFrames
    BY <1>s, <1>d DEF AccountSteps
  <2>4. [Serving("code.consume", codes[i].email) EXCEPT !.code = i, !.purpose = "PASSWORD_RESET"]
            \in AccountFrames
    BY <2>2, <2>3, AccountFrameChanges DEF Purpose
  <2> QED
    BY <1>0, <1>7, <2>1, <2>4
    DEF consumePasswordResetChallenge, At, AccountTypeOK, Begin, accountVars
<1>8. ASSUME CountAttempt(h) PROVE Goal
  BY <1>0, <1>f, <1>m, <1>8
  DEF CountAttempt, At, AccountTypeOK, counters, AccountSteps, Return
<1>9. ASSUME ConsumeCode(h) PROVE Goal
  BY <1>0, <1>f, AccountFrameChanges, <1>m, <1>9
  DEF ConsumeCode, At, AccountTypeOK, counters, AccountSteps, Goto
<1>10. ASSUME RegisterUser(h) PROVE Goal
  BY <1>0, <1>s, AccountFrameChanges, <1>10
  DEF RegisterUser, At, AccountTypeOK, Begin, accountVars, AccountSteps
<1>11. ASSUME CreateAdminUser(h) PROVE Goal
  BY <1>0, <1>s, AccountFrameChanges, <1>11
  DEF CreateAdminUser, At, AccountTypeOK, Begin, accountVars, UserRole, AccountSteps
<1>12. ASSUME CreateUser(h) PROVE Goal
  BY <1>0, <1>f, <1>u, <1>g, <1>12
  DEF CreateUser, At, AccountTypeOK, counters, AccountSteps, Return
<1>13. ASSUME ResetPassword(h) PROVE Goal
  BY <1>0, <1>f, <1>s, AccountFrameChanges, <1>v, <1>g, <1>13
  DEF ResetPassword, At, AccountTypeOK, counters, AccountSteps, accountVars, Holding
<1>14. ASSUME UpdateCurrentUser(h) PROVE Goal
  BY <1>0, <1>s, AccountFrameChanges, <1>v, <1>14
  DEF UpdateCurrentUser, At, AccountTypeOK, Begin, accountVars, Holding, AccountSteps
<1>15. ASSUME PatchAdminUser(h) PROVE Goal
  BY <1>0, <1>s, AccountFrameChanges, <1>v, <1>15
  DEF PatchAdminUser, At, AccountTypeOK, Begin, accountVars, Holding, AccountSteps
<1>16. ASSUME SaveUser(h) PROVE Goal
  BY <1>0, <1>f, <1>g, <1>a, <1>16
  DEF SaveUser, At, AccountTypeOK, counters, AccountSteps, Return, Mark
<1>17. ASSUME AccountRefused(h) PROVE Goal
  BY <1>0, <1>f, <1>17
  DEF AccountRefused, At, AccountTypeOK, counters, AccountSteps, Return, accountVars
<1> QED
  BY <1>1, <1>2, <1>3, <1>4, <1>5, <1>6, <1>7, <1>8, <1>9, <1>10, <1>11, <1>12, <1>13, <1>14,
     <1>15, <1>16, <1>17
  DEF AccountStep
-----------------------------------------------------------------------------
\* Applications and visits.
\* A sequence with one element replaced.
LEMMA Replaced ==
    ASSUME NEW S, NEW s \in Seq(S), NEW i, NEW e, i \in DOMAIN s => e \in S
    PROVE  /\ [s EXCEPT ![i] = e] \in Seq(S)
           /\ Len([s EXCEPT ![i] = e]) = Len(s)
<1>1. DOMAIN s = 1..Len(s)
  BY LenProperties
<1>2. CASE i \in DOMAIN s
  BY <1>1, <1>2, ExceptSeq
<1>3. CASE i \notin DOMAIN s
  <2>1. s = [j \in DOMAIN s |-> s[j]]
    BY LenProperties
  <2>2. [s EXCEPT ![i] = e] = s
    BY <1>3, <2>1
  <2> QED
    BY <2>2
<1> QED
  BY <1>2, <1>3

\* What a decision is about to write is a status.
AdmissionHeld(f) ==
    /\ f.at = "apply.decide" => f.says \in Answers
    /\ f.at = "visit.decide" => f.says \in {"CONFIRMED", "REJECTED"}
    /\ f.at = "visit.create" => f.code > 0

\* A frame with some of what it holds changed is a frame.
LEMMA AdmissionFrameChanges ==
    ASSUME NEW f \in AdmissionFrames
    PROVE  /\ \A s \in AdmissionSteps : [f EXCEPT !.at = s] \in AdmissionFrames
           /\ \A s \in AdmissionSteps, i \in Nat :
                  [f EXCEPT !.at = s, !.row = i] \in AdmissionFrames
           /\ \A i \in Nat : [f EXCEPT !.row = i] \in AdmissionFrames
           /\ \A i \in Nat, s \in ApplicationStatus, w \in Words :
                  [f EXCEPT !.row = i, !.seen = s, !.says = w] \in AdmissionFrames
           /\ \A c \in 0..(MaxVisits + 1) : [f EXCEPT !.code = c] \in AdmissionFrames
           /\ \A i \in Nat, c \in 0..(MaxVisits + 1), w \in Words :
                  [f EXCEPT !.row = i, !.says = w, !.code = c] \in AdmissionFrames
BY DEF AdmissionFrames, AdmissionSteps

\* The steps on applications, visits and notices.
LEMMA AdmissionStepTypes ==
    ASSUME TypeOK, FrameTypes, NEW h \in Handlers, AdmissionHeld(frame[h]),
           AdmissionStep(h)
    PROVE  /\ AdmissionTypeOK'
           /\ \E f \in AdmissionFrames \cup {Idle} : Become(h, f)
           /\ frame[h].at \in AdmissionSteps \cup {"idle"}
           /\ stale \subseteq stale' /\ faults' = faults
<1> DEFINE Goal == /\ AdmissionTypeOK'
                   /\ \E f \in AdmissionFrames \cup {Idle} : Become(h, f)
                   /\ frame[h].at \in AdmissionSteps \cup {"idle"}
                   /\ stale \subseteq stale' /\ faults' = faults
<1>0. AdmissionTypeOK /\ frame[h] \in AllFrames
  BY DEF TypeOK, FrameTypes
<1>f. frame[h].at \in AdmissionSteps => frame[h] \in AdmissionFrames
  BY <1>0, FrameOfStep
<1>i. At(h, "idle") /\ frame' = frame => Become(h, Idle)
  BY IdleStays
<1>s. \A step \in AdmissionSteps : Asking(step) \in AdmissionFrames
  BY AdmissionsAssumption DEF Asking, AdmissionFrames, AdmissionSteps, ApplicationStatus, Words
<1>r. /\ applications \in Seq([status : ApplicationStatus, history : Seq(Step)])
      /\ visits \in Seq([status : VisitStatus, code : 1..(MaxVisits + 1), user : BOOLEAN])
      /\ notices \in Seq(Notice)
  BY <1>0 DEF AdmissionTypeOK
<1>a. /\ Len(applications) \in Nat
      /\ \A i \in DOMAIN applications :
            /\ i \in Nat /\ applications[i].status \in ApplicationStatus
            /\ applications[i] \in [status : ApplicationStatus, history : Seq(Step)]
  <2>1. DOMAIN applications = 1..Len(applications) /\ Len(applications) \in Nat
    BY <1>r, LenProperties
  <2>2. \A i \in 1..Len(applications) :
            applications[i] \in [status : ApplicationStatus, history : Seq(Step)]
    BY <1>r, ElementOfSeq
  <2> QED
    BY <2>1, <2>2
<1>v. /\ Len(visits) \in Nat
      /\ \A i \in DOMAIN visits :
            /\ i \in Nat /\ visits[i].code \in 0..(MaxVisits + 1)
            /\ visits[i] \in [status : VisitStatus, code : 1..(MaxVisits + 1), user : BOOLEAN]
  <2>1. DOMAIN visits = 1..Len(visits) /\ Len(visits) \in Nat
    BY <1>r, LenProperties
  <2>2. \A i \in 1..Len(visits) :
            visits[i] \in [status : VisitStatus, code : 1..(MaxVisits + 1), user : BOOLEAN]
    BY <1>r, ElementOfSeq
  <2> QED
    BY <2>1, <2>2, AdmissionsAssumption
<1>w. /\ DOMAIN notices = 1..Len(notices) /\ Len(notices) \in Nat
      /\ \A i \in DOMAIN notices : i \in Nat /\ notices[i] \in Notice
  BY <1>r, LenProperties, ElementOfSeq
<1>t. ASSUME NEW audience \in {"school", "family"}, frame[h].at \in AdmissionSteps,
             Tell(h, audience)
      PROVE  notices' \in Seq(Notice)
  <2>1. frame[h] \in AdmissionFrames
    BY <1>f, <1>t
  <2>2. [to |-> audience, about |-> IF frame[h].code = 0 THEN "application" ELSE "visit",
         row |-> frame[h].row, says |-> frame[h].says, read |-> FALSE] \in Notice
    BY <2>1 DEF AdmissionFrames, Notice, Subjects
  <2> QED
    BY <2>2, <1>r, <1>t DEF Tell
<1>1. ASSUME assertCanReceiveApplications(h) PROVE Goal
  BY <1>0, <1>s, <1>1
  DEF assertCanReceiveApplications, At, AdmissionTypeOK, Begin, admissionVars, AdmissionSteps
<1>2. ASSUME CheckClass(h) PROVE Goal
  BY <1>0, <1>f, AdmissionFrameChanges, <1>2
  DEF CheckClass, At, AdmissionTypeOK, counters, AdmissionSteps, Return, Goto, admissionVars
<1>3. ASSUME CreateApplication(h) PROVE Goal
  <2>1. [frame[h] EXCEPT !.at = "tell.school", !.row = Len(applications) + 1] \in AdmissionFrames
    <3>1. Len(applications) + 1 \in Nat /\ "tell.school" \in AdmissionSteps
      BY <1>a DEF AdmissionSteps
    <3>2. frame[h] \in AdmissionFrames
      BY <1>f, <1>3 DEF CreateApplication, At, AdmissionSteps
    <3> QED
      BY <3>1, <3>2, AdmissionFrameChanges
  <2>2. [status |-> "SUBMITTED", history |-> <<[from |-> "NONE", to |-> "SUBMITTED"]>>]
            \in [status : ApplicationStatus, history : Seq(Step)]
    BY DEF Step, ApplicationStatus
  <2>3. applications' \in Seq([status : ApplicationStatus, history : Seq(Step)])
    BY <2>2, <1>r, <1>3 DEF CreateApplication
  <2> QED
    BY <1>0, <1>3, <2>1, <2>3
    DEF CreateApplication, At, AdmissionTypeOK, AdmissionSteps, counters
<1>4. ASSUME notifySchoolMembers(h) PROVE Goal
  BY <1>0, <1>f, AdmissionFrameChanges, <1>t, <1>4
  DEF notifySchoolMembers, At, AdmissionTypeOK, counters, AdmissionSteps, Goto
<1>5. ASSUME NotifyFamily(h) PROVE Goal
  BY <1>0, <1>f, AdmissionFrameChanges, <1>t, <1>5
  DEF NotifyFamily, At, AdmissionTypeOK, counters, AdmissionSteps, Return
<1>6. ASSUME ApproveApplication(h) PROVE Goal
  <2>1. PICK i \in DOMAIN applications :
            Become(h, [Asking("apply.decide") EXCEPT
               !.row = i, !.seen = applications[i].status, !.says = "ACCEPTED"])
    BY <1>6 DEF ApproveApplication
  <2>2. [Asking("apply.decide") EXCEPT
             !.row = i, !.seen = applications[i].status, !.says = "ACCEPTED"] \in AdmissionFrames
    BY <1>s, AdmissionFrameChanges, <1>a DEF AdmissionSteps, Words, Answers
  <2> QED
    BY <1>0, <1>6, <2>1, <2>2 DEF ApproveApplication, At, Begin, AdmissionTypeOK, admissionVars
<1>7. ASSUME RejectApplication(h) PROVE Goal
  <2>1. PICK i \in DOMAIN applications :
            Become(h, [Asking("apply.decide") EXCEPT
               !.row = i, !.seen = applications[i].status, !.says = "REJECTED"])
    BY <1>7 DEF RejectApplication
  <2>2. [Asking("apply.decide") EXCEPT
             !.row = i, !.seen = applications[i].status, !.says = "REJECTED"] \in AdmissionFrames
    BY <1>s, AdmissionFrameChanges, <1>a DEF AdmissionSteps, Words, Answers
  <2> QED
    BY <1>0, <1>7, <2>1, <2>2 DEF RejectApplication, At, Begin, AdmissionTypeOK, admissionVars
<1>8. ASSUME SaveDecision(h) PROVE Goal
  <2>1. frame[h] \in AdmissionFrames /\ frame[h].says \in ApplicationStatus
    BY <1>f, <1>8 DEF SaveDecision, At, AdmissionSteps, AdmissionHeld, ApplicationStatus
  <2>2. [from |-> frame[h].seen, to |-> frame[h].says] \in Step
    BY <2>1 DEF AdmissionFrames, Step
  <2> DEFINE row == applications[frame[h].row]
             step == [from |-> frame[h].seen, to |-> frame[h].says]
             next == [row EXCEPT !.status = frame[h].says, !.history = Append(@, step)]
  <2>3. applications' = [applications EXCEPT ![frame[h].row] = next]
    BY <1>8 DEF SaveDecision
  <2>4. ASSUME frame[h].row \in DOMAIN applications
        PROVE  next \in [status : ApplicationStatus, history : Seq(Step)]
    <3>1. row \in [status : ApplicationStatus, history : Seq(Step)]
      BY <1>a, <2>4
    <3>2. Append(row.history, step) \in Seq(Step)
      BY <2>2, <3>1
    <3> QED
      BY <2>1, <3>1, <3>2
  <2>5. applications' \in Seq([status : ApplicationStatus, history : Seq(Step)])
    <3> HIDE DEF next
    <3> QED
      BY <1>r, <2>3, <2>4, Replaced
  <2> QED
    BY <1>0, <1>8, <2>1, <2>5, AdmissionFrameChanges
    DEF SaveDecision, At, Goto, Mark, AdmissionTypeOK, AdmissionSteps, counters
<1>9. ASSUME ScheduleVisit(h) PROVE Goal
  <2>1. Len(visits) + 1 \in 0..(MaxVisits + 1)
    BY <1>0, AdmissionsAssumption DEF AdmissionTypeOK
  <2>2. [Asking("visit.create") EXCEPT !.code = Len(visits) + 1] \in AdmissionFrames
    BY <2>1, <1>s, AdmissionFrameChanges DEF AdmissionSteps
  <2> QED
    BY <1>0, <1>9, <2>2 DEF ScheduleVisit, At, Begin, AdmissionTypeOK, admissionVars
<1>10. ASSUME CreateVisit(h) PROVE Goal
  <2>1. [frame[h] EXCEPT !.at = "tell.school", !.row = Len(visits) + 1] \in AdmissionFrames
    <3>1. Len(visits) + 1 \in Nat /\ "tell.school" \in AdmissionSteps
      BY <1>v DEF AdmissionSteps
    <3>2. frame[h] \in AdmissionFrames
      BY <1>f, <1>10 DEF CreateVisit, At, AdmissionSteps
    <3> QED
      BY <3>1, <3>2, AdmissionFrameChanges
  <2>2. frame[h].code \in 1..(MaxVisits + 1)
    BY <1>f, <1>10, AdmissionsAssumption
    DEF CreateVisit, At, AdmissionSteps, AdmissionHeld, AdmissionFrames
  <2>3. \A user \in BOOLEAN :
           [status |-> "PENDING_SCHOOL_CONFIRMATION", code |-> frame[h].code, user |-> user]
               \in [status : VisitStatus, code : 1..(MaxVisits + 1), user : BOOLEAN]
    BY <2>2 DEF VisitStatus
  <2>4. PICK user \in BOOLEAN : visits' = Append(visits,
           [status |-> "PENDING_SCHOOL_CONFIRMATION", code |-> frame[h].code, user |-> user])
    BY <1>10 DEF CreateVisit
  <2>5. visits' \in Seq([status : VisitStatus, code : 1..(MaxVisits + 1), user : BOOLEAN])
    BY <2>3, <2>4, <1>r
  <2>6. Len(visits') <= MaxVisits
    BY <2>4, <1>r, <1>10, AdmissionsAssumption DEF CreateVisit
  <2> QED
    BY <1>0, <1>10, <2>1, <2>5, <2>6
    DEF CreateVisit, At, AdmissionTypeOK, AdmissionSteps, counters
<1>11. ASSUME FindPendingVisit(h) PROVE Goal
  <2>1. PICK i \in DOMAIN visits, answer \in {"CONFIRMED", "REJECTED"} :
            Become(h, [Asking("visit.decide") EXCEPT
               !.row = i, !.says = answer, !.code = visits[i].code])
    BY <1>11 DEF FindPendingVisit
  <2>2. visits[i].code \in 0..(MaxVisits + 1)
    BY <1>v
  <2>3. [Asking("visit.decide") EXCEPT !.row = i, !.says = answer, !.code = visits[i].code]
            \in AdmissionFrames
    BY <2>2, <1>s, AdmissionFrameChanges, <1>v DEF AdmissionSteps, Words, Answers
  <2> QED
    BY <1>0, <1>11, <2>1, <2>3 DEF FindPendingVisit, At, Begin, AdmissionTypeOK, admissionVars
<1>12. ASSUME DecideVisit(h) PROVE Goal
  <2>1. frame[h] \in AdmissionFrames /\ frame[h].says \in VisitStatus
    BY <1>f, <1>12 DEF DecideVisit, At, AdmissionSteps, AdmissionHeld, VisitStatus
  <2> DEFINE next == [visits[frame[h].row] EXCEPT !.status = frame[h].says]
  <2>2. visits' = [visits EXCEPT ![frame[h].row] = next]
    BY <1>12 DEF DecideVisit
  <2>3. frame[h].row \in DOMAIN visits =>
            next \in [status : VisitStatus, code : 1..(MaxVisits + 1), user : BOOLEAN]
    BY <1>v, <2>1
  <2>4. /\ visits' \in Seq([status : VisitStatus, code : 1..(MaxVisits + 1), user : BOOLEAN])
        /\ Len(visits') = Len(visits)
    <3> DEFINE VisitRow == [status : VisitStatus, code : 1..(MaxVisits + 1), user : BOOLEAN]
    <3>1. visits \in Seq(VisitRow) /\ (frame[h].row \in DOMAIN visits => next \in VisitRow)
      BY <1>r, <2>3
    <3> HIDE DEF next, VisitRow
    <3>2. /\ [visits EXCEPT ![frame[h].row] = next] \in Seq(VisitRow)
          /\ Len([visits EXCEPT ![frame[h].row] = next]) = Len(visits)
      BY <3>1, Replaced
    <3> QED
      BY <2>2, <3>2 DEF VisitRow
  <2> QED
    BY <1>0, <1>12, <2>1, <2>4, AdmissionFrameChanges
    DEF DecideVisit, At, Goto, Mark, AdmissionTypeOK, AdmissionSteps, counters
<1>13. ASSUME FindNotice(h) PROVE Goal
  <2>1. PICK i \in DOMAIN notices : Become(h, [Asking("notice.read") EXCEPT !.row = i])
    BY <1>13 DEF FindNotice
  <2>2. [Asking("notice.read") EXCEPT !.row = i] \in AdmissionFrames
    BY <1>s, <1>w, AdmissionFrameChanges DEF AdmissionSteps
  <2> QED
    BY <1>0, <1>13, <2>1, <2>2 DEF FindNotice, At, Begin, AdmissionTypeOK, admissionVars
<1>14. ASSUME MarkRead(h) PROVE Goal
  <2> DEFINE next == [notices[frame[h].row] EXCEPT !.read = TRUE]
  <2>1. notices' = [notices EXCEPT ![frame[h].row] = next]
    BY <1>14 DEF MarkRead
  <2>2. frame[h].row \in DOMAIN notices => next \in Notice
    BY <1>w DEF Notice
  <2>3. notices' \in Seq(Notice)
    <3> HIDE DEF next
    <3> QED
      BY <1>r, <2>1, <2>2, Replaced
  <2> QED
    BY <1>0, <1>14, <2>3 DEF MarkRead, At, Return, AdmissionTypeOK, AdmissionSteps, counters
<1>15. ASSUME MarkAllRead(h) PROVE Goal
  <2>1. \A n \in Notice : [n EXCEPT !.read = @ \/ n.to = "family"] \in Notice
    BY DEF Notice
  <2>2. \A i \in 1..Len(notices) :
            [notices[i] EXCEPT !.read = @ \/ notices[i].to = "family"] \in Notice
    BY <2>1, <1>r
  <2>3. notices' = [i \in 1..Len(notices) |->
                        [notices[i] EXCEPT !.read = @ \/ notices[i].to = "family"]]
    BY <1>r, <1>15 DEF MarkAllRead
  <2>4. notices' \in Seq(Notice)
    BY <2>2, <2>3, <1>r
  <2> QED
    BY <1>0, <1>15, <1>i, <2>4 DEF MarkAllRead, Serve, Begin, At, AdmissionTypeOK
<1>16. ASSUME AdmissionRefused(h) PROVE Goal
  BY <1>0, <1>f, <1>16
  DEF AdmissionRefused, At, AdmissionTypeOK, counters, AdmissionSteps, Return, admissionVars
<1> QED
  BY <1>1, <1>2, <1>3, <1>4, <1>5, <1>6, <1>7, <1>8, <1>9, <1>10, <1>11, <1>12, <1>13, <1>14,
     <1>15, <1>16
  DEF AdmissionStep
-----------------------------------------------------------------------------
\* The phase, the plan and the waitlist.
\* The steps on the phase, the plan and the waitlist.
LEMMA RolloutStepTypes ==
    ASSUME TypeOK, FrameTypes, NEW h \in Handlers, RolloutStep(h)
    PROVE  /\ RolloutTypeOK'
           /\ \E f \in RolloutFrames \cup {Idle} : Become(h, f)
           /\ frame[h].at \in RolloutSteps \cup {"idle"}
           /\ stale \subseteq stale' /\ faults' = faults
<1> DEFINE Goal == /\ RolloutTypeOK'
                   /\ \E f \in RolloutFrames \cup {Idle} : Become(h, f)
                   /\ frame[h].at \in RolloutSteps \cup {"idle"}
                   /\ stale \subseteq stale' /\ faults' = faults
<1>0. RolloutTypeOK /\ frame[h] \in AllFrames
  BY DEF TypeOK, FrameTypes
<1>f. frame[h].at \in RolloutSteps => frame[h] \in RolloutFrames
  BY <1>0, FrameOfStep
<1>i. At(h, "idle") /\ frame' = frame => Become(h, Idle)
  BY IdleStays
<1>p. /\ phase \in Phase /\ entry \in Entry
      /\ plan.isPublic \in BOOLEAN /\ plan.isActive \in BOOLEAN /\ plan.features \subseteq Features
      /\ plan = [isPublic |-> plan.isPublic, isActive |-> plan.isActive, features |-> plan.features]
  BY <1>0 DEF RolloutTypeOK, PlanRow
<1>s. \A step \in RolloutSteps : Rolling(step) \in RolloutFrames
  BY <1>p DEF Rolling, RolloutFrames, RolloutSteps
<1>x. \A f \in RolloutFrames :
          /\ \A step \in RolloutSteps : [f EXCEPT !.at = step] \in RolloutFrames
          /\ \A p \in Phase : [f EXCEPT !.phase = p] \in RolloutFrames
          /\ \A w, r \in SUBSET Features :
                 [f EXCEPT !.want = w, !.read = r] \in RolloutFrames
  BY DEF RolloutFrames, RolloutSteps
<1>o. \A row \in PlanRow, p \in Phase : Follows(row, p) \in PlanRow
  BY DEF Follows, PlanRow
<1>e. [status |-> "PENDING", testUrl |-> FALSE] \in Entry
  BY DEF Entry, EntryStatus
<1>d. \A decision \in {"APPROVED", "REJECTED"}, url \in BOOLEAN :
        [status |-> decision, testUrl |-> url /\ decision = "APPROVED"] \in Entry
  BY DEF Entry, EntryStatus
<1>1. ASSUME updateConfig(h) PROVE Goal
  BY <1>0, <1>s, <1>x, <1>o, <1>1
  DEF updateConfig, At, RolloutTypeOK, Begin, RolloutSteps
<1>2. ASSUME syncManagementPlanVisibility(h) PROVE Goal
  BY <1>0, <1>f, <1>o, <1>2
  DEF syncManagementPlanVisibility, At, RolloutTypeOK, counters, RolloutSteps, Return, Mark,
      RolloutFrames
<1>3. ASSUME joinWaitlist(h) PROVE Goal
  BY <1>0, <1>s, <1>3
  DEF joinWaitlist, At, RolloutTypeOK, Begin, RolloutSteps, rolloutVars
<1>4. ASSUME FindEntry(h) PROVE Goal
  BY <1>0, <1>f, <1>x, <1>4
  DEF FindEntry, At, RolloutTypeOK, counters, RolloutSteps, Return, Goto, rolloutVars
<1>5. ASSUME CreateEntry(h) PROVE Goal
  BY <1>0, <1>f, <1>e, <1>5
  DEF CreateEntry, At, RolloutTypeOK, counters, RolloutSteps, Return
<1>6. ASSUME reviewEntry(h) PROVE Goal
  BY <1>0, <1>s, <1>6
  DEF reviewEntry, At, RolloutTypeOK, Begin, RolloutSteps, rolloutVars
<1>7. ASSUME WriteReview(h) PROVE Goal
  BY <1>0, <1>f, <1>d, <1>7
  DEF WriteReview, At, RolloutTypeOK, counters, RolloutSteps, Return
<1>8. ASSUME ReadPlan(h) PROVE Goal
  BY <1>0, <1>s, <1>x, <1>p, <1>8
  DEF ReadPlan, At, RolloutTypeOK, Begin, RolloutSteps, rolloutVars
<1>9. ASSUME WritePlan(h) PROVE Goal
  <2>1. frame[h].want \subseteq Features /\ frame[h] \in RolloutFrames
    BY <1>f, <1>9 DEF WritePlan, At, RolloutSteps, RolloutFrames
  <2>2. PICK public \in BOOLEAN, active \in BOOLEAN :
            /\ asked' = [isPublic |-> public, isActive |-> active, features |-> frame[h].want]
            /\ plan' = [isPublic |-> public, isActive |-> active,
                        features |-> (plan.features \cap frame[h].want)
                                         \cup (frame[h].want \ frame[h].read)]
    BY <1>9 DEF WritePlan
  <2>3. plan' \in PlanRow /\ asked' \in PlanRow
    BY <2>1, <2>2 DEF PlanRow
  <2> QED
    BY <1>0, <1>9, <2>3 DEF WritePlan, At, Return, Mark, RolloutTypeOK, RolloutSteps, counters
<1>10. ASSUME PatchPlan(h) PROVE Goal
  BY <1>0, <1>i, <1>10
  DEF PatchPlan, At, RolloutTypeOK, Serve, Begin, PlanRow
<1>11. ASSUME PlanRefused(h) PROVE Goal
  BY <1>0, <1>f, <1>11
  DEF PlanRefused, At, RolloutTypeOK, counters, RolloutSteps, Return, rolloutVars
<1> QED
  BY <1>1, <1>2, <1>3, <1>4, <1>5, <1>6, <1>7, <1>8, <1>9, <1>10, <1>11 DEF RolloutStep
-----------------------------------------------------------------------------
\* A list.
\* A frame with some of what it holds changed is a frame.
LEMMA ListFrameChanges ==
    ASSUME NEW f \in ListFrames, NEW s \in ListSteps, NEW p \in Nat,
           NEW i \in SUBSET (1..MaxRows)
    PROVE  [f EXCEPT !.at = s, !.page = p, !.seen = i] \in ListFrames
BY DEF ListFrames, ListSteps

\* The steps on a list.
LEMMA ListStepTypes ==
    ASSUME TypeOK, FrameTypes, NEW h \in Handlers, ListStep(h)
    PROVE  /\ ListTypeOK'
           /\ \E f \in ListFrames \cup {Idle} : Become(h, f)
           /\ frame[h].at \in ListSteps \cup {"idle"}
           /\ stale \subseteq stale' /\ faults' = faults
<1> DEFINE Goal == /\ ListTypeOK'
                   /\ \E f \in ListFrames \cup {Idle} : Become(h, f)
                   /\ frame[h].at \in ListSteps \cup {"idle"}
                   /\ stale \subseteq stale' /\ faults' = faults
<1>0. ListTypeOK /\ frame[h] \in AllFrames
  BY DEF TypeOK, FrameTypes
<1>f. frame[h].at \in ListSteps => frame[h] \in ListFrames
  BY <1>0, FrameOfStep
<1>i. At(h, "idle") /\ frame' = frame => Become(h, Idle)
  BY IdleStays
<1>r. /\ list \in [name : ListName, filter : Filter] /\ clock \in Nat
      /\ rows \in Seq(Row) /\ Len(rows) <= MaxRows /\ shifted \subseteq Handlers
  BY <1>0 DEF ListTypeOK
<1>l. Len(rows) \in Nat /\ DOMAIN rows = 1..Len(rows) /\ MaxRows \in Nat
  BY <1>r, LenProperties, ListsAssumption
<1>n. \A i \in DOMAIN rows : rows[i] \in Row
  BY <1>r, <1>l, ElementOfSeq
<1>c. \A i \in There, row \in Row :
        /\ [rows EXCEPT ![i] = row] \in Seq(Row)
        /\ Len([rows EXCEPT ![i] = row]) <= MaxRows
  BY <1>r, Replaced DEF There
<1>w. Written => list' = list /\ shifted' \subseteq Handlers
  BY <1>r DEF Written
<1>t. \A i \in There : rows[i] \in Row
  BY <1>n DEF There
<1>1. ASSUME InsertRow(h) PROVE Goal
  <2>1. PICK date \in FirstDates : rows' = Append(rows, NewRow(date))
    BY <1>1 DEF InsertRow
  <2>2. date \in Nat
    BY <1>r DEF FirstDates
  <2>3. NewRow(date) \in Row
    BY <2>2 DEF NewRow, Row
  <2>4. rows' \in Seq(Row) /\ Len(rows') = Len(rows) + 1
    BY <1>r, <2>1, <2>3, AppendProperties
  <2>5. Len(rows') <= MaxRows /\ clock' \in Nat
    BY <1>r, <1>l, <2>4, <1>1 DEF InsertRow
  <2> QED
    BY <1>0, <1>1, <1>i, <1>w, <2>4, <2>5 DEF InsertRow, Serve, Begin, At, ListTypeOK
<1>2. ASSUME ChangeStatus(h) PROVE Goal
  <2>1. PICK i \in There :
            \/ rows' = [rows EXCEPT ![i].open = FALSE] \/ rows' = [rows EXCEPT ![i].open = TRUE]
            \/ rows' = [rows EXCEPT ![i].due = TRUE]
    BY <1>2 DEF ChangeStatus
  <2>2. /\ [rows[i] EXCEPT !.open = FALSE] \in Row /\ [rows[i] EXCEPT !.open = TRUE] \in Row
        /\ [rows[i] EXCEPT !.due = TRUE] \in Row
    BY <1>t DEF Row
  <2>3. rows' \in Seq(Row) /\ Len(rows') <= MaxRows
    BY <1>c, <2>1, <2>2
  <2> QED
    BY <1>0, <1>2, <1>i, <1>w, <2>3 DEF ChangeStatus, Serve, Begin, At, ListTypeOK
<1>3. ASSUME MoveRow(h) PROVE Goal
  <2>1. PICK i \in There : rows' = [rows EXCEPT ![i].at = clock + 1]
    BY <1>3 DEF MoveRow
  <2>2. [rows[i] EXCEPT !.at = clock + 1] \in Row
    BY <1>t, <1>r DEF Row
  <2>3. rows' \in Seq(Row) /\ Len(rows') <= MaxRows
    BY <1>c, <2>1, <2>2
  <2> QED
    BY <1>0, <1>3, <1>i, <1>w, <2>3 DEF MoveRow, Serve, Begin, At, ListTypeOK
<1>4. ASSUME DeleteRow(h) PROVE Goal
  <2>1. PICK i \in There : rows' = [rows EXCEPT ![i].there = FALSE]
    BY <1>4 DEF DeleteRow
  <2>2. [rows[i] EXCEPT !.there = FALSE] \in Row
    BY <1>t DEF Row
  <2>3. rows' \in Seq(Row) /\ Len(rows') <= MaxRows
    BY <1>c, <2>1, <2>2
  <2> QED
    BY <1>0, <1>4, <1>i, <1>w, <2>3 DEF DeleteRow, Serve, Begin, At, ListTypeOK
<1>5. ASSUME StartReading(h) PROVE Goal
  <2>1. ShownRows \subseteq 1..MaxRows
    BY <1>r, <1>l DEF ShownRows
  <2>2. [at |-> "list.page", page |-> 1, seen |-> {}, had |-> ShownRows] \in ListFrames
    BY <2>1 DEF ListFrames
  <2> QED
    BY <1>0, <1>5, <2>2 DEF StartReading, Begin, At, ListTypeOK
<1>6. ASSUME ReadPage(h) PROVE Goal
  <2> DEFINE items == {i \in ShownRows :
                         Place(i) \in (skip(frame[h].page) + 1)..(skip(frame[h].page) + PageSize)}
             next == [frame[h] EXCEPT
                         !.at = IF Cardinality(items) < PageSize THEN "list.done" ELSE @,
                         !.page = @ + 1,
                         !.seen = @ \cup items]
  <2>1. items \subseteq 1..MaxRows
    BY <1>r, <1>l DEF ShownRows
  <2>2. frame[h] \in ListFrames
    BY <1>f, <1>6 DEF ReadPage, At, ListSteps
  <2>3. next \in ListFrames
    <3> DEFINE at == IF Cardinality(items) < PageSize THEN "list.done" ELSE frame[h].at
    <3>1. at \in ListSteps
      BY <2>2 DEF ListFrames, ListSteps
    <3>2. frame[h].page + 1 \in Nat
      BY <2>2 DEF ListFrames
    <3>3. frame[h].seen \cup items \in SUBSET (1..MaxRows)
      <4>1. frame[h].seen \subseteq 1..MaxRows
        BY <2>2 DEF ListFrames
      <4> QED
        BY <2>1, <4>1
    <3> HIDE DEF items, at
    <3>4. [frame[h] EXCEPT !.at = at, !.page = frame[h].page + 1, !.seen = frame[h].seen \cup items]
              \in ListFrames
      BY <2>2, <3>1, <3>2, <3>3, ListFrameChanges
    <3> QED
      BY <3>4 DEF at
  <2>4. Become(h, next)
    BY <1>6 DEF ReadPage
  <2> QED
    BY <1>0, <1>6, <2>3, <2>4 DEF ReadPage, At, ListTypeOK, ListSteps, listVars, counters
<1>7. ASSUME StopReading(h) PROVE Goal
  BY <1>0, <1>f, <1>7
  DEF StopReading, At, ListTypeOK, counters, ListSteps, Return, listVars
<1> QED
  BY <1>1, <1>2, <1>3, <1>4, <1>5, <1>6, <1>7 DEF ListStep
-----------------------------------------------------------------------------
\* The marketplace.
ReviewRow == [id : Nat, stars : {0} \cup Stars]

\* A frame with some of what it holds changed is a frame.
LEMMA MarketFrameChanges ==
    ASSUME NEW f \in MarketFrames
    PROVE  /\ \A s \in MarketSteps : [f EXCEPT !.at = s] \in MarketFrames
           /\ \A n \in Stars : [f EXCEPT !.stars = n] \in MarketFrames
           /\ \A v \in ReviewRow : [f EXCEPT !.seen = v] \in MarketFrames
           /\ \A s \in MarketSteps, v \in ReviewRow :
                  [f EXCEPT !.at = s, !.seen = v] \in MarketFrames
BY DEF MarketFrames, MarketSteps, ReviewRow

\* The steps on favourites and reviews.
LEMMA MarketStepTypes ==
    ASSUME TypeOK, FrameTypes, NEW h \in Handlers, MarketStep(h)
    PROVE  /\ MarketTypeOK'
           /\ \E f \in MarketFrames \cup {Idle} : Become(h, f)
           /\ frame[h].at \in MarketSteps \cup {"idle"}
           /\ stale \subseteq stale' /\ faults' = faults
<1> DEFINE Goal == /\ MarketTypeOK'
                   /\ \E f \in MarketFrames \cup {Idle} : Become(h, f)
                   /\ frame[h].at \in MarketSteps \cup {"idle"}
                   /\ stale \subseteq stale' /\ faults' = faults
<1>0. MarketTypeOK /\ frame[h] \in AllFrames
  BY DEF TypeOK, FrameTypes
<1>f. frame[h].at \in MarketSteps => frame[h] \in MarketFrames
  BY <1>0, FrameOfStep
<1>i. At(h, "idle") /\ frame' = frame => Become(h, Idle)
  BY IdleStays
<1>r. /\ market \in [Schools -> [active : BOOLEAN, subscribed : BOOLEAN, offer : Offers]]
      /\ favourites \subseteq Authors \X Schools
      /\ reviews \in [Authors \X Schools -> ReviewRow]
      /\ reviewIds \in Nat
      /\ reviewAsked \in [Authors \X Schools -> {0} \cup Stars]
  BY <1>0 DEF MarketTypeOK, ReviewRow
<1>s. \A step \in MarketSteps, a \in Authors, s \in Schools : Visiting(step, a, s) \in MarketFrames
  BY DEF Visiting, MarketFrames, MarketSteps, NoReview
<1>k. \A f \in MarketFrames : <<f.author, f.school>> \in Authors \X Schools
  BY DEF MarketFrames
<1>m. \A s \in Schools : /\ [market[s] EXCEPT !.active = ~@] \in
                                [active : BOOLEAN, subscribed : BOOLEAN, offer : Offers]
                          /\ [market[s] EXCEPT !.subscribed = ~@] \in
                                [active : BOOLEAN, subscribed : BOOLEAN, offer : Offers]
                          /\ \A o \in Offers : [market[s] EXCEPT !.offer = o] \in
                                [active : BOOLEAN, subscribed : BOOLEAN, offer : Offers]
  BY <1>r
<1>1. ASSUME MarketChanges(h) PROVE Goal
  <2>1. market' \in [Schools -> [active : BOOLEAN, subscribed : BOOLEAN, offer : Offers]]
    <3>1. PICK s \in Schools :
              \/ market' = [market EXCEPT ![s] = [market[s] EXCEPT !.active = ~@]]
              \/ market' = [market EXCEPT ![s] = [market[s] EXCEPT !.subscribed = ~@]]
              \/ \E o \in Offers : market' = [market EXCEPT ![s] = [market[s] EXCEPT !.offer = o]]
      BY <1>1, Zenon DEF MarketChanges
    <3> DEFINE Card == [active : BOOLEAN, subscribed : BOOLEAN, offer : Offers]
    <3>2. PICK row \in Card : market' = [market EXCEPT ![s] = row]
      BY <3>1, <1>m
    <3>3. market \in [Schools -> Card]
      BY <1>r
    <3> HIDE DEF Card
    <3>4. market' \in [Schools -> Card]
      BY <3>2, <3>3
    <3> QED
      BY <3>4 DEF Card
  <2> QED
    BY <1>0, <1>1, <1>i, <2>1 DEF MarketChanges, Serve, Begin, At, MarketTypeOK
<1>2. ASSUME AddFavourite(h) PROVE Goal
  BY <1>0, <1>s, <1>2
  DEF AddFavourite, At, MarketTypeOK, Begin, MarketSteps, marketVars
<1>3. ASSUME CheckListing(h) PROVE Goal
  BY <1>0, <1>f, MarketFrameChanges, <1>3
  DEF CheckListing, At, MarketTypeOK, counters, MarketSteps, Return, Goto, marketVars
<1>4. ASSUME SaveFavourite(h) PROVE Goal
  BY <1>0, <1>f, <1>k, <1>4
  DEF SaveFavourite, At, MarketTypeOK, counters, MarketSteps, Return
<1>5. ASSUME RemoveFavourite(h) PROVE Goal
  BY <1>0, <1>i, <1>5
  DEF RemoveFavourite, At, MarketTypeOK, Serve, Begin
<1>6. ASSUME BeginReview(h) PROVE Goal
  BY <1>0, <1>s, MarketFrameChanges, <1>6
  DEF BeginReview, At, MarketTypeOK, Begin, MarketSteps, marketVars
<1>7. ASSUME FindReview(h) PROVE Goal
  <2>1. frame[h] \in MarketFrames
    BY <1>f, <1>7 DEF FindReview, At, MarketSteps
  <2>2. reviews[<<frame[h].author, frame[h].school>>] \in ReviewRow
    BY <2>1, <1>k, <1>r
  <2>3. [frame[h] EXCEPT !.at = "review.save",
                        !.seen = reviews[<<frame[h].author, frame[h].school>>]] \in MarketFrames
    <3>1. "review.save" \in MarketSteps
      BY DEF MarketSteps
    <3> DEFINE seen == reviews[<<frame[h].author, frame[h].school>>]
    <3>2. seen \in ReviewRow
      BY <2>2
    <3> HIDE DEF seen
    <3>3. [frame[h] EXCEPT !.at = "review.save", !.seen = seen] \in MarketFrames
      BY <2>1, <3>1, <3>2, MarketFrameChanges
    <3> QED
      BY <3>3 DEF seen
  <2> QED
    BY <1>0, <1>7, <2>3 DEF FindReview, At, MarketTypeOK, MarketSteps, marketVars, counters
<1>8. ASSUME SaveReview(h) PROVE Goal
  <2> DEFINE x == <<frame[h].author, frame[h].school>>
             seen == frame[h].seen
  <2>1. frame[h] \in MarketFrames
    BY <1>f, <1>8 DEF SaveReview, At, MarketSteps
  <2>2. seen \in ReviewRow /\ frame[h].stars \in {0} \cup Stars
    BY <2>1 DEF MarketFrames, ReviewRow
  <2>3. reviewIds' \in Nat
    BY <1>r, <1>8 DEF SaveReview
  <2>4. reviews' \in [Authors \X Schools -> ReviewRow]
    <3>1. [id |-> IF seen.id = 0 THEN reviewIds' ELSE seen.id, stars |-> frame[h].stars] \in ReviewRow
      BY <2>2, <2>3 DEF ReviewRow
    <3> HIDE DEF x, seen
    <3> QED
      BY <1>r, <3>1, <1>8 DEF SaveReview, x, seen
  <2>5. reviewAsked' \in [Authors \X Schools -> {0} \cup Stars]
    BY <1>r, <2>2, <1>8 DEF SaveReview
  <2> QED
    BY <1>0, <1>8, <2>3, <2>4, <2>5
    DEF SaveReview, At, Return, Mark, MarketTypeOK, MarketSteps, counters, ReviewRow
<1>9. ASSUME FindOwnReview(h) PROVE Goal
  <2>1. PICK a \in Authors, s \in Schools :
            Become(h, [Visiting("review.delete", a, s) EXCEPT !.seen = reviews[<<a, s>>]])
    BY <1>9 DEF FindOwnReview
  <2>2. reviews[<<a, s>>] \in ReviewRow
    BY <1>r
  <2>3. [Visiting("review.delete", a, s) EXCEPT !.seen = reviews[<<a, s>>]] \in MarketFrames
    <3>1. Visiting("review.delete", a, s) \in MarketFrames
      BY <1>s DEF MarketSteps
    <3> DEFINE seen == reviews[<<a, s>>]
    <3>2. seen \in ReviewRow
      BY <2>2
    <3> HIDE DEF seen
    <3>3. [Visiting("review.delete", a, s) EXCEPT !.seen = seen] \in MarketFrames
      BY <3>1, <3>2, MarketFrameChanges
    <3> QED
      BY <3>3 DEF seen
  <2> QED
    BY <1>0, <1>9, <2>1, <2>3 DEF FindOwnReview, Begin, At, MarketTypeOK, marketVars
<1>10. ASSUME DeleteReview(h) PROVE Goal
  <2>1. reviews' \in [Authors \X Schools -> ReviewRow]
    <3>1. NoReview \in ReviewRow
      BY DEF NoReview, ReviewRow
    <3> QED
      BY <1>r, <3>1, <1>10 DEF DeleteReview
  <2>2. reviewAsked' \in [Authors \X Schools -> {0} \cup Stars]
    BY <1>r, <1>10 DEF DeleteReview
  <2> QED
    BY <1>0, <1>10, <2>1, <2>2
    DEF DeleteReview, At, Return, MarketTypeOK, MarketSteps, counters, ReviewRow
<1>11. ASSUME ReviewRefused(h) PROVE Goal
  BY <1>0, <1>f, <1>11
  DEF ReviewRefused, At, MarketTypeOK, counters, MarketSteps, Return, marketVars
<1> QED
  BY <1>1, <1>2, <1>3, <1>4, <1>5, <1>6, <1>7, <1>8, <1>9, <1>10, <1>11 DEF MarketStep
-----------------------------------------------------------------------------
\* The conversation.

\* What a patch of the needs is: some of its fields, each of its type.
NeedsField ==
    {"municipio", "provincia", "classe", "precoMax", "transporte", "integral", "tipoEnsino",
     "browseWide"}
FieldsFit(p) ==
    /\ "municipio" \in DOMAIN p => p["municipio"] \in Names
    /\ "provincia" \in DOMAIN p => p["provincia"] \in Names
    /\ "classe" \in DOMAIN p => p["classe"] \in Names
    /\ "precoMax" \in DOMAIN p => p["precoMax"] \in Nat \cup {None}
    /\ "transporte" \in DOMAIN p => p["transporte"] \in Transport
    /\ "integral" \in DOMAIN p => p["integral"] \in BOOLEAN
    /\ "tipoEnsino" \in DOMAIN p => p["tipoEnsino"] \in Names
    /\ "browseWide" \in DOMAIN p => p["browseWide"] \in BOOLEAN

LEMMA NeedsFit ==
    ASSUME NEW n \in Needs
    PROVE  DOMAIN n = NeedsField /\ FieldsFit(n)
BY DEF Needs, NeedsField, FieldsFit

LEMMA EmptyIsNeeds == EMPTY_NEEDS \in Needs
BY ConciergeAssumption DEF EMPTY_NEEDS, Needs, Transport

\* Whatever has the fields of the needs, each of its type, is needs.
LEMMA Fitting ==
    ASSUME NEW n, DOMAIN n = NeedsField, FieldsFit(n), n = [x \in DOMAIN n |-> n[x]]
    PROVE  n \in Needs
<1>1. n = [municipio |-> n["municipio"], provincia |-> n["provincia"], classe |-> n["classe"],
           precoMax |-> n["precoMax"], transporte |-> n["transporte"], integral |-> n["integral"],
           tipoEnsino |-> n["tipoEnsino"], browseWide |-> n["browseWide"]]
  BY DEF NeedsField
<1> QED
  BY <1>1 DEF FieldsFit, Needs, NeedsField

\* What one record spread over another has.
LEMMA Spreads ==
    ASSUME NEW a, NEW b
    PROVE  /\ DOMAIN Spread(a, b) = DOMAIN a \cup DOMAIN b
           /\ \A f \in DOMAIN a \cup DOMAIN b :
                  Spread(a, b)[f] = IF f \in DOMAIN b THEN b[f] ELSE a[f]
           /\ Spread(a, b) = [f \in DOMAIN Spread(a, b) |-> Spread(a, b)[f]]
BY DEF Spread

LEMMA SpreadFits ==
    ASSUME NEW a, NEW b, FieldsFit(a), FieldsFit(b)
    PROVE  FieldsFit(Spread(a, b))
BY DEF FieldsFit, Spread

\* A patch is some of the fields, each of its type.
LEMMA PatchFits ==
    ASSUME NEW p
    PROVE  IsPatch(p) <=> DOMAIN p \subseteq NeedsField /\ FieldsFit(p)
<1>1. ASSUME IsPatch(p) PROVE DOMAIN p \subseteq NeedsField /\ FieldsFit(p)
  <2> DEFINE n == Spread(EMPTY_NEEDS, p)
  <2>1. DOMAIN n = NeedsField /\ FieldsFit(n)
    BY <1>1, NeedsFit DEF IsPatch, mergeNeeds
  <2>2. DOMAIN p \subseteq NeedsField /\ \A f \in DOMAIN p : n[f] = p[f]
    BY <2>1 DEF Spread
  <2> HIDE DEF n
  <2> QED
    BY <2>1, <2>2 DEF FieldsFit, NeedsField
<1>2. ASSUME DOMAIN p \subseteq NeedsField, FieldsFit(p) PROVE IsPatch(p)
  <2> DEFINE n == Spread(EMPTY_NEEDS, p)
  <2>1. DOMAIN EMPTY_NEEDS = NeedsField /\ FieldsFit(EMPTY_NEEDS)
    BY EmptyIsNeeds, NeedsFit
  <2>2. DOMAIN n = NeedsField /\ FieldsFit(n) /\ n = [x \in DOMAIN n |-> n[x]]
    BY <2>1, <1>2, Spreads, SpreadFits DEF Spread
  <2> HIDE DEF n
  <2>3. n \in Needs
    BY <2>2, Fitting
  <2> QED
    BY <2>3 DEF n, IsPatch, mergeNeeds
<1> QED
  BY <1>1, <1>2

LEMMA MergeTypes ==
    ASSUME NEW n \in Needs, NEW p, IsPatch(p)
    PROVE  mergeNeeds(n, p) \in Needs
<1> DEFINE m == Spread(n, p)
<1>1. DOMAIN n = NeedsField /\ FieldsFit(n)
  BY NeedsFit
<1>2. DOMAIN p \subseteq NeedsField /\ FieldsFit(p)
  BY PatchFits
<1>3. DOMAIN m = NeedsField /\ FieldsFit(m) /\ m = [x \in DOMAIN m |-> m[x]]
  BY <1>1, <1>2, Spreads, SpreadFits DEF Spread
<1> HIDE DEF m
<1>4. m \in Needs
  BY <1>3, Fitting
<1> QED
  BY <1>4 DEF m, mergeNeeds

LEMMA PatchesSpread ==
    ASSUME NEW a, NEW b, IsPatch(a), IsPatch(b)
    PROVE  IsPatch(Spread(a, b))
<1>1. DOMAIN a \subseteq NeedsField /\ FieldsFit(a) /\ DOMAIN b \subseteq NeedsField /\ FieldsFit(b)
  BY PatchFits
<1>2. DOMAIN Spread(a, b) \subseteq NeedsField /\ FieldsFit(Spread(a, b))
  BY <1>1, Spreads, SpreadFits DEF Spread
<1> QED
  BY <1>2, PatchFits

LEMMA EmptyPatch == IsPatch(<<>>)
<1>1. DOMAIN <<>> = {}
  OBVIOUS
<1> QED
  BY <1>1, PatchFits DEF FieldsFit

\* The wide search fills fields of a patch with their defaults.
LEMMA WideTypes ==
    ASSUME NEW p, IsPatch(p), NEW n \in Needs
    PROVE  IsPatch(applyBrowseWideDefaults(p, n))
<1>1. DOMAIN p \subseteq NeedsField /\ FieldsFit(p)
  BY PatchFits
<1>2. DOMAIN n = NeedsField /\ FieldsFit(n)
  BY NeedsFit
<1> DEFINE w == [browseWide |-> TRUE, classe |-> "",
   municipio |-> NeedsFields(p, "municipio", ""),
   provincia |-> NeedsFields(p, "provincia", n.provincia),
   precoMax |-> IF NeedsFields(p, "precoMax", None) = None /\ n.precoMax = None
                THEN FlexibleBudget ELSE NeedsFields(p, "precoMax", n.precoMax),
   transporte |-> IF NeedsFields(p, "transporte", "unknown") = "unknown"
                     /\ n.transporte = "unknown"
                  THEN "no" ELSE NeedsFields(p, "transporte", n.transporte)]
<1>3. DOMAIN w \subseteq NeedsField
  BY DEF NeedsField
<1>4. FieldsFit(w)
  <2>1. NeedsFields(p, "municipio", "") \in Names
    BY <1>1, ConciergeAssumption DEF NeedsFields, FieldsFit
  <2>2. NeedsFields(p, "provincia", n.provincia) \in Names
    BY <1>1, <1>2 DEF NeedsFields, FieldsFit, NeedsField
  <2>3. NeedsFields(p, "precoMax", n.precoMax) \in Nat \cup {None}
    BY <1>1, <1>2 DEF NeedsFields, FieldsFit, NeedsField
  <2>4. NeedsFields(p, "transporte", n.transporte) \in Transport
    BY <1>1, <1>2 DEF NeedsFields, FieldsFit, NeedsField
  <2> QED
    BY <2>1, <2>2, <2>3, <2>4, ConciergeAssumption DEF FieldsFit, Transport
<1>5. IsPatch(w)
  <2> HIDE DEF w
  <2> QED
    BY <1>3, <1>4, PatchFits
<1> QED
  BY <1>5, PatchesSpread DEF applyBrowseWideDefaults

LEMMA ReadingsHavePatches ==
    ASSUME NEW m \in Messages, NEW n \in Needs, NEW hasResults \in BOOLEAN,
           NEW llm \in interpretTurn(m, n, hasResults)
    PROVE  IsPatch(llm.patch)
<1> DEFINE det == parseConciergeTurnDeterministic(m, n)
<1>1. IsPatch(m.patch) /\ IsPatch(applyBrowseWideDefaults(m.patch, n)) /\ IsPatch(<<>>)
  BY ConciergeAssumption, WideTypes, EmptyPatch
<1>2. IsPatch(det.patch)
  BY <1>1 DEF parseConciergeTurnDeterministic, Reading
<1>3. CASE llm = det
  BY <1>2, <1>3
<1>4. ASSUME NEW r \in Readings,
             llm = mergeWithDeterministic(normalizeLlmResult(r, n), det, n, hasResults)
      PROVE  IsPatch(llm.patch)
  <2>1. IsPatch(r.patch) /\ normalizeLlmResult(r, n).patch = r.patch
    BY ConciergeAssumption DEF normalizeLlmResult, Reading
  <2>2. IsPatch(Spread(normalizeLlmResult(r, n).patch, det.patch))
    BY <1>2, <2>1, PatchesSpread
  <2> HIDE DEF det
  <2>3. llm.patch \in {det.patch, <<>>, Spread(normalizeLlmResult(r, n).patch, det.patch)}
    BY <1>4 DEF mergeWithDeterministic, Reading
  <2> QED
    BY <1>1, <1>2, <2>2, <2>3
<1> QED
  BY <1>3, <1>4 DEF interpretTurn

\* A share of an amount is an amount.
LEMMA ShareTypes ==
    ASSUME NEW amount \in Nat
    PROVE  Percent(amount, 85) \in Nat /\ Percent(amount, 125) \in Nat
BY DEF Percent

\* Needs with something changed are needs.
LEMMA NeedsChanges ==
    ASSUME NEW n \in Needs
    PROVE  /\ \A p \in Nat \cup {None} : [n EXCEPT !.precoMax = p] \in Needs
           /\ \A t \in Transport : [n EXCEPT !.transporte = t] \in Needs
           /\ [n EXCEPT !.municipio = ""] \in Needs
           /\ [n EXCEPT !.classe = ""] \in Needs
           /\ \A p \in Nat \cup {None} :
                 [n EXCEPT !.transporte = "unknown", !.integral = FALSE, !.tipoEnsino = "",
                           !.precoMax = p] \in Needs
BY ConciergeAssumption DEF Needs, Transport

LEMMA SoftAdjustTypes ==
    ASSUME NEW n \in Needs, NEW soft
    PROVE  SoftAdjust(n, soft) \in Needs
<1>1. n.precoMax # None => n.precoMax \in Nat
  BY DEF Needs
<1>2. n.precoMax # None => [n EXCEPT !.precoMax = Percent(n.precoMax, 85)] \in Needs
  BY <1>1, ShareTypes, NeedsChanges
<1>3. [n EXCEPT !.transporte = "yes"] \in Needs /\ [n EXCEPT !.transporte = "no"] \in Needs
  BY NeedsChanges DEF Transport
<1> QED
  BY <1>2, <1>3 DEF SoftAdjust

LEMMA RelaxedTypes ==
    ASSUME NEW n \in Needs, NEW step \in 1..3
    PROVE  Relaxed(n, step) \in Needs
<1>1. n.precoMax # None => n.precoMax \in Nat
  BY DEF Needs
<1> DEFINE price == IF n.precoMax = None THEN None ELSE Percent(n.precoMax, 125)
<1>2. price \in Nat \cup {None}
  BY <1>1, ShareTypes
<1>3. step = 1 => Relaxed(n, step) = [n EXCEPT !.transporte = "unknown", !.integral = FALSE,
                                                !.tipoEnsino = "", !.precoMax = price]
  BY DEF Relaxed
<1>4. step = 2 => Relaxed(n, step) = [n EXCEPT !.municipio = ""]
  BY DEF Relaxed
<1>5. step = 3 => Relaxed(n, step) = [n EXCEPT !.classe = ""]
  BY DEF Relaxed
<1>6. step = 1 \/ step = 2 \/ step = 3
  OBVIOUS
<1> HIDE DEF price
<1>7. CASE step = 1
  BY <1>2, <1>3, <1>7, NeedsChanges
<1>8. CASE step = 2 \/ step = 3
  BY <1>4, <1>5, <1>8, NeedsChanges
<1> QED
  BY <1>6, <1>7, <1>8

LEMMA NoSearchTypes == NoSearch \in Search
<1>1. <<>> \in [{} -> Offers]
  OBVIOUS
<1>2. <<>> \in UNION {[ids -> Offers] : ids \in SUBSET Schools}
  BY <1>1
<1> QED
  BY <1>2, EmptyIsNeeds DEF NoSearch, Search

\* A frame with some of what it holds changed is a frame.
LEMMA ConciergeFrameChanges ==
    ASSUME NEW f \in ConciergeFrames
    PROVE  /\ \A s \in ConciergeSteps : [f EXCEPT !.at = s] \in ConciergeFrames
           /\ \A p \in ConciergePhase : [f EXCEPT !.phase = p] \in ConciergeFrames
           /\ \A b \in BOOLEAN : [f EXCEPT !.search = b] \in ConciergeFrames
           /\ \A n \in Needs, p \in ConciergePhase :
                  [f EXCEPT !.needs = n, !.phase = p] \in ConciergeFrames
           /\ \A n \in Needs, b \in BOOLEAN, p \in ConciergePhase :
                  [f EXCEPT !.needs = n, !.search = b, !.phase = p] \in ConciergeFrames
           /\ \A r \in 0..3, n \in Needs : [f EXCEPT !.relax = r, !.needs = n] \in ConciergeFrames
           /\ \A s \in ConciergeSteps, x \in Search :
                  [f EXCEPT !.at = s, !.found = x] \in ConciergeFrames
BY DEF ConciergeFrames, ConciergeSteps

\* A session with some of what it holds changed is a session.
LEMMA SessionChanges ==
    ASSUME NEW s \in Session
    PROVE  /\ [s EXCEPT !.there = FALSE] \in Session
           /\ \A n \in Needs, p \in ConciergePhase : [s EXCEPT !.needs = n, !.phase = p] \in Session
           /\ \A n \in Needs, r \in SUBSET Schools, p \in ConciergePhase :
                  [s EXCEPT !.needs = n, !.results = r, !.phase = p] \in Session
           /\ NewSession(s.id + 1) \in Session
<1>1. s.id + 1 \in Nat
  BY DEF Session
<1>2. NewSession(s.id + 1) \in Session
  BY <1>1, EmptyIsNeeds DEF Session, NewSession, ConciergePhase
<1> QED
  BY <1>2 DEF Session

\* The steps of a conversation.
LEMMA ConciergeStepTypes ==
    ASSUME TypeOK, FrameTypes, NEW h \in Handlers, ConciergeStep(h)
    PROVE  /\ ConciergeTypeOK'
           /\ \E f \in ConciergeFrames \cup {Idle} : Become(h, f)
           /\ frame[h].at \in ConciergeSteps \cup {"idle"}
           /\ stale \subseteq stale' /\ faults' = faults
<1> DEFINE Goal == /\ ConciergeTypeOK'
                   /\ \E f \in ConciergeFrames \cup {Idle} : Become(h, f)
                   /\ frame[h].at \in ConciergeSteps \cup {"idle"}
                   /\ stale \subseteq stale' /\ faults' = faults
<1>0. ConciergeTypeOK /\ frame[h] \in AllFrames
  BY DEF TypeOK, FrameTypes
<1>f. frame[h].at \in ConciergeSteps => frame[h] \in ConciergeFrames
  BY <1>0, FrameOfStep
<1>i. At(h, "idle") /\ frame' = frame => Become(h, Idle)
  BY IdleStays
<1>y. /\ session \in Session /\ told \subseteq Schools /\ llmEnabled \in BOOLEAN
      /\ needsAsked \in Needs /\ sought \in Search
  BY <1>0 DEF ConciergeTypeOK
<1>n. session.needs \in Needs /\ session.phase \in ConciergePhase
  BY <1>y DEF Session
<1>s. \A step \in ConciergeSteps : Talking(step) \in ConciergeFrames
  BY <1>y, <1>n, NoSearchTypes DEF Talking, ConciergeFrames, ConciergeSteps
<1>h. frame[h].at \in ConciergeSteps =>
        /\ frame[h].needs \in Needs /\ frame[h].phase \in ConciergePhase
        /\ frame[h].found \in Search /\ frame[h].row \in Session
        /\ DOMAIN frame[h].found.offers \subseteq Schools
  BY <1>f DEF ConciergeFrames, Search
<1>a. AnswerFromResults(h) => \E f \in ConciergeFrames : Become(h, f)
  BY <1>s, ConciergeFrameChanges DEF AnswerFromResults, ConciergeSteps, ConciergePhase
<1>1. ASSUME CreateSession(h) PROVE Goal
  BY <1>0, <1>i, <1>y, EmptyIsNeeds, NoSearchTypes, SessionChanges, <1>1
  DEF CreateSession, At, ConciergeTypeOK, Serve, Begin, marketVars
<1>2. ASSUME ProcessTurn(h) PROVE Goal
  <2> DEFINE hasResults == session.results # {}
  <2>1. PICK m \in Messages :
            \/ AnswerFromResults(h) \/ UNCHANGED frame
            \/ \E llm \in interpretTurn(m, session.needs, hasResults) : TakeUp(h, llm)
    BY <1>2 DEF ProcessTurn
  <2>2. ASSUME NEW llm \in interpretTurn(m, session.needs, hasResults), TakeUp(h, llm)
        PROVE  \E f \in ConciergeFrames : Become(h, f)
    <3> DEFINE needs == SoftAdjust(mergeNeeds(session.needs, llm.patch), llm.soft)
               nextPhase == IF llm.search \/ (isNeedsReady(needs) /\ ~isNeedsReady(session.needs))
                        THEN "processing"
                        ELSE IF session.results # {} THEN "results" ELSE "collecting"
    <3>1. needs \in Needs
      BY <1>n, <2>2, ReadingsHavePatches, MergeTypes, SoftAdjustTypes
    <3>2. nextPhase \in ConciergePhase
      BY DEF ConciergePhase
    <3>3. Talking("turn.save") \in ConciergeFrames
      BY <1>s DEF ConciergeSteps
    <3>4. Become(h, [Talking("turn.save") EXCEPT !.needs = needs, !.phase = nextPhase])
      BY <2>2 DEF TakeUp
    <3> HIDE DEF needs, nextPhase
    <3> QED
      BY <3>1, <3>2, <3>3, <3>4, ConciergeFrameChanges
  <2>3. \E f \in ConciergeFrames \cup {Idle} : Become(h, f)
    BY <1>2, <1>a, <1>i, <2>1, <2>2 DEF ProcessTurn, Begin
  <2> QED
    BY <1>0, <1>2, <2>3
    DEF ProcessTurn, Begin, At, ConciergeTypeOK, marketVars, conciergeVars
<1>3. ASSUME SaveTurn(h) PROVE Goal
  <2>1. session' \in Session /\ needsAsked' \in Needs
    BY <1>y, <1>h, <1>3, SessionChanges DEF SaveTurn, At, ConciergeSteps
  <2> QED
    BY <1>0, <1>f, <1>3, <2>1, ConciergeFrameChanges
    DEF SaveTurn, At, Goto, Return, Mark, ConciergeTypeOK, ConciergeSteps, counters, marketVars
<1>4. ASSUME PatchNeeds(h) PROVE Goal
  <2>1. PICK patch \in Patches, search \in BOOLEAN :
            LET needs == mergeNeeds(session.needs, patch) IN
            Become(h, [Talking("patch.save") EXCEPT
                !.needs = needs, !.search = search,
                !.phase = IF isNeedsReady(needs) THEN "processing" ELSE "adjusting"])
    BY <1>4 DEF PatchNeeds
  <2> DEFINE needs == mergeNeeds(session.needs, patch)
             nextPhase == IF isNeedsReady(needs) THEN "processing" ELSE "adjusting"
  <2>2. needs \in Needs /\ nextPhase \in ConciergePhase
    BY <1>n, ConciergeAssumption, MergeTypes DEF ConciergePhase
  <2>3. Talking("patch.save") \in ConciergeFrames
    BY <1>s DEF ConciergeSteps
  <2>4. Become(h, [Talking("patch.save") EXCEPT !.needs = needs, !.search = search, !.phase = nextPhase])
    BY <2>1
  <2>5. \E f \in ConciergeFrames : Become(h, f)
    <3> HIDE DEF needs, nextPhase
    <3> QED
      BY <2>2, <2>3, <2>4, ConciergeFrameChanges
  <2> QED
    BY <1>0, <1>4, <2>5 DEF PatchNeeds, Begin, At, ConciergeTypeOK, marketVars, conciergeVars
<1>5. ASSUME SavePatch(h) PROVE Goal
  <2>1. session' \in Session /\ needsAsked' \in Needs
    BY <1>y, <1>h, <1>5, SessionChanges DEF SavePatch, At, ConciergeSteps
  <2> QED
    BY <1>0, <1>f, <1>5, <2>1, ConciergeFrameChanges
    DEF SavePatch, At, Goto, Return, Mark, ConciergeTypeOK, ConciergeSteps, counters, marketVars
<1>6. ASSUME FindSession(h) PROVE Goal
  BY <1>0, <1>s, <1>6
  DEF FindSession, At, ConciergeTypeOK, Begin, ConciergeSteps, marketVars, conciergeVars
<1>7. ASSUME DeleteSession(h) PROVE Goal
  BY <1>0, <1>f, <1>y, SessionChanges, <1>7
  DEF DeleteSession, At, ConciergeTypeOK, counters, ConciergeSteps, Return, marketVars
<1>8. ASSUME DeleteAllSessions(h) PROVE Goal
  BY <1>0, <1>i, <1>y, SessionChanges, <1>8
  DEF DeleteAllSessions, At, ConciergeTypeOK, Serve, Begin, marketVars
<1>9. ASSUME SearchSession(h) PROVE Goal
  BY <1>0, <1>s, ConciergeFrameChanges, <1>9
  DEF SearchSession, At, ConciergeTypeOK, Begin, ConciergeSteps, marketVars, conciergeVars
<1>10. ASSUME ReadForSearch(h) PROVE Goal
  BY <1>0, <1>f, <1>s, ConciergeFrameChanges, <1>10
  DEF ReadForSearch, At, ConciergeTypeOK, counters, ConciergeSteps, marketVars, conciergeVars
<1>11. ASSUME runSearch(h) PROVE Goal
  <2> DEFINE n == frame[h].needs
  <2>1. PICK ids \in FirstCards(needsToMarketplaceFilters(n)) :
            \/ /\ frame[h].relax < 3
               /\ LET step == NextRelaxation(frame[h].relax, n)
                  IN  Become(h, [frame[h] EXCEPT !.relax = step, !.needs = Relaxed(@, step)])
            \/ Become(h, [frame[h] EXCEPT !.at = "search.tell", !.found =
                    [needs |-> frame[h].row.needs, relaxed |-> frame[h].relax > 0,
                     offers |-> [s \in ids |-> market[s].offer]]])
    BY <1>11 DEF runSearch
  <2>2. ids \subseteq Schools
    BY DEF FirstCards, findVisibleSchools
  <2>3. frame[h] \in ConciergeFrames /\ n \in Needs /\ frame[h].row.needs \in Needs
        /\ frame[h].relax \in 0..3
    BY <1>f, <1>h, <1>11 DEF runSearch, At, ConciergeSteps, ConciergeFrames, Session
  <2> DEFINE step == NextRelaxation(frame[h].relax, n)
  <2>4. frame[h].relax < 3 => step \in 1..3
    <3> DEFINE relax == frame[h].relax
    <3>1. relax < 3 => relax = 0 \/ relax = 1 \/ relax = 2
      BY <2>3
    <3> HIDE DEF n, relax
    <3>2. step \in {relax + 1, 3}
      BY DEF NextRelaxation, relax
    <3>3. relax < 3 => relax + 1 \in 1..3
      BY <3>1
    <3> QED
      BY <3>2, <3>3 DEF relax
  <2>5. frame[h].relax < 3 => [frame[h] EXCEPT !.relax = step, !.needs = Relaxed(@, step)]
                                \in ConciergeFrames
    <3> HIDE DEF step
    <3> SUFFICES ASSUME frame[h].relax < 3
                 PROVE  [frame[h] EXCEPT !.relax = step, !.needs = Relaxed(n, step)]
                            \in ConciergeFrames
      OBVIOUS
    <3>1. Relaxed(n, step) \in Needs /\ step \in 0..3
      BY <2>3, <2>4, RelaxedTypes
    <3> QED
      BY <2>3, <3>1, ConciergeFrameChanges
  <2> DEFINE offers == [s \in ids |-> market[s].offer]
             found == [needs |-> frame[h].row.needs, relaxed |-> frame[h].relax > 0, offers |-> offers]
  <2>6. offers \in [ids -> Offers]
    BY <2>2 DEF TypeOK, MarketTypeOK
  <2>7. found \in Search
    <3>1. offers \in UNION {[x -> Offers] : x \in SUBSET Schools}
      BY <2>2, <2>6
    <3> HIDE DEF offers
    <3> QED
      BY <2>3, <3>1 DEF Search
  <2>8. [frame[h] EXCEPT !.at = "search.tell", !.found = found] \in ConciergeFrames
    <3> HIDE DEF found
    <3>1. "search.tell" \in ConciergeSteps
      BY DEF ConciergeSteps
    <3> QED
      BY <2>3, <2>7, <3>1, ConciergeFrameChanges
  <2>9. \E f \in ConciergeFrames : Become(h, f)
    BY <2>1, <2>5, <2>8
  <2> QED
    BY <1>0, <1>11, <2>9
    DEF runSearch, At, ConciergeTypeOK, ConciergeSteps, marketVars, conciergeVars, counters
<1>12. ASSUME TellResults(h) PROVE Goal
  BY <1>0, <1>f, <1>h, ConciergeFrameChanges, <1>12
  DEF TellResults, At, ConciergeTypeOK, counters, ConciergeSteps, Goto, marketVars
<1>13. ASSUME SaveResults(h) PROVE Goal
  <2>1. session' \in Session /\ sought' \in Search
    <3> DEFINE ids == DOMAIN frame[h].found.offers
               nextPhase == IF ids = {} THEN "adjusting" ELSE "results"
    <3>1. frame[h].row.needs \in Needs /\ ids \subseteq Schools /\ frame[h].found \in Search
      BY <1>h, <1>13 DEF SaveResults, At, ConciergeSteps, Session
    <3>2. nextPhase \in ConciergePhase
      BY DEF ConciergePhase
    <3>3. session' = [session EXCEPT !.needs = frame[h].row.needs, !.results = ids, !.phase = nextPhase]
      BY <1>13 DEF SaveResults
    <3>4. sought' = frame[h].found
      BY <1>13 DEF SaveResults
    <3> HIDE DEF ids, nextPhase
    <3> QED
      BY <1>y, <3>1, <3>2, <3>3, <3>4, SessionChanges
  <2> QED
    BY <1>0, <1>13, <2>1
    DEF SaveResults, At, Return, Mark, ConciergeTypeOK, ConciergeSteps, counters, marketVars
<1>14. ASSUME SessionLost(h) PROVE Goal
  BY <1>0, <1>f, <1>14
  DEF SessionLost, At, ConciergeTypeOK, counters, ConciergeSteps, Return, marketVars, conciergeVars
<1> QED
  BY <1>1, <1>2, <1>3, <1>4, <1>5, <1>6, <1>7, <1>8, <1>9, <1>10, <1>11, <1>12, <1>13, <1>14
  DEF ConciergeStep
-----------------------------------------------------------------------------
\* The whole portal.
\* Accounts read the rows of the beta, and the concierge those of the marketplace.
LEMMA AccountsOnlyRead ==
    ASSUME NEW h \in Handlers, AccountStep(h)
    PROVE  UNCHANGED betaVars
BY DEF AccountStep,
      StartRegister, ForgotPassword, assertResendCooldown, DeleteCodes, CreateCode,
      consumeRegisterChallenge, consumePasswordResetChallenge, CountAttempt, ConsumeCode,
      RegisterUser, CreateAdminUser, CreateUser, ResetPassword, UpdateCurrentUser,
      PatchAdminUser, SaveUser, AccountRefused

LEMMA ConciergeOnlyReads ==
    ASSUME NEW h \in Handlers, ConciergeStep(h)
    PROVE  UNCHANGED marketVars
BY DEF ConciergeStep,
      CreateSession, ProcessTurn, SaveTurn, PatchNeeds, SavePatch, FindSession, DeleteSession,
      DeleteAllSessions, SearchSession, ReadForSearch, runSearch, TellResults, SaveResults,
      SessionLost

TInv == TypeOK /\ faults \in Nat /\ \A h \in Handlers : AdmissionHeld(frame[h])

\* The steps of admissions keep what a frame holds.
LEMMA AdmissionHolds ==
    ASSUME TypeOK, FrameTypes, NEW h \in Handlers, AdmissionHeld(frame[h]), AdmissionStep(h),
           NEW f \in AdmissionFrames \cup {Idle}, Become(h, f)
    PROVE  AdmissionHeld(f)
<1> DEFINE Quiet(g) == g.at \notin {"apply.decide", "visit.decide", "visit.create"}
<1>0. frame[h] \in AllFrames /\ frame'[h] = f
  BY DEF FrameTypes, Become
<1>f. frame[h].at \in AdmissionSteps => frame[h] \in AdmissionFrames
  BY <1>0, FrameOfStep
<1>e. frame[h].at \in AdmissionSteps =>
        \A s \in AdmissionSteps : [frame[h] EXCEPT !.at = s].at = s
  BY <1>f DEF AdmissionFrames
<1>q. Quiet(f) => AdmissionHeld(f)
  BY DEF AdmissionHeld
<1>i. Quiet(Idle)
  BY DEF Idle
<1>g. \A s \in AdmissionSteps : frame[h].at \in AdmissionSteps /\ Goto(h, s) => f.at = s
  BY <1>e DEF Goto, Become, FrameTypes
<1>r. Return(h) => f = Idle
  BY DEF Return, Become, FrameTypes
<1>b. \A g : Become(h, g) => f = g
  BY DEF Become, FrameTypes
<1>k. At(h, "idle") /\ frame' = frame => f = Idle
  BY <1>0, FrameOfStep DEF At
<1>1. ASSUME assertCanReceiveApplications(h) PROVE AdmissionHeld(f)
  BY <1>1, <1>b DEF assertCanReceiveApplications, Asking, AdmissionHeld
<1>2. ASSUME CheckClass(h) PROVE Quiet(f)
  BY <1>2, <1>g, <1>r, <1>i DEF CheckClass, At, AdmissionSteps
<1>3. ASSUME CreateApplication(h) PROVE Quiet(f)
  BY <1>3, <1>b, <1>f DEF CreateApplication, At, AdmissionSteps, AdmissionFrames
<1>4. ASSUME notifySchoolMembers(h) PROVE Quiet(f)
  BY <1>4, <1>g DEF notifySchoolMembers, At, AdmissionSteps
<1>5. ASSUME NotifyFamily(h) PROVE Quiet(f)
  BY <1>5, <1>r, <1>i DEF NotifyFamily
<1>6. ASSUME ApproveApplication(h) PROVE AdmissionHeld(f)
  BY <1>6, <1>b DEF ApproveApplication, Asking, AdmissionHeld, Answers
<1>7. ASSUME RejectApplication(h) PROVE AdmissionHeld(f)
  BY <1>7, <1>b DEF RejectApplication, Asking, AdmissionHeld, Answers
<1>8. ASSUME SaveDecision(h) PROVE Quiet(f)
  BY <1>8, <1>g DEF SaveDecision, At, AdmissionSteps
<1>9. ASSUME ScheduleVisit(h) PROVE AdmissionHeld(f)
  <2>1. Len(visits) \in Nat
    BY LenProperties DEF TypeOK, AdmissionTypeOK
  <2>2. f = [Asking("visit.create") EXCEPT !.code = Len(visits) + 1]
    BY <1>9, <1>b DEF ScheduleVisit
  <2> QED
    BY <2>1, <2>2 DEF Asking, AdmissionHeld
<1>10. ASSUME CreateVisit(h) PROVE Quiet(f)
  BY <1>10, <1>b, <1>f DEF CreateVisit, At, AdmissionSteps, AdmissionFrames
<1>11. ASSUME FindPendingVisit(h) PROVE AdmissionHeld(f)
  BY <1>11, <1>b DEF FindPendingVisit, Asking, AdmissionHeld
<1>12. ASSUME DecideVisit(h) PROVE Quiet(f)
  BY <1>12, <1>g DEF DecideVisit, At, AdmissionSteps
<1>13. ASSUME FindNotice(h) PROVE Quiet(f)
  BY <1>13, <1>b DEF FindNotice, Asking
<1>14. ASSUME MarkRead(h) PROVE Quiet(f)
  BY <1>14, <1>r, <1>i DEF MarkRead
<1>15. ASSUME MarkAllRead(h) PROVE Quiet(f)
  BY <1>15, <1>k, <1>i DEF MarkAllRead, Serve, Begin
<1>16. ASSUME AdmissionRefused(h) PROVE Quiet(f)
  BY <1>16, <1>r, <1>i DEF AdmissionRefused
<1> QED
  BY <1>q, <1>1, <1>2, <1>3, <1>4, <1>5, <1>6, <1>7, <1>8, <1>9, <1>10, <1>11, <1>12, <1>13,
     <1>14, <1>15, <1>16 DEF AdmissionStep

\* What each part's frames hold does not concern admissions.
LEMMA OthersHold ==
    ASSUME NEW f \in AllFrames, f \notin AdmissionFrames
    PROVE  AdmissionHeld(f)
<1>1. f.at \notin AdmissionSteps
  BY FrameOfStep
<1> QED
  BY <1>1 DEF AdmissionHeld, AdmissionSteps

LEMMA TypeInit == Init => TInv
<1> SUFFICES ASSUME Init PROVE TInv
  OBVIOUS
<1>0. \A h \in Handlers : frame[h] = Idle
  BY DEF Init, RequestsInit
<1>1. BetaTypeOK
  BY BetaAssumption DEF Init, BetaInit, BetaTypeOK, NoAccess, Access, AccessStatus, TesterType
<1>2. AccountTypeOK
  <2>1. NoUser \in User /\ NewUser("GUARDIAN") \in User
    BY DEF NoUser, NewUser, User, UserRole, Version
  <2>2. \A e \in Emails : NewCode(e, "REGISTER", "GUARDIAN") \in Code
    BY DEF NewCode, Code, Purpose, UserRole
  <2>3. issued \in 0..MaxCodes
    BY AccountsAssumption DEF Init, AccountInit
  <2>4. codes \in [1..issued -> Code]
    BY <2>2 DEF Init, AccountInit
  <2>5. users \in [Emails -> User] /\ lastAsked = users
    BY <2>1 DEF Init, AccountInit
  <2> QED
    BY <2>3, <2>4, <2>5 DEF AccountTypeOK
<1>3. AdmissionTypeOK
  <2>1. receives \in BOOLEAN /\ classActive \in BOOLEAN
        /\ applications = <<>> /\ visits = <<>> /\ notices = <<>>
    BY DEF Init, AdmissionInit
  <2> QED
    BY <2>1, EmptySeq, AdmissionsAssumption DEF AdmissionTypeOK
<1>4. RolloutTypeOK
  BY DEF Init, RolloutInit, RolloutTypeOK, Phase, PlanRow, Entry, EntryStatus
<1>5. ListTypeOK
  <2>1. list \in [name : ListName, filter : Filter]
    BY DEF Init, ListInit, NoList, ListName, Filter
  <2>2. rows \in Seq(Row) /\ Len(rows) <= MaxRows
    <3>1. CASE "list" \in agenda
      <4>1. PICK d \in [1..3 -> Nat] : rows = [i \in 1..3 |-> NewRow(d[i])]
        <5>1. [i \in 1..3 |-> IF list.name = "sessions" THEN i ELSE 0] \in [1..3 -> Nat]
          OBVIOUS
        <5>2. rows = [i \in 1..3 |-> NewRow(IF list.name = "sessions" THEN i ELSE 0)]
          BY <3>1 DEF Init, ListInit
        <5> QED
          BY <5>1, <5>2
      <4>2. rows \in [1..3 -> Row]
        BY <4>1 DEF NewRow, Row
      <4>3. rows \in Seq(Row)
        <5>1. rows \in UNION {[1..n -> Row] : n \in Nat}
          BY <4>2
        <5>2. Seq(Row) = UNION {[1..n -> Row] : n \in Nat}
          BY SeqDef
        <5> QED
          BY <5>1, <5>2
      <4>4. Len(rows) = 3
        BY <4>2, <4>3, LenProperties
      <4> QED
        BY <4>3, <4>4, ListsAssumption
    <3>2. CASE "list" \notin agenda
      <4>1. rows = <<>>
        BY <3>2 DEF Init, ListInit
      <4> QED
        BY <4>1, EmptySeq, ListsAssumption
    <3> QED
      BY <3>1, <3>2
  <2> QED
    BY <2>1, <2>2 DEF Init, ListInit, ListTypeOK
<1>6. MarketTypeOK
  BY DEF Init, MarketInit, MarketTypeOK, NoReview
<1>7. ConciergeTypeOK
  <2>1. [NewSession(0) EXCEPT !.there = FALSE] \in Session
    BY EmptyIsNeeds DEF NewSession, Session, ConciergePhase
  <2>2. \A n \in FirstNeeds :
            [NewSession(1) EXCEPT !.needs = n, !.phase = "processing"] \in Session
    BY EmptyIsNeeds, FirstNeedsAssumption DEF NewSession, Session, ConciergePhase
  <2>3. session \in Session
    BY <2>1, <2>2 DEF Init, ConciergeInit
  <2>4. needsAsked \in Needs
    BY <2>3 DEF Init, ConciergeInit, Session
  <2> QED
    BY <2>3, <2>4, NoSearchTypes DEF Init, ConciergeInit, ConciergeTypeOK
<1>8. /\ frame \in [Handlers -> AllFrames] /\ faults \in Nat
      /\ \A h \in Handlers : AdmissionHeld(frame[h])
  BY DEF Init, RequestsInit, AllFrames, AdmissionHeld, Idle
<1> QED
  BY <1>1, <1>2, <1>3, <1>4, <1>5, <1>6, <1>7, <1>8 DEF TInv, TypeOK, AllFrames

\* What a step leaves alone keeps its type.
LEMMA OtherTypes ==
    ASSUME TypeOK
    PROVE  /\ UNCHANGED betaVars => BetaTypeOK'
           /\ UNCHANGED accountVars => AccountTypeOK'
           /\ UNCHANGED admissionVars => AdmissionTypeOK'
           /\ UNCHANGED rolloutVars => RolloutTypeOK'
           /\ UNCHANGED listVars => ListTypeOK'
           /\ UNCHANGED marketVars => MarketTypeOK'
           /\ UNCHANGED conciergeVars => ConciergeTypeOK'
<1>1. UNCHANGED betaVars => BetaTypeOK'
  BY DEF TypeOK, betaVars, BetaTypeOK
<1>2. UNCHANGED accountVars => AccountTypeOK'
  BY DEF TypeOK, accountVars, AccountTypeOK
<1>3. UNCHANGED admissionVars => AdmissionTypeOK'
  BY DEF TypeOK, admissionVars, AdmissionTypeOK
<1>4. UNCHANGED rolloutVars => RolloutTypeOK'
  BY DEF TypeOK, rolloutVars, RolloutTypeOK
<1>5. UNCHANGED listVars => ListTypeOK'
  BY DEF TypeOK, listVars, ListTypeOK
<1>6. UNCHANGED marketVars => MarketTypeOK'
  BY DEF TypeOK, marketVars, MarketTypeOK
<1>7. UNCHANGED conciergeVars => ConciergeTypeOK'
  BY DEF TypeOK, conciergeVars, ConciergeTypeOK
<1> QED
  BY <1>1, <1>2, <1>3, <1>4, <1>5, <1>6, <1>7

\* ... and its frames what they hold.
LEMMA OtherFrames ==
    ASSUME TInv, NEW h \in Handlers, NEW f \in AllFrames, Become(h, f), AdmissionHeld(f)
    PROVE  FrameTypes' /\ \A k \in Handlers : AdmissionHeld(frame'[k])
<1>1. FrameTypes
  BY DEF TInv, TypeOK, FrameTypes, AllFrames
<1>2. FrameTypes' /\ \A k \in Handlers : frame'[k] = IF k = h THEN f ELSE frame[k]
  BY <1>1, FramesAfter
<1> QED
  BY <1>2 DEF TInv

LEMMA TypeStep == TInv /\ [Next]_vars => TInv'
<1> SUFFICES ASSUME TInv, [Next]_vars PROVE TInv'
  OBVIOUS
<1>0. TypeOK /\ FrameTypes /\ \A h \in Handlers : AdmissionHeld(frame[h])
  BY DEF TInv, TypeOK, FrameTypes, AllFrames
<1> DEFINE Goal == /\ BetaTypeOK' /\ AccountTypeOK' /\ AdmissionTypeOK' /\ RolloutTypeOK'
                   /\ ListTypeOK' /\ MarketTypeOK' /\ ConciergeTypeOK' /\ FrameTypes'
                   /\ \A k \in Handlers : AdmissionHeld(frame'[k])
                   /\ faults' \in {faults, faults + 1}
<1>q. Goal => TInv'
  <2>1. faults' \in {faults, faults + 1} => faults' \in Nat
    BY DEF TInv
  <2> QED
    BY <2>1 DEF TInv, TypeOK, FrameTypes, AllFrames
<1>i. Idle \in AllFrames /\ AdmissionHeld(Idle)
  BY DEF AllFrames, Idle, AdmissionHeld
<1>a. BetaFrames \cup AccountFrames \cup AdmissionFrames \cup RolloutFrames \cup ListFrames
          \cup MarketFrames \cup ConciergeFrames \subseteq AllFrames
  BY DEF AllFrames
<1>o. \A f \in BetaFrames \cup AccountFrames \cup RolloutFrames \cup ListFrames
                 \cup MarketFrames \cup ConciergeFrames : AdmissionHeld(f)
  BY StepOfFrame DEF AdmissionHeld, BetaSteps, AccountSteps, RolloutSteps, ListSteps, MarketSteps,
                     ConciergeSteps
<1>1. ASSUME NEW h \in Handlers, AccountOperation(h) PROVE Goal
  <2>1. BetaTypeOK' /\ AccountTypeOK' /\ faults' = faults
    BY <1>0, <1>1, BetaStepTypes, AccountStepTypes, AccountsOnlyRead, OtherTypes
    DEF AccountOperation
  <2>2. PICK f \in BetaFrames \cup AccountFrames \cup {Idle} : Become(h, f)
    BY <1>0, <1>1, BetaStepTypes, AccountStepTypes DEF AccountOperation
  <2>3. f \in AllFrames /\ AdmissionHeld(f)
    BY <1>a, <1>i, <1>o
  <2> QED
    BY <1>0, <1>1, <2>1, <2>2, <2>3, OtherTypes, OtherFrames
    DEF AccountOperation, AdmissionUnchanged, RolloutUnchanged, ListUnchanged, ConciergeUnchanged
<1>2. ASSUME NEW h \in Handlers, AdmissionOperation(h) PROVE Goal
  <2>1. AdmissionTypeOK' /\ faults' = faults /\ \E f \in AdmissionFrames \cup {Idle} : Become(h, f)
    BY <1>0, <1>2, AdmissionStepTypes DEF AdmissionOperation
  <2>2. PICK f \in AdmissionFrames \cup {Idle} : Become(h, f)
    BY <2>1
  <2>3. f \in AllFrames /\ AdmissionHeld(f)
    BY <1>0, <1>2, <1>a, <1>i, <2>2, AdmissionHolds DEF AdmissionOperation
  <2> QED
    BY <1>0, <1>2, <2>1, <2>2, <2>3, OtherTypes, OtherFrames
    DEF AdmissionOperation, AccountUnchanged, RolloutUnchanged, ListUnchanged, ConciergeUnchanged
<1>3. ASSUME NEW h \in Handlers, RolloutOperation(h) PROVE Goal
  <2>1. RolloutTypeOK' /\ faults' = faults /\ \E f \in RolloutFrames \cup {Idle} : Become(h, f)
    BY <1>0, <1>3, RolloutStepTypes DEF RolloutOperation
  <2>2. PICK f \in RolloutFrames \cup {Idle} : Become(h, f)
    BY <2>1
  <2>3. f \in AllFrames /\ AdmissionHeld(f)
    BY <1>a, <1>i, <1>o
  <2> QED
    BY <1>0, <1>3, <2>1, <2>2, <2>3, OtherTypes, OtherFrames
    DEF RolloutOperation, AccountUnchanged, AdmissionUnchanged, ListUnchanged, ConciergeUnchanged
<1>4. ASSUME NEW h \in Handlers, ListOperation(h) PROVE Goal
  <2>1. ListTypeOK' /\ faults' = faults /\ \E f \in ListFrames \cup {Idle} : Become(h, f)
    BY <1>0, <1>4, ListStepTypes DEF ListOperation
  <2>2. PICK f \in ListFrames \cup {Idle} : Become(h, f)
    BY <2>1
  <2>3. f \in AllFrames /\ AdmissionHeld(f)
    BY <1>a, <1>i, <1>o
  <2> QED
    BY <1>0, <1>4, <2>1, <2>2, <2>3, OtherTypes, OtherFrames
    DEF ListOperation, AccountUnchanged, AdmissionUnchanged, RolloutUnchanged, ConciergeUnchanged
<1>5. ASSUME NEW h \in Handlers, ConciergeOperation(h) PROVE Goal
  <2>1. MarketTypeOK' /\ ConciergeTypeOK' /\ faults' = faults
    BY <1>0, <1>5, MarketStepTypes, ConciergeStepTypes, ConciergeOnlyReads, OtherTypes
    DEF ConciergeOperation
  <2>2. PICK f \in MarketFrames \cup ConciergeFrames \cup {Idle} : Become(h, f)
    BY <1>0, <1>5, MarketStepTypes, ConciergeStepTypes DEF ConciergeOperation
  <2>3. f \in AllFrames /\ AdmissionHeld(f)
    BY <1>a, <1>i, <1>o
  <2> QED
    BY <1>0, <1>5, <2>1, <2>2, <2>3, OtherTypes, OtherFrames
    DEF ConciergeOperation, AccountUnchanged, AdmissionUnchanged, RolloutUnchanged, ListUnchanged
<1>6. ASSUME NEW h \in Handlers, Fault(h) PROVE Goal
  <2>1. Become(h, Idle)
    BY <1>6 DEF Fault, Return
  <2> QED
    BY <1>0, <1>6, <1>i, <2>1, OtherTypes, OtherFrames
    DEF Fault, AccountUnchanged, AdmissionUnchanged, RolloutUnchanged, ListUnchanged,
        ConciergeUnchanged
<1>7. ASSUME Environment PROVE Goal
  <2>1. frame' = frame /\ faults' = faults
    BY <1>7 DEF Environment, CodesAge, SchoolChanges, requestVars, counters
  <2>2. FrameTypes' /\ \A k \in Handlers : AdmissionHeld(frame'[k])
    BY <1>0, <2>1 DEF FrameTypes
  <2>3. CASE CodesAge /\ AdmissionUnchanged /\ RolloutUnchanged /\ ListUnchanged
             /\ ConciergeUnchanged
    <3>1. AccountTypeOK'
      <4>1. PICK i \in 1..issued :
                codes[i].age < 3 /\ codes' = [codes EXCEPT ![i].age = @ + 1]
        BY <2>3 DEF CodesAge
      <4>2. codes[i] \in Code
        BY <1>0 DEF TypeOK, AccountTypeOK
      <4>3. codes[i].age + 1 \in 1..3
        BY <4>1, <4>2 DEF Code
      <4>4. [codes[i] EXCEPT !.age = @ + 1] \in Code
        BY <4>2, <4>3 DEF Code
      <4> QED
        BY <1>0, <2>3, <4>1, <4>4 DEF CodesAge, TypeOK, AccountTypeOK
    <3> QED
      BY <1>0, <2>1, <2>2, <2>3, <3>1, OtherTypes
      DEF CodesAge, AdmissionUnchanged, RolloutUnchanged, ListUnchanged, ConciergeUnchanged
  <2>4. CASE SchoolChanges /\ AccountUnchanged /\ RolloutUnchanged /\ ListUnchanged
             /\ ConciergeUnchanged
    <3>1. AdmissionTypeOK'
      BY <1>0, <2>4 DEF SchoolChanges, TypeOK, AdmissionTypeOK
    <3> QED
      BY <1>0, <2>1, <2>2, <2>4, <3>1, OtherTypes
      DEF AccountUnchanged, RolloutUnchanged, ListUnchanged, ConciergeUnchanged
  <2> QED
    BY <1>7, <2>3, <2>4 DEF Environment
<1>8. ASSUME UNCHANGED vars PROVE Goal
  <2>1. frame' = frame /\ faults' = faults
    BY <1>8 DEF vars, requestVars, counters
  <2>2. FrameTypes' /\ \A k \in Handlers : AdmissionHeld(frame'[k])
    BY <1>0, <2>1 DEF FrameTypes
  <2> QED
    BY <1>0, <1>8, <2>1, <2>2, OtherTypes DEF vars
<1> QED
  BY <1>q, <1>1, <1>2, <1>3, <1>4, <1>5, <1>6, <1>7, <1>8 DEF Next, Waiting

(***************************************************************************)
(* Every row and every request is of its type, whatever requests are       *)
(* served together and wherever they fail.                                 *)
(***************************************************************************)
THEOREM TypeCorrect == Spec => []TypeOK
<1>1. Init => TInv
  BY TypeInit
<1>2. TInv /\ [Next]_vars => TInv'
  BY TypeStep
<1>3. TInv => TypeOK
  BY DEF TInv
<1> QED
  BY <1>1, <1>2, <1>3, PTL DEF Spec
=============================================================================
