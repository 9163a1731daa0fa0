---------------------------- MODULE PlatformBeta ----------------------------
(***************************************************************************)
(* The closed beta: requests for access, one per e-mail address, seats per *)
(* kind of tester, the decision of an administrator, and the session of a  *)
(* tester who was let in.                                                  *)
(*                                                                         *)
(* Left out: the phone number (one more thing verify compares), the mails, *)
(* the rate limit in front of the endpoints, and the year a session lasts. *)
(***************************************************************************)
EXTENDS Requests

CONSTANTS Emails, MaxSeats

ASSUME BetaAssumption == IsFiniteSet(Emails) /\ MaxSeats \in Nat \ {0}

VARIABLES
    betaEnabled,   \* platform_settings.betaEnabled
    seats,         \* ... its limit for each kind of tester
    access,        \* beta_access_requests, by e-mail
    ruling,        \* history: the last decision on each request
    overbooked     \* history: the kinds whose seats were exceeded knowingly or in a race

betaVars == <<betaEnabled, seats, access, ruling, overbooked>>

TesterType == {"GUARDIAN", "SCHOOL_OWNER"}
AccessStatus == {"NONE", "PENDING", "APPROVED", "REJECTED"}   \* NONE: no row
Access == [status : AccessStatus, type : TesterType, session : BOOLEAN]
NoAccess == [status |-> "NONE", type |-> "GUARDIAN", session |-> FALSE]
Pending(type) == [status |-> "PENDING", type |-> type, session |-> FALSE]

UsedIn(rows, type) ==
    {e \in Emails : rows[e].type = type /\ rows[e].status \in {"PENDING", "APPROVED"}}
countUsedSlots(type) == Cardinality(UsedIn(access, type))

BetaFrames ==
    [at    : {"beta.limit", "beta.count", "beta.write", "beta.session"},
     email : Emails,
     type  : TesterType,
     was   : Access,                   \* the row as it was read
     limit : 0..MaxSeats,              \* the limit that was read
     used  : 0..Cardinality(Emails)]   \* the seats that were counted

BetaTypeOK ==
    /\ betaEnabled \in BOOLEAN
    /\ seats \in [TesterType -> 0..MaxSeats]
    /\ access \in [Emails -> Access]
    /\ ruling \in [Emails -> {"NONE", "APPROVED", "REJECTED"}]
    /\ overbooked \in SUBSET TesterType

BetaInit ==
    /\ betaEnabled \in BOOLEAN
    /\ seats = [t \in TesterType |-> 1]
    /\ access = [e \in Emails |-> NoAccess]
    /\ ruling = [e \in Emails |-> "NONE"]
    /\ overbooked = {}

\* Whether the seats of a kind are exceeded by the rows.
Exceeded(rows, limits) == {t \in TesterType : Cardinality(UsedIn(rows, t)) > limits[t]}

-----------------------------------------------------------------------------

updateSettings(h) ==
    /\ Serve(h, "beta.settings")
    /\ betaEnabled' \in BOOLEAN
    /\ seats' \in [TesterType -> 0..MaxSeats]
    /\ overbooked' = overbooked \cup Exceeded(access, seats')
    /\ UNCHANGED <<access, ruling, stale>>

\* A request that is pending stays as it is; one that was approved is refused.
requestAccess(h) ==
    /\ Begin(h, "beta.request")
    /\ \E email \in Emails, type \in TesterType :
        /\ access[email].status \in {"NONE", "REJECTED"}
        /\ Become(h, [at |-> "beta.limit", email |-> email, type |-> type,
                      was |-> access[email], limit |-> 0, used |-> 0])
    /\ UNCHANGED <<betaVars, stale>>

\* assertSlotAvailable: the limit is read, then the rows are counted.
ReadLimit(h) ==
    /\ At(h, "beta.limit")
    /\ Become(h, [frame[h] EXCEPT !.at = "beta.count", !.limit = seats[frame[h].type]])
    /\ UNCHANGED <<betaVars, counters, stale>>

assertSlotAvailable(h) ==
    /\ At(h, "beta.count")
    /\ Become(h, IF countUsedSlots(frame[h].type) >= frame[h].limit
                 THEN Idle
                 ELSE [frame[h] EXCEPT !.at = "beta.write",
                                       !.used = countUsedSlots(frame[h].type)])
    /\ UNCHANGED <<betaVars, counters, stale>>

\* The row is created, or the rejected one opened again: an update by its id,
\* whatever became of it meanwhile.  The e-mail is unique.
WriteRequest(h) ==
    LET email == frame[h].email
        type == frame[h].type
    IN  /\ At(h, "beta.write")
        /\ frame[h].was.status = "NONE" => access[email].status = "NONE"
        /\ access' = [access EXCEPT ![email] = Pending(type)]
        /\ Mark("access", access[email] = frame[h].was)
        /\ overbooked' = IF countUsedSlots(type) = frame[h].used /\ seats[type] = frame[h].limit
                         THEN overbooked
                         ELSE overbooked \cup Exceeded(access', seats)
        /\ Return(h)
        /\ UNCHANGED <<betaEnabled, seats, ruling, counters>>

\* A decision may follow another one; it does not count the seats.
reviewRequest(h) ==
    /\ Serve(h, "beta.review")
    /\ \E email \in Emails, decision \in {"APPROVED", "REJECTED"} :
        /\ access[email].status # "NONE"
        /\ access' = [access EXCEPT ![email].status = decision,
                                    ![email].session = @ /\ decision = "APPROVED"]
        /\ ruling' = [ruling EXCEPT ![email] = decision]
        /\ overbooked' = overbooked \cup Exceeded(access', seats)
    /\ UNCHANGED <<betaEnabled, seats, stale>>

verifyAndIssueSession(h) ==
    /\ Begin(h, "beta.verify")
    /\ \E email \in Emails :
        /\ access[email].status = "APPROVED"
        /\ Become(h, [at |-> "beta.session", email |-> email, type |-> access[email].type,
                      was |-> access[email], limit |-> 0, used |-> 0])
    /\ UNCHANGED <<betaVars, stale>>

WriteSession(h) ==
    /\ At(h, "beta.session")
    /\ access' = [access EXCEPT ![frame[h].email].session = TRUE]
    /\ Return(h)
    /\ UNCHANGED <<betaEnabled, seats, ruling, overbooked, counters, stale>>

\* A session holds only while the request behind it is approved.
validateSessionToken(email) == access[email].status = "APPROVED" /\ access[email].session

clearSession(h) ==
    /\ Serve(h, "beta.logout")
    /\ \E email \in Emails :
        /\ validateSessionToken(email)
        /\ access' = [access EXCEPT ![email].session = FALSE]
    /\ UNCHANGED <<betaEnabled, seats, ruling, overbooked, stale>>

\* With the beta on, an account needs an approved request of the same kind.
assertCanRegister(email, role) ==
    betaEnabled => access[email].status = "APPROVED" /\ access[email].type = role

BetaRefused(h) ==
    /\ At(h, "beta.write")
    /\ frame[h].was.status = "NONE"
    /\ access[frame[h].email].status # "NONE"
    /\ Return(h)
    /\ UNCHANGED <<betaVars, counters, stale>>

BetaStep(h) ==
    \/ updateSettings(h) \/ requestAccess(h) \/ ReadLimit(h) \/ assertSlotAvailable(h)
    \/ WriteRequest(h) \/ reviewRequest(h) \/ verifyAndIssueSession(h) \/ WriteSession(h)
    \/ clearSession(h) \/ BetaRefused(h)

-----------------------------------------------------------------------------
(***************************************************************************)
(* There are never more pending and approved testers of a kind than seats, *)
(* except where the code lets it happen: an administrator lowers the limit *)
(* or approves a rejected request, or a request was counted and another    *)
(* one was written before it (assertSlotAvailable counts, then writes).    *)
(***************************************************************************)
SeatsHoldUnlessOverbooked == Exceeded(access, seats) \subseteq overbooked
=============================================================================
