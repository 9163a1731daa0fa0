------------------------------ MODULE Accounts ------------------------------
(***************************************************************************)
(* Users, and the codes and links sent to their e-mail addresses.          *)
(*                                                                         *)
(* users.save writes the whole row it was given, and a code is found in    *)
(* one statement and marked in a later one.  A deleted code is a row that  *)
(* is not live.  Left out: the phone number (unique as the e-mail is), the *)
(* hash of a password and the signing of tokens, the mails, and requests   *)
(* that only read (login, refresh, the current user).                      *)
(***************************************************************************)
EXTENDS PlatformBeta

CONSTANTS
    MaxAttempts,   \* MAX_ATTEMPTS: wrong guesses a code takes
    MaxCodes       \* bound: codes and links sent in one behaviour

ASSUME AccountsAssumption == MaxAttempts \in Nat \ {0} /\ MaxCodes \in Nat

VARIABLES
    users,         \* the row of each e-mail address
    codes,         \* email_challenges, numbered in the order of their creation
    issued,        \* codes sent so far
    lastAsked      \* history: what each user's row was last asked to be

accountVars == <<users, codes, issued, lastAsked>>

UserRole == {"GUARDIAN", "SCHOOL_OWNER", "SCHOOL_ADMIN"}
Version == {"first", "second"}       \* of a name or a password
User == [role : UserRole \cup {"NONE"}, active : BOOLEAN, password : Version, name : Version]
NoUser == [role |-> "NONE", active |-> FALSE, password |-> "first", name |-> "first"]
NewUser(role) == [role |-> role, active |-> TRUE, password |-> "first", name |-> "first"]

CodeIds == 1..MaxCodes
Purpose == {"REGISTER", "PASSWORD_RESET"}
Ages == <<"fresh", "cool", "expired">>    \* within the cooldown, after it, past its end
Code ==
    [live : BOOLEAN, email : Emails, purpose : Purpose, role : UserRole,
     attempts : Nat, consumed : BOOLEAN, age : 1..3]

Of(i, email, purpose) ==
    i <= issued /\ codes[i].live /\ codes[i].email = email /\ codes[i].purpose = purpose

\* findFirst, the newest first.
IsNewest(i, email, purpose) ==
    Of(i, email, purpose) /\ \A j \in CodeIds : Of(j, email, purpose) => j <= i
IsNewestOpen(i, email, purpose) ==
    /\ Of(i, email, purpose) /\ ~codes[i].consumed
    /\ \A j \in CodeIds : Of(j, email, purpose) /\ ~codes[j].consumed => j <= i

AccountFrames ==
    [at      : {"issue.cooldown", "issue.delete", "issue.create",
                "code.count", "code.consume", "user.create", "reset.find", "user.save"},
     email   : Emails,
     role    : UserRole,
     purpose : Purpose,
     code    : 0..MaxCodes,                     \* the code that was found
     copy    : User,                            \* the user as read
     next    : User]                            \* ... and as it will be saved

Serving(step, email) ==
    [at |-> step, email |-> email, role |-> "GUARDIAN", purpose |-> "REGISTER", code |-> 0,
     copy |-> NoUser, next |-> NoUser]

AccountTypeOK ==
    /\ users \in [Emails -> User]
    /\ issued \in 0..MaxCodes
    /\ codes \in [1..issued -> Code]
    /\ lastAsked \in [Emails -> User]

NewCode(email, purpose, role) ==
    [live |-> TRUE, email |-> email, purpose |-> purpose, role |-> role, attempts |-> 0,
     consumed |-> FALSE, age |-> 1]

\* Some of the users are there already, and a code may have been sent.
AccountInit ==
    /\ users \in [Emails -> {NoUser, NewUser("GUARDIAN")}]
    /\ issued \in 0..1 /\ issued <= MaxCodes
    /\ codes \in [1..issued -> {NewCode(e, "REGISTER", "GUARDIAN") : e \in Emails}]
    /\ lastAsked = users

-----------------------------------------------------------------------------
(* A code or a link is sent: not within a minute of the last one; the ones *)
(* before it are deleted, then it is created.                              *)

StartRegister(h) ==
    /\ Begin(h, "register")
    /\ \E email \in Emails, role \in {"GUARDIAN", "SCHOOL_OWNER"} :
        /\ users[email].role = "NONE"
        /\ assertCanRegister(email, role)
        /\ Become(h, [Serving("issue.cooldown", email) EXCEPT !.role = role])
    /\ UNCHANGED <<betaVars, accountVars, stale>>

ForgotPassword(h) ==
    /\ Begin(h, "forgot")
    /\ \E email \in Emails :
        /\ users[email].role # "NONE"
        /\ Become(h, [Serving("issue.cooldown", email) EXCEPT !.purpose = "PASSWORD_RESET"])
    /\ UNCHANGED <<betaVars, accountVars, stale>>

assertResendCooldown(h) ==
    /\ At(h, "issue.cooldown")
    /\ IF \E i \in CodeIds : IsNewest(i, frame[h].email, frame[h].purpose) /\ codes[i].age = 1
       THEN Return(h) ELSE Goto(h, "issue.delete")
    /\ UNCHANGED <<betaVars, accountVars, counters, stale>>

DeleteCodes(h) ==
    /\ At(h, "issue.delete")
    /\ codes' = [i \in 1..issued |->
                    [codes[i] EXCEPT !.live = @ /\ ~Of(i, frame[h].email, frame[h].purpose)]]
    /\ Goto(h, "issue.create")
    /\ UNCHANGED <<betaVars, users, issued, lastAsked, counters, stale>>

CreateCode(h) ==
    /\ At(h, "issue.create")
    /\ issued < MaxCodes
    /\ issued' = issued + 1
    /\ codes' = [i \in 1..issued' |->
                    IF i <= issued THEN codes[i]
                    ELSE NewCode(frame[h].email, frame[h].purpose, frame[h].role)]
    /\ Return(h)
    /\ UNCHANGED <<betaVars, users, lastAsked, counters, stale>>

\* Time passes: the older codes age first.
CodesAge ==
    /\ \E i \in 1..issued :
        /\ codes[i].age < 3
        /\ \A j \in 1..(i - 1) : codes[j].age > codes[i].age
        /\ codes' = [codes EXCEPT ![i].age = @ + 1]
    /\ UNCHANGED <<betaVars, users, issued, lastAsked, requestVars>>

-----------------------------------------------------------------------------
(* The code comes back.                                                    *)

\* Any number of wrong codes may be sent.
consumeRegisterChallengeUncounted(h) ==
    /\ Begin(h, "confirm")
    /\ \E i \in 1..issued, step \in {"code.count", "code.consume"} :
        /\ IsNewestOpen(i, codes[i].email, "REGISTER")
        /\ codes[i].age < 3
        /\ Become(h, [Serving(step, codes[i].email) EXCEPT !.code = i, !.role = codes[i].role])
    /\ UNCHANGED <<betaVars, accountVars, stale>>

\* The newest open code is found and checked; a wrong guess is counted next.
consumeRegisterChallenge(h) ==
    /\ Begin(h, "confirm")
    /\ \E i \in 1..issued, step \in {"code.count", "code.consume"} :
        /\ IsNewestOpen(i, codes[i].email, "REGISTER")
        /\ codes[i].age < 3
        /\ codes[i].attempts < MaxAttempts
        /\ Become(h, [Serving(step, codes[i].email) EXCEPT !.code = i, !.role = codes[i].role])
    /\ UNCHANGED <<betaVars, accountVars, stale>>

consumePasswordResetChallenge(h) ==
    /\ Begin(h, "reset")
    /\ \E i \in 1..issued :
        /\ IsNewestOpen(i, codes[i].email, "PASSWORD_RESET")
        /\ codes[i].age < 3
        /\ Become(h, [Serving("code.consume", codes[i].email) EXCEPT
                         !.code = i, !.purpose = "PASSWORD_RESET"])
    /\ UNCHANGED <<betaVars, accountVars, stale>>

CountAttempt(h) ==
    /\ At(h, "code.count")
    /\ codes[frame[h].code].live
    /\ codes' = [codes EXCEPT ![frame[h].code].attempts = @ + 1]
    /\ Return(h)
    /\ UNCHANGED <<betaVars, users, issued, lastAsked, counters, stale>>

\* Marked by its id: two requests that found it both go on.
ConsumeCode(h) ==
    /\ At(h, "code.consume")
    /\ codes[frame[h].code].live
    /\ codes' = [codes EXCEPT ![frame[h].code].consumed = TRUE]
    /\ Goto(h, IF frame[h].purpose = "REGISTER" THEN "user.create" ELSE "reset.find")
    /\ UNCHANGED <<betaVars, users, issued, lastAsked, counters, stale>>

-----------------------------------------------------------------------------
(* Users.                                                                  *)

\* The older registration, behind an administrator.
RegisterUser(h) ==
    /\ Begin(h, "legacy")
    /\ \E email \in Emails, role \in UserRole :
        /\ assertCanRegister(email, role)
        /\ users[email].role = "NONE"
        /\ Become(h, [Serving("user.create", email) EXCEPT !.role = role])
    /\ UNCHANGED <<betaVars, accountVars, stale>>

CreateAdminUser(h) ==
    /\ Begin(h, "createAdmin")
    /\ \E email \in Emails :
        /\ users[email].role = "NONE"
        /\ Become(h, [Serving("user.create", email) EXCEPT !.role = "SCHOOL_ADMIN"])
    /\ UNCHANGED <<betaVars, accountVars, stale>>

\* The e-mail is unique.
CreateUser(h) ==
    /\ At(h, "user.create")
    /\ users[frame[h].email].role = "NONE"
    /\ users' = [users EXCEPT ![frame[h].email] = NewUser(frame[h].role)]
    /\ lastAsked' = [lastAsked EXCEPT ![frame[h].email] = NewUser(frame[h].role)]
    /\ Return(h)
    /\ UNCHANGED <<betaVars, codes, issued, counters, stale>>

Holding(h, email, next) ==
    Become(h, [Serving("user.save", email) EXCEPT !.copy = users[email], !.next = next])

ResetPassword(h) ==
    /\ At(h, "reset.find")
    /\ \E version \in Version :
        Holding(h, frame[h].email, [users[frame[h].email] EXCEPT !.password = version])
    /\ UNCHANGED <<betaVars, accountVars, counters, stale>>

UpdateCurrentUser(h) ==
    /\ Begin(h, "profile")
    /\ \E email \in Emails, version \in Version :
        /\ users[email].role # "NONE"
        /\ users[email].active
        /\ Holding(h, email, [users[email] EXCEPT !.name = version])
    /\ UNCHANGED <<betaVars, accountVars, stale>>

PatchAdminUser(h) ==
    /\ Begin(h, "patchUser")
    /\ \E email \in Emails, active \in BOOLEAN :
        /\ users[email].role # "NONE"
        /\ Holding(h, email, [users[email] EXCEPT !.active = active])
    /\ UNCHANGED <<betaVars, accountVars, stale>>

\* What the request wanted to change, in the row that is there.
Apply(row, f) ==
    [row EXCEPT !.active = IF f.next.active # f.copy.active THEN f.next.active ELSE @,
                !.password = IF f.next.password # f.copy.password THEN f.next.password ELSE @,
                !.name = IF f.next.name # f.copy.name THEN f.next.name ELSE @]

\* save: every column of the row.
SaveUser(h) ==
    LET email == frame[h].email IN
    /\ At(h, "user.save")
    /\ users' = [users EXCEPT ![email] = frame[h].next]
    /\ lastAsked' = [lastAsked EXCEPT ![email] = Apply(@, frame[h])]
    /\ Mark("users", users[email] = frame[h].copy)
    /\ Return(h)
    /\ UNCHANGED <<betaVars, codes, issued, counters>>

\* An update of a code that was deleted, a user that exists already.
AccountRefused(h) ==
    /\ \/ frame[h].at \in {"code.count", "code.consume"} /\ ~codes[frame[h].code].live
       \/ At(h, "user.create") /\ users[frame[h].email].role # "NONE"
       \/ At(h, "issue.create") /\ issued = MaxCodes
    /\ Return(h)
    /\ UNCHANGED <<betaVars, accountVars, counters, stale>>

AccountStep(h) ==
    \/ StartRegister(h) \/ ForgotPassword(h) \/ assertResendCooldown(h) \/ DeleteCodes(h)
    \/ CreateCode(h) \/ consumeRegisterChallenge(h) \/ consumePasswordResetChallenge(h)
    \/ CountAttempt(h) \/ ConsumeCode(h) \/ RegisterUser(h) \/ CreateAdminUser(h)
    \/ CreateUser(h) \/ ResetPassword(h) \/ UpdateCurrentUser(h) \/ PatchAdminUser(h)
    \/ SaveUser(h) \/ AccountRefused(h)

-----------------------------------------------------------------------------
(***************************************************************************)
(* A code takes MAX_ATTEMPTS wrong guesses and, since the attempts are read *)
(* before they are counted, at most one more for each other request that   *)
(* had read them by then.                                                  *)
(***************************************************************************)
AttemptsBounded ==
    \A i \in 1..issued : codes[i].attempts < MaxAttempts + Cardinality(Handlers)

(***************************************************************************)
(* A user is what the last requests on him asked for (a deactivated one    *)
(* stays deactivated, a new password stays), and an approved tester is one *)
(* whose last ruling let him in, unless a row was saved from a copy that   *)
(* was out of date.                                                        *)
(***************************************************************************)
UsersAreAsLastAsked == "users" \notin stale => users = lastAsked
RulingsStand ==
    "access" \notin stale =>
        \A e \in Emails : ruling[e] = "APPROVED" => access[e].status = "APPROVED"
=============================================================================
