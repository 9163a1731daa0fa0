---------------------------- MODULE SchoolState ----------------------------
(***************************************************************************)
(* The rows of one school's profile, the requests on them, and the rules   *)
(* of the School aggregate and of the onboarding evaluator.                *)
(*                                                                         *)
(* An action is one database statement or transaction, or one call of the  *)
(* file storage; between two of them a request holds copies of rows.  The  *)
(* repository's save writes the whole school row it was given.             *)
(*                                                                         *)
(* Left out: requests that are refused before they write, other schools    *)
(* (they share the unique slug only: a collision is a fault of creation),  *)
(* the columns no guard reads, the cover image (it goes the way of the     *)
(* logo), the audit log, mails and notifications.  A school has one class  *)
(* and one subscription here, whose life in time is the billing modules',  *)
(* and when a NIF is overdue is SchoolLegal's.                             *)
(***************************************************************************)
EXTENDS Integers, FiniteSets

CONSTANTS
    Handlers,      \* requests served at the same time
    Levels,        \* education levels
    Agendas,       \* sets of operations: a behaviour is asked those of one of them
    PriceLists,    \* the price lists that are sent in this instance
    Starts,        \* the situations the behaviours of this instance start in
    MaxFiles, MaxPrices, MaxRequests, MaxFaults

\* The tuition of a level: not listed, listed without one, zero, or positive.
Tuition == {"none", "blank", "zero", "set"}

ASSUME LevelsAssumption == Levels # {} /\ IsFiniteSet(Levels)
ASSUME PriceListsAssumption == PriceLists \subseteq [Levels -> Tuition]
ASSUME StartsAssumption == Starts \subseteq {"NONE", "DRAFT", "ACTIVE"}
ASSUME BoundsAssumption ==
    /\ MaxFiles \in Nat \ {0}
    /\ MaxPrices \in Nat \ {0}
    /\ MaxRequests \in Nat
    /\ MaxFaults \in Nat

VARIABLES
    school,       \* the row of schools
    located,      \* the school has a row of school_locations
    services,     \* schools.servicesConfiguredAt is set
    levels,       \* school_education_levels
    class,        \* the row of school_classes
    price,        \* school_prices with its school_price_levels
    gallery,      \* school_galleries
    plan,         \* the school's latest subscription
    files,        \* the file storage
    uploaded,     \* files are numbered in the order of their uploads
    priceIds,     \* price rows are numbered in the order of their creation
    frame,        \* the request a handler is serving
    agenda,       \* what this behaviour is asked
    requests,     \* requests so far
    faults,       \* exceptions and crashes so far
    asked,        \* history: the price lists the school ever sent
    named,        \* history: the files whose URL was ever sent for a logo
    synced,       \* history: the levels the last sync that took effect wanted
    stale         \* history: what was written from a copy that was out of date

SchoolRows == <<school, plan>>
OfferRows == <<located, services, levels, class, synced>>
PriceRows == <<price, priceIds, asked>>
Media == <<gallery, files, uploaded, named>>
counters == <<requests, faults, agenda>>
vars == <<school, plan, located, services, levels, class, price, priceIds,
          asked, synced, gallery, files, uploaded, named, frame, agenda, requests, faults, stale>>

SchoolStatus ==
    {"NONE", "DRAFT", "PENDING_PAYMENT", "PENDING_REVIEW", "ACTIVE", "SUSPENDED",
     "EXPIRED", "REJECTED"}

Files == 1..MaxFiles
NoFile == 0
Link == -1         \* a URL that is not in the file storage

\* The file behind the URL of a logo, if it is one of ours.
FileBehind(logo) == {logo} \cap Files

\* What the rules read of a row of schools.  NONE: there is no row yet.
SchoolRow ==
    [status    : SchoolStatus,
     described : BOOLEAN,                    \* description is not empty
     logo      : Files \cup {NoFile, Link},
     reason    : BOOLEAN,                    \* rejectionReason is set
     reviewed  : BOOLEAN]                    \* reviewedAt is set

NoSchool ==
    [status |-> "NONE", described |-> FALSE, logo |-> NoFile, reason |-> FALSE,
     reviewed |-> FALSE]

ClassState == {"NONE", "ACTIVE", "INACTIVE"}

\* DUE: past its end, and still ACTIVE in its row.
Plan == [state : {"NONE", "VALID", "DUE", "EXPIRED"}, free : BOOLEAN]
NoPlan == [state |-> "NONE", free |-> FALSE]
FreePlan == [state |-> "VALID", free |-> TRUE]
PaidPlan == [state |-> "VALID", free |-> FALSE]
Ended(row) == [row EXCEPT !.state = IF @ = "NONE" THEN "NONE" ELSE "EXPIRED"]

PriceList == [Levels -> Tuition]
NothingListed == [l \in Levels |-> "none"]
Price == [id : 0..MaxPrices, free : BOOLEAN, of : PriceList]
NoPrice == [id |-> 0, free |-> FALSE, of |-> NothingListed]
Listed(list) == {l \in Levels : list[l] # "none"}
Zeroed(list) == [l \in Levels |-> IF list[l] = "none" THEN "none" ELSE "zero"]

\* A list as it is sent: feesAreFree may be left unsaid.
SentList == [fees : {"free", "charged", "unsaid"}, of : PriceList]

GalleryItem == [file : Files, kind : {"PHOTO", "VIDEO"}]
FilesOf(items) == {item.file : item \in items}

-----------------------------------------------------------------------------
(* The School aggregate: the row after a method.                           *)

Create(described, logo) ==
    [NoSchool EXCEPT !.status = "DRAFT", !.described = described, !.logo = logo]

UpdateProfile(row, described, logo) ==
    [row EXCEPT !.described = described, !.logo = logo]

CanSubmit(row) == row.status \in {"DRAFT", "REJECTED", "PENDING_PAYMENT"}

SubmitForActivation(row) ==
    [row EXCEPT !.status = "PENDING_REVIEW", !.reason = FALSE, !.reviewed = FALSE]

ActivateWhateverStatus(row) == [row EXCEPT !.status = "ACTIVE"]

ActivateAfterPaidSubscription(row) ==
    IF row.status \in {"DRAFT", "PENDING_PAYMENT", "EXPIRED"}
    THEN [row EXCEPT !.status = "ACTIVE"] ELSE row

ApproveFromReview(row) ==
    [row EXCEPT !.status = "ACTIVE", !.reason = FALSE, !.reviewed = TRUE]

RejectFromReview(row) ==
    [row EXCEPT !.status = "REJECTED", !.reason = TRUE, !.reviewed = TRUE]

Expire(row) == [row EXCEPT !.status = "EXPIRED"]

Suspend(row) == [row EXCEPT !.status = "SUSPENDED"]

ApplyAdminStatusWithoutReason(row, to) ==
    [row EXCEPT !.status = to, !.reason = FALSE, !.reviewed = TRUE]

ApplyAdminStatus(row, to) ==
    [row EXCEPT !.status = to,
                !.reason = CASE to \in {"SUSPENDED", "REJECTED"} -> TRUE
                             [] to = "ACTIVE" -> FALSE
                             [] OTHER -> @,
                !.reviewed = TRUE]

-----------------------------------------------------------------------------
(* The six steps of the onboarding, as the evaluator reads the rows.       *)

BasicInfo == school.described
EducationOffer == levels # {} /\ class # "NONE"
\* Every offered level has a tuition of at least zero.
PricesStep == price.id # 0 /\ \A l \in levels : price.of[l] \in {"zero", "set"}
GalleryStep == \E item \in gallery : item.kind = "PHOTO"

EvaluateSchoolOnboarding ==
    BasicInfo /\ located /\ EducationOffer /\ services /\ PricesStep /\ GalleryStep

-----------------------------------------------------------------------------
(* Requests.                                                               *)

Steps ==
    {"idle",
     "create.upload", "create.save",
     "update.upload", "update.save", "update.delete", "logo.save", "logo.delete",
     "complete.free", "free.find", "free.create", "free.expire",
     "complete.latest", "submit.find", "submit.plan", "submit.save",
     "approve.save", "reject.save", "admin.plan", "admin.save",
     "pay.school", "pay.save", "job.school", "job.save", "nif.plan", "nif.save",
     "levels.read", "levels.commit", "class.save",
     "price.find", "price.create", "price.lock", "price.commit",
     "gallery.find", "gallery.upload", "gallery.delete", "gallery.commit",
     "gallery.clean", "item.delete", "item.clean"}

Frame ==
    [at     : Steps,
     copy   : SchoolRow,            \* the school as it was read
     next   : SchoolRow,            \* ... and as it will be saved
     class  : ClassState,           \* the class as it was read
     ready  : BOOLEAN,              \* a location and a class were read with the school
     seen   : SUBSET Levels,        \* the levels, or the price levels, that were read
     want   : PriceList,            \* the levels, or the price list, that were sent
     fees   : {"free", "charged", "unsaid"},    \* feesAreFree as it was sent
     free   : BOOLEAN,              \* ... and as it will be saved
     pid    : 0..MaxPrices,         \* the price row that was found
     new    : Files \cup {NoFile},  \* the file that was uploaded
     kind   : {"PHOTO", "VIDEO"},
     old    : SUBSET Files,         \* the files to delete in the end
     gone   : SUBSET Files]         \* gallery rows an open transaction has deleted

Idle ==
    [at |-> "idle", copy |-> NoSchool, next |-> NoSchool, class |-> "NONE",
     ready |-> FALSE, seen |-> {}, want |-> NothingListed, fees |-> "unsaid", free |-> FALSE,
     pid |-> 0, new |-> NoFile, kind |-> "PHOTO", old |-> {}, gone |-> {}]

Copied == {"school", "levels"}

(***************************************************************************)
(* The rows and the copies of them that requests hold have the columns'    *)
(* types, whatever was written from a copy that was out of date.           *)
(***************************************************************************)
TypeOK ==
    /\ school \in SchoolRow
    /\ located \in BOOLEAN
    /\ services \in BOOLEAN
    /\ levels \in SUBSET Levels
    /\ class \in ClassState
    /\ price \in Price
    /\ gallery \in SUBSET GalleryItem
    /\ plan \in Plan
    /\ files \in SUBSET Files
    /\ uploaded \in 0..MaxFiles
    /\ priceIds \in 0..MaxPrices
    /\ frame \in [Handlers -> Frame]
    /\ agenda \in Agendas
    /\ requests \in Nat
    /\ faults \in Nat
    /\ synced \in SUBSET Levels
    /\ asked \in SUBSET SentList
    /\ named \in SUBSET Files
    /\ stale \in SUBSET Copied

ZeroTuition == [l \in Levels |-> "zero"]

\* A behaviour starts with no school, or with one that has been through all
\* the steps of its onboarding, a photo among them.
Init ==
    /\ agenda \in Agendas
    /\ \E start \in Starts :
        LET exists == start # "NONE" IN
        /\ exists \/ "create" \in agenda
        /\ school = [NoSchool EXCEPT !.status = start, !.described = exists]
        /\ located = exists
        /\ services = exists
        /\ levels = IF exists THEN Levels ELSE {}
        /\ class = IF exists THEN "ACTIVE" ELSE "NONE"
        /\ price = IF exists THEN [id |-> 1, free |-> TRUE, of |-> ZeroTuition]
                             ELSE NoPrice
        /\ gallery = IF exists THEN {[file |-> 1, kind |-> "PHOTO"]} ELSE {}
        /\ plan = IF start = "ACTIVE" THEN FreePlan ELSE NoPlan
        /\ uploaded = IF exists THEN 1 ELSE 0
        /\ files = 1..uploaded
        /\ priceIds = price.id
        /\ asked = IF exists THEN {[fees |-> "free", of |-> ZeroTuition]} ELSE {}
    /\ named = {}
    /\ synced = levels
    /\ frame = [h \in Handlers |-> Idle]
    /\ requests = 0
    /\ faults = 0
    /\ stale = {}

At(h, step) == frame[h].at = step
Become(h, f) == frame' = [frame EXCEPT ![h] = f]
Goto(h, step) == Become(h, [frame[h] EXCEPT !.at = step])
Return(h) == Become(h, Idle)

\* A request for the school arrives.
Begin(h, operation) ==
    /\ At(h, "idle")
    /\ operation \in agenda
    /\ requests < MaxRequests
    /\ requests' = requests + 1
    /\ school.status # "NONE"
    /\ UNCHANGED <<faults, agenda>>

\* schools.save of the row h holds: every column of it.
SaveSchoolRow(h, row) ==
    /\ school' = row
    /\ stale' = IF school = frame[h].copy THEN stale ELSE stale \cup {"school"}

\* files.upload: a new file, of a name no other file has.
Upload(h, step) ==
    /\ uploaded < MaxFiles
    /\ uploaded' = uploaded + 1
    /\ files' = files \cup {uploaded'}
    /\ Become(h, [frame[h] EXCEPT !.at = step, !.new = uploaded'])
    /\ UNCHANGED <<gallery, named>>

\* files.delete, one call per file: a failure is logged and forgotten.
DeleteFiles(fs) ==
    /\ \E deleted \in SUBSET fs : files' = files \ deleted
    /\ UNCHANGED <<gallery, uploaded, named>>

\* The URL of a logo is any string: of no file of ours, or of one that was ever
\* uploaded, the gallery's among them.
LogoUrls == {NoFile, Link} \cup 1..uploaded

\* A URL is sent for the logo.
Name(fs) ==
    /\ named' = named \cup fs
    /\ UNCHANGED <<gallery, files, uploaded>>
=============================================================================
