------------------------- MODULE SchoolPortalProofs -------------------------
(***************************************************************************)
(* For every number of concurrent requests, levels, files and bounds, and  *)
(* under any exceptions and crashes: the types, the files behind the       *)
(* gallery and the logo (and the refinement of FileReferences), the reason *)
(* of a rejection, the list of prices, the levels, and the steps of the    *)
(* status.                                                                 *)
(*                                                                         *)
(* None is inductive: a save writes what a request holds.  IInv says what  *)
(* requests hold: a sound pair of rows (Sound), a list that was sent       *)
(* (HoldsPrice), and files that are the logo's, the gallery's, or uploaded *)
(* and not yet shown by any row, never two of these at once unless their   *)
(* URL was sent for a logo (MediaInv).                                     *)
(***************************************************************************)
EXTENDS SchoolPortal, TLAPS

RowTypes ==
    /\ school \in SchoolRow
    /\ plan \in Plan
    /\ located \in BOOLEAN
    /\ services \in BOOLEAN
    /\ levels \in SUBSET Levels
    /\ class \in ClassState
    /\ price \in Price
    /\ gallery \in SUBSET GalleryItem
    /\ files \in SUBSET Files
    /\ uploaded \in 0..MaxFiles
    /\ priceIds \in 0..MaxPrices
    /\ synced \in SUBSET Levels
    /\ asked \in SUBSET SentList
    /\ named \in SUBSET Files
    /\ stale \in SUBSET Copied

CounterTypes ==
    /\ agenda \in Agendas
    /\ requests \in Nat
    /\ faults \in Nat

FrameTypes == frame \in [Handlers -> Frame]

-----------------------------------------------------------------------------
(* What one request holds, whatever the rows are by now.                   *)

CreateSteps == {"create.upload", "create.save"}
UpdateSteps == {"update.upload", "update.save"}

\* Steps that hold a row to be saved with another status.
StatusSteps ==
    {"submit.plan", "submit.save", "approve.save", "reject.save", "admin.plan",
     "admin.save", "pay.save", "job.save", "nif.plan", "nif.save", "free.expire"}

WithReason(row) ==
    row.status = "REJECTED" => row.reason /\ row.reviewed

HoldsStatus(f) ==
    /\ f.at \in CreateSteps => f.next.status = "DRAFT"
    /\ f.at \in UpdateSteps \cup {"logo.save"} => f.next.status = f.copy.status
    /\ f.at = "submit.plan" => f.next.status = "PENDING_REVIEW"
    /\ f.at = "nif.plan" => f.copy.status = "ACTIVE" /\ f.next.status = "SUSPENDED"
    /\ ActorOf(f.at) \notin {"none", "create"} =>
          \/ f.next.status = f.copy.status
          \/ <<f.copy.status, f.next.status>> \in LegalSteps[ActorOf(f.at)]

HoldsLogo(f) ==
    /\ f.at = "update.save" /\ f.old # {} => f.new # NoFile
    /\ f.at = "logo.save" => f.next.logo = NoFile
    /\ f.at \in StatusSteps => f.next.logo = f.copy.logo

Sound(f) ==
    /\ WithReason(f.copy)
    /\ WithReason(f.next)
    /\ HoldsStatus(f)
    /\ HoldsLogo(f)
    /\ f.at \in {"gallery.delete", "gallery.commit"} => f.new # NoFile

-----------------------------------------------------------------------------
(* Prices: what a request wants was sent, and who has the row locked knows *)
(* the level rows it has.                                                  *)

PriceSteps == {"price.find", "price.create", "price.lock", "price.commit"}

\* What may be saved of the lists that were sent.
SentAs(free, of) ==
    /\ \E sent \in asked :
          /\ sent.fees = "free" => free
          /\ sent.fees = "charged" => ~free
          /\ of = IF free THEN Zeroed(sent.of) ELSE sent.of
    /\ free => \E sent \in asked : sent.fees = "free"

HoldsPrice(f) ==
    /\ f.at = "price.find" => [fees |-> f.fees, of |-> f.want] \in asked
    /\ f.at \in PriceSteps \ {"price.find"} => SentAs(f.free, f.want)
    /\ f.at = "price.lock" => f.pid # 0
    /\ f.at = "price.commit" => price.id # 0 /\ f.seen = Listed(price.of)

PriceInv ==
    /\ price.id # 0 => SentAs(price.free, price.of)
    /\ price.id = 0 => ~price.free
    /\ \A h \in Handlers : HoldsPrice(frame[h])
    /\ \A g, h \in Handlers : At(g, "price.commit") /\ At(h, "price.commit") => g = h

-----------------------------------------------------------------------------
(* Files: the logo's, the gallery's, and the pending ones.  A file whose   *)
(* URL was sent for a logo may be any of them.                             *)

LogoSteps == {"update.upload", "update.save", "update.delete", "logo.save", "logo.delete"}
GallerySteps ==
    {"gallery.upload", "gallery.delete", "gallery.commit", "gallery.clean",
     "item.delete", "item.clean"}
PendingSteps == {"create.save", "update.save", "gallery.delete", "gallery.commit"}

LogoFilesOf(f) ==
    {f.copy.logo, f.next.logo} \cup {x \in f.old : f.at \in LogoSteps}
GalleryFilesOf(f) == {x \in f.old : f.at \in GallerySteps}
Pending(f) == {x \in Files : f.at \in PendingSteps /\ x = f.new}

\* The files a request will delete, once the gallery no longer shows them.
Unshown(f) ==
    /\ f.at = "gallery.commit" => f.old \cap FilesOf(gallery) \subseteq f.gone \cup named
    /\ f.at \in {"gallery.clean", "item.clean"} => f.old \cap FilesOf(gallery) \subseteq named

InLogo(x) == x = school.logo \/ \E h \in Handlers : x \in LogoFilesOf(frame[h])
InGallery(x) ==
    x \in FilesOf(gallery) \/ \E h \in Handlers : x \in GalleryFilesOf(frame[h])

Numbered ==
    /\ files \subseteq 1..uploaded
    /\ \A x \in Files \ named : InLogo(x) \/ InGallery(x) => x <= uploaded

Apart ==
    /\ \A x \in Files \ named : ~(InLogo(x) /\ InGallery(x))
    /\ \A h \in Handlers : \A x \in Pending(frame[h]) \ named :
          x \in files /\ ~InLogo(x) /\ ~InGallery(x)
    /\ \A g, h \in Handlers :
          g # h => Pending(frame[g]) \cap Pending(frame[h]) \subseteq named

MediaInv ==
    /\ GalleryFilesExist
    /\ Numbered
    /\ Apart
    /\ \A h \in Handlers : Unshown(frame[h])

\* The URL a request will save was sent, or is the one it read.
SentLogo(f) ==
    /\ f.at \in CreateSteps => FileBehind(f.next.logo) \subseteq named
    /\ f.at \in UpdateSteps =>
          f.next.logo = f.copy.logo \/ FileBehind(f.next.logo) \subseteq named

\* No request deletes the file the school's row points to.
LogoInv ==
    /\ \A h \in Handlers : SentLogo(frame[h])
    /\ "school" \notin stale =>
        /\ FileBehind(school.logo) \ named \subseteq files
        /\ \A h \in Handlers :
              frame[h].at \in {"update.delete", "logo.delete"} =>
                  FileBehind(school.logo) \cap frame[h].old \subseteq named

IInv ==
    /\ TypeOK
    /\ WithReason(school)
    /\ \A h \in Handlers : Sound(frame[h])
    /\ PriceInv
    /\ MediaInv
    /\ LogoInv

-----------------------------------------------------------------------------
(* Types.                                                                  *)

\* TypeOK in three parts: rows, counters, frames.
LEMMA TypeParts == TypeOK <=> RowTypes /\ CounterTypes /\ FrameTypes
BY DEF TypeOK, RowTypes, CounterTypes, FrameTypes

\* The absent rows and the idle frame have their types.
LEMMA IdleType == NoSchool \in SchoolRow /\ NothingListed \in PriceList /\ Idle \in Frame
<1>1. NoSchool \in SchoolRow
  BY DEF NoSchool, SchoolRow, SchoolStatus
<1>2. NothingListed \in PriceList
  BY DEF NothingListed, PriceList, Tuition
<1> QED
  BY <1>1, <1>2, BoundsAssumption DEF Idle, Frame, Steps, ClassState

\* The initial states are typed.
LEMMA InitType == Init => TypeOK
<1> SUFFICES ASSUME Init PROVE TypeOK
  OBVIOUS
<1>1. CounterTypes /\ FrameTypes
  BY IdleType DEF Init, CounterTypes, FrameTypes
<1>2. PICK start \in Starts :
        LET exists == start # "NONE" IN
        /\ school = [NoSchool EXCEPT !.status = start, !.described = exists]
        /\ located = exists
        /\ services = exists
        /\ levels = IF exists THEN Levels ELSE {}
        /\ class = IF exists THEN "ACTIVE" ELSE "NONE"
        /\ price = IF exists THEN [id |-> 1, free |-> TRUE, of |-> ZeroTuition]
                             ELSE NoPrice
        /\ gallery = IF exists THEN {[file |-> 1, kind |-> "PHOTO"]} ELSE {}
        /\ plan = IF start = "ACTIVE" THEN FreePlan ELSE NoPlan
        /\ uploaded = IF exists THEN 1 ELSE 0
        /\ files = 1..uploaded
        /\ priceIds = price.id
        /\ asked = IF exists THEN {[fees |-> "free", of |-> ZeroTuition]} ELSE {}
  BY DEF Init
<1>3. school \in SchoolRow
  BY <1>2, StartsAssumption DEF NoSchool, SchoolRow, SchoolStatus
<1>4. ZeroTuition \in PriceList
  BY DEF ZeroTuition, PriceList, Tuition
<1>5. price \in Price /\ priceIds \in 0..MaxPrices
  BY <1>2, <1>4, IdleType, BoundsAssumption DEF Price, NoPrice
<1>6. uploaded \in 0..MaxFiles /\ files \in SUBSET Files
  BY <1>2, BoundsAssumption DEF Files
<1>7. gallery \in SUBSET GalleryItem
  BY <1>2, BoundsAssumption DEF Files, GalleryItem
<1>8. plan \in Plan /\ class \in ClassState /\ located \in BOOLEAN /\ services \in BOOLEAN
  BY <1>2 DEF Plan, FreePlan, NoPlan, ClassState
<1>9. levels \in SUBSET Levels /\ synced \in SUBSET Levels /\ stale \in SUBSET Copied
  BY <1>2 DEF Init
<1>10. asked \in SUBSET SentList /\ named \in SUBSET Files
  BY <1>2, <1>4 DEF SentList, Init
<1> QED
  BY <1>1, <1>3, <1>5, <1>6, <1>7, <1>8, <1>9, <1>10, TypeParts DEF RowTypes

\* The rows of the aggregate after its methods are rows.
LEMMA RowRules ==
    ASSUME NEW row \in SchoolRow
    PROVE  /\ \A described \in BOOLEAN, logo \in Files \cup {NoFile, Link} :
                /\ Create(described, logo) \in SchoolRow
                /\ UpdateProfile(row, described, logo) \in SchoolRow
                /\ [row EXCEPT !.logo = logo] \in SchoolRow
           /\ SubmitForActivation(row) \in SchoolRow
           /\ ActivateAfterPaidSubscription(row) \in SchoolRow
           /\ ApproveFromReview(row) \in SchoolRow
           /\ RejectFromReview(row) \in SchoolRow
           /\ Expire(row) \in SchoolRow
           /\ Suspend(row) \in SchoolRow
           /\ \A to \in SchoolStatus : ApplyAdminStatus(row, to) \in SchoolRow
BY DEF SchoolRow, SchoolStatus, Create, NoSchool, UpdateProfile, SubmitForActivation,
   ActivateAfterPaidSubscription, ApproveFromReview, RejectFromReview, Expire, Suspend,
   ApplyAdminStatus, NoFile, Link

\* A frame of the right type keeps the frames typed.
LEMMA BecomeType ==
    ASSUME FrameTypes, NEW h \in Handlers, NEW f \in Frame, Become(h, f)
    PROVE  FrameTypes'
BY DEF FrameTypes, Become

-----------------------------------------------------------------------------
(* What the kinds of steps have in common.                                 *)

\* Only the frame of the request that moves changes.
LEMMA FramesAfter ==
    ASSUME TypeOK, NEW h \in Handlers, NEW f \in Frame, Become(h, f)
    PROVE  \A g \in Handlers : frame'[g] = IF g = h THEN f ELSE frame[g]
BY DEF TypeOK, Become

\* An idle frame holds nothing that could be wrong.
LEMMA IdleSound == Sound(Idle) /\ WithReason(NoSchool)
BY DEF Sound, WithReason, HoldsStatus, HoldsLogo, Idle, NoSchool, CreateSteps,
   UpdateSteps, StatusSteps, ActorOf

\* The frames' own part of a step.
LEMMA SoundKept ==
    ASSUME TypeOK, \A g \in Handlers : Sound(frame[g]),
           NEW h \in Handlers, NEW f \in Frame, Become(h, f), Sound(f)
    PROVE  (\A g \in Handlers : Sound(frame[g]))'
<1>1. \A g \in Handlers : frame'[g] = IF g = h THEN f ELSE frame[g]
  BY FramesAfter
<1> QED
  BY <1>1

\* What was sent stays sent.
LEMMA SentStays ==
    ASSUME asked \subseteq asked', NEW free, NEW of, SentAs(free, of)
    PROVE  SentAs(free, of)'
BY DEF SentAs

\* Prices: a request that moves while the price row stays.
LEMMA PriceKept ==
    ASSUME TypeOK, PriceInv, NEW h \in Handlers, NEW f \in Frame, Become(h, f),
           price' = price, asked \subseteq asked', HoldsPrice(f)',
           f.at = "price.commit" => PriceUnlocked
    PROVE  PriceInv'
<1>1. \A g \in Handlers : frame'[g] = IF g = h THEN f ELSE frame[g]
  BY FramesAfter
<1>2. /\ price'.id # 0 => SentAs(price.free, price.of)'
      /\ price'.id = 0 => ~price'.free
  BY DEF PriceInv, SentAs
<1>3. ASSUME NEW g \in Handlers PROVE HoldsPrice(frame[g])'
  <2>1. CASE g = h
    BY <2>1, <1>1
  <2>2. CASE g # h
    BY <2>2, <1>1 DEF PriceInv, HoldsPrice, SentAs
  <2> QED
    BY <2>1, <2>2
<1>4. (\A i, j \in Handlers : At(i, "price.commit") /\ At(j, "price.commit") => i = j)'
  BY <1>1 DEF PriceInv, At, PriceUnlocked
<1> QED
  BY <1>2, <1>3, <1>4 DEF PriceInv

\* Where the files are after a step, in terms of the frame that changed.
LEMMA InLogoAfter ==
    ASSUME TypeOK, NEW h \in Handlers, NEW f \in Frame, Become(h, f), NEW x
    PROVE  InLogo(x)' <=> \/ x = school'.logo
                          \/ x \in LogoFilesOf(f)
                          \/ \E g \in Handlers \ {h} : x \in LogoFilesOf(frame[g])
<1>1. \A g \in Handlers : frame'[g] = IF g = h THEN f ELSE frame[g]
  BY FramesAfter
<1> QED
  BY <1>1 DEF InLogo

\* ... and of the gallery's.
LEMMA InGalleryAfter ==
    ASSUME TypeOK, NEW h \in Handlers, NEW f \in Frame, Become(h, f), NEW x
    PROVE  InGallery(x)' <=> \/ x \in FilesOf(gallery')
                             \/ x \in GalleryFilesOf(f)
                             \/ \E g \in Handlers \ {h} : x \in GalleryFilesOf(frame[g])
<1>1. \A g \in Handlers : frame'[g] = IF g = h THEN f ELSE frame[g]
  BY FramesAfter
<1> QED
  BY <1>1 DEF InGallery

\* A step that writes no file: what the logo or the gallery newly refers to,
\* the request had pending, and it is pending no more.
LEMMA MediaKept ==
    ASSUME TypeOK, MediaInv, NEW h \in Handlers, NEW f \in Frame, Become(h, f),
           gallery' \in SUBSET GalleryItem, UNCHANGED <<files, uploaded>>, named \subseteq named',
           Pending(f) \subseteq Pending(frame[h]),
           \A x \in Files \ named' : x \in FilesOf(gallery') \cup GalleryFilesOf(f) =>
               InGallery(x) \/ x \in Pending(frame[h]) \ Pending(f),
           \A x \in Files \ named' : x \in {school'.logo} \cup LogoFilesOf(f) =>
               \/ InLogo(x)
               \/ x \in Pending(frame[h]) \ Pending(f) /\ ~InGallery(x)',
           FilesOf(gallery') \subseteq FilesOf(gallery) \cup (Pending(frame[h]) \ Pending(f)),
           Unshown(f)'
    PROVE  MediaInv'
<1>1. \A g \in Handlers : frame'[g] = IF g = h THEN f ELSE frame[g]
  BY FramesAfter
<1>2. ASSUME NEW x \in Files \ named', InGallery(x)'
      PROVE  InGallery(x) \/ x \in Pending(frame[h]) \ Pending(f)
  BY <1>2, InGalleryAfter DEF InGallery
<1>3. ASSUME NEW x \in Files \ named', InLogo(x)'
      PROVE  \/ InLogo(x)
             \/ x \in Pending(frame[h]) \ Pending(f) /\ ~InGallery(x)'
  BY <1>3, InLogoAfter DEF InLogo
<1>4. GalleryFilesExist'
  BY DEF MediaInv, GalleryFilesExist, Apart
<1>5. Numbered'
  <2>1. \A x \in Pending(frame[h]) \ named : x \in 1..uploaded
    BY DEF MediaInv, Apart, Numbered
  <2>2. uploaded \in Int
    BY BoundsAssumption DEF TypeOK
  <2> QED
    BY <1>2, <1>3, <2>1, <2>2 DEF MediaInv, Numbered
<1>6. Apart'
  <2>1. ASSUME NEW x \in Files \ named' PROVE ~(InLogo(x)' /\ InGallery(x)')
    BY <1>2, <1>3 DEF MediaInv, Apart
  <2>2. ASSUME NEW g \in Handlers, NEW x \in Pending(frame'[g]) \ named'
        PROVE  x \in files' /\ ~InLogo(x)' /\ ~InGallery(x)'
    <3>1. x \in Files
      BY DEF Pending
    <3>2. CASE g = h
      BY <3>1, <3>2, <1>1, <1>2, <1>3 DEF MediaInv, Apart
    <3>3. CASE g # h
      <4>1. x \in Pending(frame[g]) \ named /\ x \notin Pending(frame[h])
        BY <3>3, <1>1 DEF MediaInv, Apart
      <4> QED
        BY <4>1, <3>1, <1>2, <1>3 DEF MediaInv, Apart
    <3> QED
      BY <3>2, <3>3
  <2>3. ASSUME NEW g \in Handlers, NEW k \in Handlers, g # k
        PROVE  Pending(frame'[g]) \cap Pending(frame'[k]) \subseteq named'
    BY <2>3, <1>1 DEF MediaInv, Apart
  <2> QED
    BY <2>1, <2>2, <2>3 DEF Apart, Pending
<1>7. ASSUME NEW g \in Handlers PROVE Unshown(frame[g])'
  <2>1. CASE g = h
    BY <2>1, <1>1
  <2>2. CASE g # h
    <3>1. \A x \in Pending(frame[h]) \ named : x \notin GalleryFilesOf(frame[g])
      BY DEF MediaInv, Apart, InGallery
    <3>2. frame[g] \in Frame /\ Unshown(frame[g])
      BY DEF TypeOK, MediaInv
    <3> QED
      BY <2>2, <1>1, <3>1, <3>2 DEF Unshown, GalleryFilesOf, GallerySteps
  <2> QED
    BY <2>1, <2>2
<1> QED
  BY <1>4, <1>5, <1>6, <1>7 DEF MediaInv

\* What a request holds after a step that writes neither files nor the rows
\* that refer to them.
Carries(h, f) ==
    /\ Pending(f) \subseteq Pending(frame[h])
    /\ GalleryFilesOf(f) \subseteq FilesOf(gallery) \cup GalleryFilesOf(frame[h])
    /\ LogoFilesOf(f) \subseteq {school.logo, NoFile, Link} \cup LogoFilesOf(frame[h]) \cup named'
    /\ Unshown(f)
    /\ f.at \notin {"update.delete", "logo.delete"}

\* Neither of them is a file.
LEMMA NoFiles == NoFile \notin Files /\ Link \notin Files
BY DEF NoFile, Link, Files

\* Such a step keeps MediaInv.
LEMMA MediaQuiet ==
    ASSUME TypeOK, MediaInv, NEW h \in Handlers, NEW f \in Frame, Become(h, f),
           Carries(h, f), UNCHANGED <<gallery, files, uploaded>>, named \subseteq named',
           school'.logo = school.logo
    PROVE  MediaInv'
<1>1. UNCHANGED <<gallery, files, uploaded>>
  OBVIOUS
<1>2. FilesOf(gallery') = FilesOf(gallery)
  BY <1>1
<1>3. \A x \in Files \ named' : x \in FilesOf(gallery') \cup GalleryFilesOf(f) =>
               InGallery(x) \/ x \in Pending(frame[h]) \ Pending(f)
  BY <1>2 DEF Carries, InGallery
<1>4. \A x \in Files \ named' : x \in {school'.logo} \cup LogoFilesOf(f) =>
               \/ InLogo(x)
               \/ x \in Pending(frame[h]) \ Pending(f) /\ ~InGallery(x)'
  BY NoFiles DEF Carries, InLogo
<1>5. Unshown(f)'
  BY <1>1 DEF Carries, Unshown
<1> QED
  BY <1>1, <1>2, <1>3, <1>4, <1>5, MediaKept DEF TypeOK, Carries

\* A file is uploaded: it is pending, and no row and no request had it.
LEMMA MediaUploaded ==
    ASSUME TypeOK, MediaInv, NEW h \in Handlers, NEW step, Upload(h, step),
           <<frame[h].at, step>> \in {<<"create.upload", "create.save">>,
                                      <<"update.upload", "update.save">>,
                                      <<"gallery.upload", "gallery.delete">>},
           UNCHANGED school
    PROVE  MediaInv'
<1>a. /\ frame[h] \in Frame
      /\ uploaded \in Nat /\ uploaded' = uploaded + 1 /\ uploaded' \in Files
      /\ files' = files \cup {uploaded'} /\ gallery' = gallery /\ named' = named
      /\ step \in Steps
      /\ gallery \in SUBSET GalleryItem
  BY BoundsAssumption DEF TypeOK, Upload, Files, Steps
<1>1. PICK f \in Frame : f = [frame[h] EXCEPT !.at = step, !.new = uploaded']
  BY <1>a DEF Frame
<1>0. Become(h, f)
  BY <1>1 DEF Upload
<1>2. /\ Pending(f) \subseteq {uploaded'}
      /\ GalleryFilesOf(f) = GalleryFilesOf(frame[h])
      /\ LogoFilesOf(f) = LogoFilesOf(frame[h])
      /\ Unshown(f)'
  BY <1>a, <1>1 DEF Frame, Pending, GalleryFilesOf, LogoFilesOf, GallerySteps, LogoSteps, Unshown
<1>3. FilesOf(gallery') = FilesOf(gallery)
  BY <1>0, <1>a
<1>4. \A x : (InLogo(x)' <=> InLogo(x)) /\ (InGallery(x)' <=> InGallery(x))
  BY <1>0, <1>a, <1>1, <1>2, <1>3, InLogoAfter, InGalleryAfter DEF InLogo, InGallery
<1>5. \A g \in Handlers : frame'[g] = IF g = h THEN f ELSE frame[g]
  BY <1>0, <1>a, <1>1, FramesAfter
<1>6. uploaded' \notin named => ~InLogo(uploaded') /\ ~InGallery(uploaded')
  BY <1>0, <1>a DEF MediaInv, Numbered
<1>7. GalleryFilesExist'
  BY <1>0, <1>a, <1>3 DEF MediaInv, GalleryFilesExist
<1>8. Numbered'
  BY <1>0, <1>a, <1>4 DEF MediaInv, Numbered, Files
<1>9. Apart'
  <2>1. \A x \in Files \ named' : ~(InLogo(x) /\ InGallery(x))'
    BY <1>0, <1>a, <1>4 DEF MediaInv, Apart
  <2>2. uploaded' \notin files
    BY <1>0, <1>a DEF MediaInv, Numbered
  <2>3. ASSUME NEW g \in Handlers, NEW x \in Pending(frame'[g]) \ named'
        PROVE  x \in files' /\ ~InLogo(x)' /\ ~InGallery(x)'
    <3>1. CASE g = h
      BY <3>1, <1>0, <1>a, <1>2, <1>4, <1>5, <1>6
    <3>2. CASE g # h
      BY <3>2, <1>0, <1>a, <1>4, <1>5 DEF MediaInv, Apart
    <3> QED
      BY <3>1, <3>2
  <2>4. ASSUME NEW g \in Handlers, NEW k \in Handlers, g # k
        PROVE  Pending(frame'[g]) \cap Pending(frame'[k]) \subseteq named'
    <3>1. \A i \in Handlers : uploaded' \in Pending(frame[i]) => uploaded' \in named
      BY <2>2 DEF MediaInv, Apart
    <3> QED
      BY <2>4, <3>1, <1>0, <1>a, <1>2, <1>5 DEF MediaInv, Apart
  <2> QED
    BY <2>1, <2>3, <2>4 DEF Apart, Pending
<1>10. ASSUME NEW g \in Handlers PROVE Unshown(frame[g])'
  <2>1. CASE g = h
    BY <2>1, <1>2, <1>5
  <2>2. CASE g # h
    BY <2>2, <1>0, <1>a, <1>5 DEF MediaInv, Unshown
  <2> QED
    BY <2>1, <2>2
<1> QED
  BY <1>7, <1>8, <1>9, <1>10 DEF MediaInv

\* Files are deleted: those of a row the request has written.
LEMMA FilesDeleted ==
    ASSUME TypeOK, MediaInv, NEW h \in Handlers, DeleteFiles(frame[h].old), Return(h),
           frame[h].at \in {"update.delete", "logo.delete", "gallery.clean", "item.clean"},
           UNCHANGED school
    PROVE  MediaInv'
<1>0. PICK deleted \in SUBSET frame[h].old : files' = files \ deleted
  BY DEF DeleteFiles
<1>1. gallery' = gallery /\ uploaded' = uploaded /\ named' = named /\ Become(h, Idle)
      /\ Idle \in Frame /\ frame[h] \in Frame
  BY IdleType DEF DeleteFiles, Return, TypeOK
<1>2. \A g \in Handlers : frame'[g] = IF g = h THEN Idle ELSE frame[g]
  BY <1>1, FramesAfter
<1>3. /\ Pending(Idle) = {}
      /\ GalleryFilesOf(Idle) = {}
      /\ LogoFilesOf(Idle) \cap Files = {}
      /\ Unshown(Idle)'
  BY NoFiles DEF Idle, Pending, GalleryFilesOf, LogoFilesOf, Unshown, PendingSteps, NoSchool
<1>4. FilesOf(gallery') = FilesOf(gallery)
  BY <1>1
<1>5. \A x \in Files : (InLogo(x)' => InLogo(x)) /\ (InGallery(x)' => InGallery(x))
  BY <1>1, <1>3, <1>4, InLogoAfter, InGalleryAfter DEF InLogo, InGallery
<1>6. \A x \in deleted \ named : x \in Files /\ (InLogo(x) \/ InGallery(x))
                         /\ x \notin FilesOf(gallery)
  <2>1. \A x \in deleted : x \in Files
    BY <1>1 DEF Frame
  <2>2. CASE frame[h].at \in {"update.delete", "logo.delete"}
    <3>1. \A x \in deleted : x \in LogoFilesOf(frame[h])
      BY <2>2 DEF LogoFilesOf, LogoSteps
    <3>2. \A x \in deleted : InLogo(x)
      BY <3>1 DEF InLogo
    <3> QED
      BY <2>1, <3>2 DEF MediaInv, Apart, InGallery
  <2>3. CASE frame[h].at \in {"gallery.clean", "item.clean"}
    <3>1. \A x \in deleted : x \in GalleryFilesOf(frame[h])
      BY <2>3 DEF GalleryFilesOf, GallerySteps
    <3>2. \A x \in deleted \ named : x \notin FilesOf(gallery)
      BY <2>3 DEF MediaInv, Unshown
    <3> QED
      BY <2>1, <3>1, <3>2 DEF InGallery
  <2> QED
    BY <2>2, <2>3
<1>7. GalleryFilesExist'
  BY <1>0, <1>1, <1>4, <1>6 DEF MediaInv, GalleryFilesExist
<1>8. Numbered'
  BY <1>0, <1>1, <1>5 DEF MediaInv, Numbered
<1>9. Apart'
  <2>1. \A x \in Files \ named' : ~(InLogo(x) /\ InGallery(x))'
    BY <1>1, <1>5 DEF MediaInv, Apart
  <2>2. ASSUME NEW g \in Handlers, NEW x \in Pending(frame'[g]) \ named'
        PROVE  x \in files' /\ ~InLogo(x)' /\ ~InGallery(x)'
    <3>1. x \in Pending(frame[g]) \ named /\ x \in Files
      BY <1>1, <1>2, <1>3 DEF Pending
    <3> QED
      BY <3>1, <1>0, <1>1, <1>5, <1>6 DEF MediaInv, Apart
  <2>3. ASSUME NEW g \in Handlers, NEW k \in Handlers, g # k
        PROVE  Pending(frame'[g]) \cap Pending(frame'[k]) \subseteq named'
    BY <2>3, <1>1, <1>2, <1>3 DEF MediaInv, Apart
  <2> QED
    BY <2>1, <2>2, <2>3 DEF Apart, Pending
<1>10. ASSUME NEW g \in Handlers PROVE Unshown(frame[g])'
  BY <1>1, <1>2, <1>3 DEF MediaInv, Unshown
<1> QED
  BY <1>7, <1>8, <1>9, <1>10 DEF MediaInv

-----------------------------------------------------------------------------
(* The logo.                                                               *)

\* The fields of the idle frame.
LEMMA IdleFields ==
    /\ Idle.at = "idle" /\ Idle.copy = NoSchool /\ Idle.next = NoSchool
    /\ Idle.new = NoFile /\ Idle.old = {}
BY DEF Idle

\* No request but the one that moves changes what it holds of the logo.
LEMMA LogoKept ==
    ASSUME TypeOK, LogoInv, NEW h \in Handlers, NEW f \in Frame, Become(h, f),
           school'.logo = school.logo, stale \subseteq stale', files \subseteq files',
           named \subseteq named', SentLogo(f)',
           f.at \notin {"update.delete", "logo.delete"}
    PROVE  LogoInv'
<1>1. \A g \in Handlers : frame'[g] = IF g = h THEN f ELSE frame[g]
  BY FramesAfter
<1>2. (\A g \in Handlers : SentLogo(frame[g]))'
  BY <1>1 DEF LogoInv, SentLogo, FileBehind
<1> QED
  BY <1>1, <1>2 DEF LogoInv, FileBehind

\* A row saved from a copy that is out of date ends what is said of its logo.
LEMMA LogoStale ==
    ASSUME TypeOK, LogoInv, NEW h \in Handlers, NEW f \in Frame, Become(h, f),
           named' = named, SentLogo(f)', "school" \in stale'
    PROVE  LogoInv'
<1>1. \A g \in Handlers : frame'[g] = IF g = h THEN f ELSE frame[g]
  BY FramesAfter
<1>2. (\A g \in Handlers : SentLogo(frame[g]))'
  BY <1>1 DEF LogoInv, SentLogo, FileBehind
<1> QED
  BY <1>2 DEF LogoInv

\* Most requests send no URL of a logo.
LEMMA SendsNoLogo ==
    ASSUME NEW f, f.at \notin CreateSteps \cup UpdateSteps
    PROVE  SentLogo(f)'
BY DEF SentLogo

\* Files are deleted: those of the gallery are not the logo's, and a logo that
\* was replaced or removed is no longer the school's.
LEMMA LogoSurvivesDeletion ==
    ASSUME TypeOK, MediaInv, LogoInv, NEW h \in Handlers, DeleteFiles(frame[h].old), Return(h),
           frame[h].at \in {"update.delete", "logo.delete", "gallery.clean", "item.clean"},
           UNCHANGED <<school, stale>>
    PROVE  LogoInv'
<1>0. PICK deleted \in SUBSET frame[h].old : files' = files \ deleted
  BY DEF DeleteFiles
<1>1. \A g \in Handlers : frame'[g] = IF g = h THEN Idle ELSE frame[g]
  BY IdleType, FramesAfter DEF Return
<1>2. ASSUME "school" \notin stale, school.logo \in Files \ named PROVE school.logo \notin deleted
  <2>1. CASE frame[h].at \in {"update.delete", "logo.delete"}
    BY <2>1, <1>2 DEF LogoInv, FileBehind
  <2>2. CASE frame[h].at \in {"gallery.clean", "item.clean"}
    <3>1. \A x \in deleted : InGallery(x)
      BY <2>2 DEF InGallery, GalleryFilesOf, GallerySteps
    <3> QED
      BY <3>1, <1>2 DEF MediaInv, Apart, InLogo
  <2> QED
    BY <2>1, <2>2
<1>3. "school" \notin stale => FileBehind(school.logo) \ named \subseteq files'
  BY <1>0, <1>2 DEF LogoInv, FileBehind
<1>4. named' = named
  BY DEF DeleteFiles
<1>5. (\A g \in Handlers : SentLogo(frame[g]))'
  BY <1>1, <1>4, IdleFields DEF LogoInv, SentLogo, FileBehind, CreateSteps, UpdateSteps
<1> QED
  BY <1>1, <1>3, <1>4, <1>5, IdleFields DEF LogoInv, FileBehind

-----------------------------------------------------------------------------
(* The kinds of steps.                                                     *)

\* A request reads, answers, throws, or writes rows without a part in IInv.
LEMMA Quiet ==
    ASSUME IInv, NEW h \in Handlers, NEW f \in Frame, Become(h, f), Sound(f),
           RowTypes', CounterTypes', UNCHANGED <<school, gallery, files, uploaded>>,
           named \subseteq named', stale \subseteq stale', Carries(h, f), SentLogo(f)',
           price' = price, asked \subseteq asked', HoldsPrice(f)',
           f.at = "price.commit" => PriceUnlocked
    PROVE  IInv'
<1>1. TypeOK'
  BY TypeParts, BecomeType DEF IInv, TypeOK, RowTypes, CounterTypes, FrameTypes
<1>2. (\A g \in Handlers : Sound(frame[g]))'
  BY SoundKept DEF IInv
<1>3. PriceInv'
  BY PriceKept DEF IInv
<1>4. MediaInv'
  BY MediaQuiet DEF IInv
<1>5. LogoInv'
  BY LogoKept DEF IInv, Carries
<1> QED
  BY <1>1, <1>2, <1>3, <1>4, <1>5 DEF IInv, WithReason

\* A step that leaves every request and every row with a part in IInv alone.
LEMMA Unmoved ==
    ASSUME IInv, RowTypes', CounterTypes',
           UNCHANGED <<school, stale, frame, price, asked, Media>>
    PROVE  IInv'
<1>1. TypeOK'
  BY TypeParts DEF IInv, TypeOK, RowTypes, CounterTypes
<1>2. PriceInv'
  BY DEF IInv, PriceInv, SentAs, HoldsPrice, At
<1>3. \A x : (InLogo(x)' <=> InLogo(x)) /\ (InGallery(x)' <=> InGallery(x))
  BY DEF InLogo, InGallery, Media
<1>4. MediaInv'
  BY <1>3 DEF IInv, MediaInv, GalleryFilesExist, Numbered, Apart, Unshown, Media
<1>5. LogoInv'
  BY DEF IInv, LogoInv, SentLogo, FileBehind, Media
<1> QED
  BY <1>1, <1>2, <1>4, <1>5 DEF IInv

\* Steps that hold nothing a row will depend on, or a school to be saved with
\* another status.
ReadingSteps ==
    {"idle", "complete.free", "free.find", "free.create", "complete.latest", "submit.find",
     "pay.school", "job.school", "levels.read", "levels.commit", "class.save", "gallery.find"}
PlainSteps == ReadingSteps \cup StatusSteps

\* Reading, going on, answering.
LEMMA Reads ==
    ASSUME IInv, NEW h \in Handlers, NEW f \in Frame, Become(h, f), Sound(f),
           f.at \in PlainSteps,
           {f.copy.logo, f.next.logo} \subseteq
               {school.logo, NoFile, frame[h].copy.logo, frame[h].next.logo},
           RowTypes', CounterTypes', UNCHANGED <<school, price, asked, Media>>,
           stale \subseteq stale'
    PROVE  IInv'
<1>1. Carries(h, f)
  <2>1. Pending(f) = {} /\ GalleryFilesOf(f) = {} /\ Unshown(f)
    BY DEF PlainSteps, ReadingSteps, StatusSteps, Pending, PendingSteps, GalleryFilesOf,
       GallerySteps, Unshown
  <2>2. LogoFilesOf(f) \subseteq {school.logo, NoFile, Link} \cup LogoFilesOf(frame[h])
    BY DEF PlainSteps, ReadingSteps, StatusSteps, LogoFilesOf, LogoSteps
  <2> QED
    BY <2>1, <2>2 DEF Carries, PlainSteps, ReadingSteps, StatusSteps
<1>2. HoldsPrice(f)' /\ f.at # "price.commit" /\ SentLogo(f)'
  BY DEF PlainSteps, ReadingSteps, StatusSteps, HoldsPrice, PriceSteps, SentLogo, CreateSteps,
     UpdateSteps
<1> QED
  BY <1>1, <1>2, Quiet DEF Media

\* A request goes on with what it has read, or is over.
LEMMA GoesOn ==
    ASSUME IInv, NEW h \in Handlers, NEW f \in Frame, Become(h, f),
           f.at \in ReadingSteps,
           f.copy \in {NoSchool, school, frame[h].copy},
           f.next \in {NoSchool, school, frame[h].next},
           RowTypes', CounterTypes', UNCHANGED <<school, price, asked, Media>>,
           stale \subseteq stale'
    PROVE  IInv'
<1>1. Sound(frame[h]) /\ WithReason(school)
  BY DEF IInv
<1>2. Sound(f)
  BY <1>1, IdleSound DEF Sound, HoldsStatus, HoldsLogo, ReadingSteps, StatusSteps,
     CreateSteps, UpdateSteps, ActorOf
<1> QED
  BY <1>2, Reads DEF NoSchool, PlainSteps

\* The request is over.
LEMMA Returns ==
    ASSUME IInv, NEW h \in Handlers, Return(h),
           RowTypes', CounterTypes', UNCHANGED <<school, price, asked, Media>>,
           stale \subseteq stale'
    PROVE  IInv'
<1>1. Idle.at \in ReadingSteps /\ Idle.copy = NoSchool /\ Idle.next = NoSchool
  BY DEF Idle, ReadingSteps
<1> QED
  BY <1>1, IdleType, GoesOn DEF Return

\* The methods of the aggregate keep the reason with the decision.
LEMMA DecisionRules ==
    ASSUME NEW row \in SchoolRow, WithReason(row)
    PROVE  /\ \A described \in BOOLEAN, logo \in Files \cup {NoFile, Link} :
                /\ WithReason(Create(described, logo))
                /\ WithReason(UpdateProfile(row, described, logo))
                /\ WithReason([row EXCEPT !.logo = logo])
           /\ WithReason(SubmitForActivation(row))
           /\ WithReason(ActivateAfterPaidSubscription(row))
           /\ WithReason(ApproveFromReview(row))
           /\ WithReason(RejectFromReview(row))
           /\ WithReason(Expire(row))
           /\ WithReason(Suspend(row))
           /\ \A to \in SchoolStatus : WithReason(ApplyAdminStatus(row, to))
BY DEF WithReason, SchoolRow, SchoolStatus, Create, NoSchool, UpdateProfile,
   SubmitForActivation, ActivateAfterPaidSubscription, ApproveFromReview, RejectFromReview,
   Expire, Suspend, ApplyAdminStatus

\* The status they leave, and the logo they do not touch.
LEMMA StatusRules ==
    ASSUME NEW row \in SchoolRow
    PROVE  /\ SubmitForActivation(row).status = "PENDING_REVIEW"
           /\ SubmitForActivation(row).logo = row.logo
           /\ \/ ActivateAfterPaidSubscription(row) = row
              \/ /\ row.status \in {"DRAFT", "PENDING_PAYMENT", "EXPIRED"}
                 /\ ActivateAfterPaidSubscription(row).status = "ACTIVE"
           /\ ActivateAfterPaidSubscription(row).logo = row.logo
           /\ ApproveFromReview(row).status = "ACTIVE"
           /\ ApproveFromReview(row).logo = row.logo
           /\ RejectFromReview(row).status = "REJECTED"
           /\ RejectFromReview(row).logo = row.logo
           /\ Expire(row).status = "EXPIRED"
           /\ Expire(row).logo = row.logo
           /\ Suspend(row).status = "SUSPENDED"
           /\ Suspend(row).logo = row.logo
           /\ \A to \in SchoolStatus : ApplyAdminStatus(row, to).logo = row.logo
BY DEF SchoolRow, SubmitForActivation, ActivateAfterPaidSubscription, ApproveFromReview,
   RejectFromReview, Expire, Suspend, ApplyAdminStatus

\* A request goes on to save a school with another status.
LEMMA Decides ==
    ASSUME IInv, NEW h \in Handlers, NEW f \in Frame, Become(h, f),
           f.at \in StatusSteps, f.copy \in {school, frame[h].copy},
           WithReason(f.next), f.next.logo = f.copy.logo, HoldsStatus(f),
           RowTypes', CounterTypes', UNCHANGED <<school, price, asked, Media>>,
           stale \subseteq stale'
    PROVE  IInv'
<1>1. Sound(frame[h]) /\ WithReason(school)
  BY DEF IInv
<1>2. f.at \in PlainSteps
  BY DEF PlainSteps
<1>3. Sound(f)
  BY <1>1 DEF Sound, HoldsLogo, StatusSteps, CreateSteps, UpdateSteps
<1> QED
  BY <1>2, <1>3, Reads

\* The school's row is saved with another status.
LEMMA StatusSaved ==
    ASSUME IInv, NEW h \in Handlers, NEW f \in Frame, Become(h, f),
           \/ f = Idle
           \/ f = [frame[h] EXCEPT !.at = "complete.latest"],
           frame[h].at \in StatusSteps, SaveSchoolRow(h, frame[h].next),
           UNCHANGED <<plan, OfferRows, PriceRows, Media, counters>>
    PROVE  IInv'
<1>0. /\ frame[h] \in Frame /\ Sound(frame[h]) /\ RowTypes /\ CounterTypes
  BY TypeParts DEF IInv, TypeOK
<1>1. /\ school' = frame[h].next /\ school' \in SchoolRow
      /\ UNCHANGED <<plan, OfferRows, PriceRows, Media, counters>>
      /\ stale' = IF school = frame[h].copy THEN stale ELSE stale \cup {"school"}
  BY <1>0 DEF SaveSchoolRow, Frame
<1>2. /\ f.at \in {"idle", "complete.latest"}
      /\ f.copy \in {NoSchool, frame[h].copy} /\ f.next \in {NoSchool, frame[h].next}
  BY <1>0 DEF Idle, Frame
<1>3. TypeOK'
  <2>1. RowTypes'
    BY <1>0, <1>1 DEF RowTypes, OfferRows, PriceRows, Media, Copied
  <2>2. CounterTypes' /\ FrameTypes'
    BY <1>0, <1>1, BecomeType DEF CounterTypes, counters, IInv, TypeOK, FrameTypes
  <2> QED
    BY <2>1, <2>2 DEF TypeOK, RowTypes, CounterTypes, FrameTypes
<1>4. Sound(f) /\ WithReason(school)'
  BY <1>0, <1>1, <1>2, IdleSound DEF Sound, HoldsStatus, HoldsLogo, StatusSteps,
     CreateSteps, UpdateSteps, ActorOf
<1>5. (\A g \in Handlers : Sound(frame[g]))'
  BY <1>4, SoundKept DEF IInv
<1>6. PriceInv'
  <2>1. HoldsPrice(f)'
    BY <1>2 DEF HoldsPrice, PriceSteps
  <2> QED
    BY <1>1, <1>2, <2>1, PriceKept DEF IInv, PriceRows
<1>7. MediaInv'
  <2>1. /\ Pending(f) = {} /\ GalleryFilesOf(f) = {} /\ Unshown(f)'
        /\ LogoFilesOf(f) \cap Files \subseteq LogoFilesOf(frame[h])
    BY <1>2, NoFiles DEF Pending, PendingSteps, GalleryFilesOf, GallerySteps, Unshown,
       LogoFilesOf, LogoSteps, NoSchool
  <2>2. \A x \in Files : x \in {school'.logo} \cup LogoFilesOf(f) => InLogo(x)
    BY <1>1, <2>1 DEF InLogo, LogoFilesOf
  <2>3. UNCHANGED <<gallery, files, uploaded, named>> /\ gallery' \in SUBSET GalleryItem
    BY <1>0, <1>1 DEF Media, RowTypes
  <2>4. FilesOf(gallery') = FilesOf(gallery)
    BY <2>3
  <2>5. \A x \in Files : x \in FilesOf(gallery') \cup GalleryFilesOf(f) => InGallery(x)
    BY <2>1, <2>4 DEF InGallery
  <2> QED
    BY <2>1, <2>2, <2>3, <2>4, <2>5, MediaKept DEF IInv
<1>8. LogoInv'
  <2>0. SentLogo(f)' /\ UNCHANGED <<files, named>>
    BY <1>1, <1>2, SendsNoLogo DEF CreateSteps, UpdateSteps, Media
  <2>1. CASE school = frame[h].copy
    <3>1. school'.logo = school.logo
      BY <1>0, <1>1, <2>1 DEF Sound, HoldsLogo
    <3> QED
      BY <1>1, <1>2, <2>0, <3>1, LogoKept DEF IInv
  <2>2. CASE school # frame[h].copy
    BY <1>1, <2>0, <2>2, LogoStale DEF IInv
  <2> QED
    BY <2>1, <2>2
<1> QED
  BY <1>3, <1>4, <1>5, <1>6, <1>7, <1>8 DEF IInv

-----------------------------------------------------------------------------
(* The offer.                                                              *)

\* What a request may use of IInv.
LEMMA Facts ==
    ASSUME IInv, NEW h \in Handlers
    PROVE  /\ frame[h] \in Frame /\ Sound(frame[h])
           /\ school \in SchoolRow /\ WithReason(school)
           /\ RowTypes /\ CounterTypes
BY TypeParts DEF IInv, TypeOK

\* A request on the prices goes on, and writes nothing.
LEMMA PriceMoves ==
    ASSUME IInv, NEW h \in Handlers, NEW f \in Frame, Become(h, f), f.at \in PriceSteps,
           \/ f.copy = NoSchool /\ f.next = NoSchool
           \/ f.copy = frame[h].copy /\ f.next = frame[h].next,
           f.at = "price.find" => [fees |-> f.fees, of |-> f.want] \in asked',
           f.at # "price.find" => SentAs(f.free, f.want)',
           f.at = "price.lock" => f.pid # 0,
           f.at = "price.commit" =>
               price.id # 0 /\ f.seen = Listed(price.of) /\ PriceUnlocked,
           RowTypes', CounterTypes', UNCHANGED <<school, stale, price, Media>>,
           asked \subseteq asked'
    PROVE  IInv'
<1>1. Sound(frame[h])
  BY DEF IInv
<1>2. Sound(f)
  BY <1>1, IdleSound DEF Sound, HoldsStatus, HoldsLogo, PriceSteps, StatusSteps,
     CreateSteps, UpdateSteps, ActorOf
<1>3. HoldsPrice(f)'
  BY DEF HoldsPrice
<1>4. Carries(h, f)
  <2>1. Pending(f) = {} /\ GalleryFilesOf(f) = {} /\ Unshown(f)
    BY DEF PriceSteps, Pending, PendingSteps, GalleryFilesOf, GallerySteps, Unshown
  <2>2. LogoFilesOf(f) \subseteq {school.logo, NoFile, Link} \cup LogoFilesOf(frame[h])
    BY DEF PriceSteps, LogoFilesOf, LogoSteps, NoSchool
  <2> QED
    BY <2>1, <2>2 DEF Carries, PriceSteps
<1>5. SentLogo(f)'
  BY SendsNoLogo DEF PriceSteps, CreateSteps, UpdateSteps
<1> QED
  BY <1>2, <1>3, <1>4, <1>5, Quiet DEF Media

\* The price row and its levels are written, by nobody else's leave.
LEMMA PriceRowsInv ==
    ASSUME TypeOK, PriceInv, NEW h \in Handlers, Return(h), asked' = asked,
           price'.id # 0, SentAs(price.free, price.of)',
           \A g \in Handlers : g # h => ~At(g, "price.commit")
    PROVE  PriceInv'
<1>1. \A g \in Handlers : frame'[g] = IF g = h THEN Idle ELSE frame[g]
  BY IdleType, FramesAfter DEF Return
<1>2. (\A g \in Handlers : HoldsPrice(frame[g]))'
  BY <1>1, IdleFields DEF PriceInv, HoldsPrice, SentAs, PriceSteps, At
<1>3. (\A i, j \in Handlers : At(i, "price.commit") /\ At(j, "price.commit") => i = j)'
  BY <1>1, IdleFields DEF PriceInv, At
<1> QED
  BY <1>2, <1>3 DEF PriceInv

\* ... and IInv is kept.
LEMMA PriceWritten ==
    ASSUME IInv, NEW h \in Handlers, Return(h),
           price'.id # 0, SentAs(price.free, price.of)',
           PriceUnlocked \/ \A g \in Handlers : g # h => ~At(g, "price.commit"),
           RowTypes', CounterTypes', UNCHANGED <<school, stale, asked, Media>>
    PROVE  IInv'
<1>1. PriceInv'
  BY PriceRowsInv DEF IInv, PriceUnlocked
<1>2. Become(h, Idle) /\ Idle \in Frame
  BY IdleType DEF Return
<1>3. TypeOK'
  BY <1>2, BecomeType DEF IInv, TypeOK, RowTypes, CounterTypes, FrameTypes
<1>4. (\A g \in Handlers : Sound(frame[g]))'
  BY <1>2, IdleSound, SoundKept DEF IInv
<1>5. Carries(h, Idle)
  BY IdleFields DEF Carries, Pending, PendingSteps, GalleryFilesOf, GallerySteps, Unshown,
     LogoFilesOf, LogoSteps, NoSchool
<1>6. MediaInv'
  BY <1>2, <1>5, MediaQuiet DEF IInv, Media
<1>7. LogoInv'
  BY <1>2, <1>5, IdleFields, SendsNoLogo, LogoKept
     DEF IInv, Carries, Media, CreateSteps, UpdateSteps
<1> QED
  BY <1>1, <1>3, <1>4, <1>6, <1>7 DEF IInv, WithReason

\* The price row is deleted while no request has it locked.
LEMMA PriceDeleted ==
    ASSUME IInv, price'.id = 0, ~price'.free, PriceUnlocked,
           RowTypes', CounterTypes', UNCHANGED <<school, stale, frame, asked, Media>>
    PROVE  IInv'
<1>1. TypeOK'
  BY DEF IInv, TypeOK, RowTypes, CounterTypes
<1>2. PriceInv'
  BY DEF IInv, PriceInv, SentAs, HoldsPrice, At, PriceUnlocked
<1>3. \A x : (InLogo(x)' <=> InLogo(x)) /\ (InGallery(x)' <=> InGallery(x))
  BY DEF InLogo, InGallery, Media
<1>4. MediaInv'
  BY <1>3 DEF IInv, MediaInv, GalleryFilesExist, Numbered, Apart, Unshown, Media
<1>5. LogoInv'
  BY DEF IInv, LogoInv, SentLogo, FileBehind, Media
<1> QED
  BY <1>1, <1>2, <1>4, <1>5 DEF IInv

\* The requests on location, services, levels, classes and prices keep IInv.
LEMMA OfferIInv ==
    ASSUME IInv, NEW h \in Handlers, OfferStep(h)
    PROVE  IInv'
<1>0. /\ frame[h] \in Frame /\ Sound(frame[h])
      /\ school \in SchoolRow /\ WithReason(school)
      /\ RowTypes /\ CounterTypes
  BY Facts
<1>1. CASE SaveLocation(h) \/ DeleteLocation(h) \/ SyncServices(h) \/ CreateClass(h) \/ DeleteClass(h)
  <2>1. UNCHANGED <<school, stale, frame, price, asked, Media>>
    BY <1>1 DEF SaveLocation, DeleteLocation, SyncServices, CreateClass, DeleteClass,
       SchoolRows, PriceRows
  <2>2. RowTypes'
    BY <1>0, <1>1 DEF SaveLocation, DeleteLocation, SyncServices, CreateClass, DeleteClass,
       SchoolRows, PriceRows, Media, RowTypes, ClassState
  <2>3. CounterTypes'
    BY <1>0, <1>1 DEF SaveLocation, DeleteLocation, SyncServices, CreateClass, DeleteClass,
       Begin, CounterTypes
  <2> QED
    BY <2>1, <2>2, <2>3, Unmoved
<1>2. CASE BeginSyncLevels(h)
  <2>1. PICK wanted \in SUBSET Levels :
          Become(h, [Idle EXCEPT !.at = "levels.read",
                                 !.want = [l \in Levels |-> IF l \in wanted THEN "set" ELSE "none"]])
    BY <1>2 DEF BeginSyncLevels
  <2>2. [l \in Levels |-> IF l \in wanted THEN "set" ELSE "none"] \in PriceList
    BY DEF PriceList, Tuition
  <2> DEFINE f == [Idle EXCEPT !.at = "levels.read",
                               !.want = [l \in Levels |-> IF l \in wanted THEN "set" ELSE "none"]]
  <2>3. f \in Frame /\ f.at = "levels.read" /\ f.copy = NoSchool /\ f.next = NoSchool
    BY <2>2, IdleType, IdleFields DEF Frame, Steps
  <2>4. RowTypes' /\ CounterTypes' /\ UNCHANGED <<school, stale, price, asked, Media>>
    BY <1>0, <1>2 DEF BeginSyncLevels, Begin, SchoolRows, OfferRows, PriceRows, Media,
       RowTypes, CounterTypes
  <2>5. f.at \in ReadingSteps
    BY <2>3 DEF ReadingSteps
  <2> QED
    BY <2>1, <2>3, <2>4, <2>5, GoesOn
<1>3. CASE BeginDeleteLevels(h)
  <2> DEFINE f == [Idle EXCEPT !.at = "levels.read"]
  <2>1. f \in Frame /\ f.at = "levels.read" /\ f.copy = NoSchool /\ f.next = NoSchool
    BY <1>0, IdleType, IdleFields DEF Frame, Steps, RowTypes
  <2>2. RowTypes' /\ CounterTypes' /\ UNCHANGED <<school, stale, price, asked, Media>>
    BY <1>0, <1>3 DEF BeginDeleteLevels, Begin, SchoolRows, OfferRows, PriceRows, Media,
       RowTypes, CounterTypes
  <2> QED
    BY <1>3, <2>1, <2>2, GoesOn DEF BeginDeleteLevels, ReadingSteps
<1>4. CASE ReadLevels(h)
  <2> DEFINE f == [frame[h] EXCEPT !.at = "levels.commit", !.seen = levels]
  <2>1. f \in Frame /\ f.at = "levels.commit" /\ f.copy = frame[h].copy /\ f.next = frame[h].next
    BY <1>0 DEF Frame, Steps, RowTypes
  <2>2. RowTypes' /\ CounterTypes' /\ UNCHANGED <<school, stale, price, asked, Media>>
    BY <1>0, <1>4 DEF ReadLevels, counters, SchoolRows, OfferRows, PriceRows, Media,
       RowTypes, CounterTypes
  <2> QED
    BY <1>4, <2>1, <2>2, GoesOn DEF ReadLevels, ReadingSteps
<1>5. CASE CommitLevels(h)
  <2>1. synced' \in SUBSET Levels /\ levels' \in SUBSET Levels /\ stale' \in SUBSET Copied
    BY <1>0, <1>5 DEF CommitLevels, RowTypes, Copied, Listed
  <2>2. RowTypes' /\ CounterTypes'
    BY <1>0, <1>5, <2>1 DEF CommitLevels, counters, SchoolRows, PriceRows, Media,
       RowTypes, CounterTypes
  <2>3. /\ UNCHANGED <<school, price, asked, Media>>
        /\ stale \subseteq stale'
    BY <1>5 DEF CommitLevels, SchoolRows, PriceRows
  <2> QED
    BY <1>5, <2>2, <2>3, Returns DEF CommitLevels
<1>6. CASE BeginUpdateClass(h)
  <2> DEFINE f == [Idle EXCEPT !.at = "class.save", !.class = class]
  <2>1. class \in ClassState
    BY <1>0 DEF RowTypes
  <2>2. f \in Frame /\ f.at = "class.save" /\ f.copy = NoSchool /\ f.next = NoSchool
    BY <2>1, IdleType, IdleFields DEF Frame, Steps
  <2>3. RowTypes' /\ CounterTypes' /\ UNCHANGED <<school, stale, price, asked, Media>>
    BY <1>0, <1>6 DEF BeginUpdateClass, Begin, SchoolRows, OfferRows, PriceRows, Media,
       RowTypes, CounterTypes
  <2> QED
    BY <1>6, <2>2, <2>3, GoesOn DEF BeginUpdateClass, ReadingSteps
<1>7. CASE SaveClass(h)
  <2>1. RowTypes' /\ CounterTypes' /\ UNCHANGED <<school, stale, price, asked, Media>>
    BY <1>0, <1>7 DEF SaveClass, counters, SchoolRows, OfferRows, PriceRows, Media,
       RowTypes, CounterTypes, Frame
  <2> QED
    BY <1>7, <2>1, Returns DEF SaveClass
<1>8. CASE BeginPrice(h)
  <2>1. PICK sent \in [fees : {"free", "charged", "unsaid"}, of : PriceLists] :
          /\ Become(h, [Idle EXCEPT !.at = "price.find", !.want = sent.of, !.fees = sent.fees])
          /\ asked' = asked \cup {sent}
    BY <1>8 DEF BeginPrice
  <2> DEFINE f == [Idle EXCEPT !.at = "price.find", !.want = sent.of, !.fees = sent.fees]
  <2>2. sent.of \in PriceList /\ sent \in SentList
    BY PriceListsAssumption DEF PriceList, SentList
  <2>3. f \in Frame
    BY <2>2, IdleType DEF Frame, Steps
  <2>4. /\ f.at = "price.find" /\ f.copy = NoSchool /\ f.next = NoSchool
        /\ [fees |-> f.fees, of |-> f.want] = sent
    BY IdleType, IdleFields DEF Frame
  <2>5. asked' \in SUBSET SentList
    BY <1>0, <2>1, <2>2 DEF RowTypes
  <2>6. /\ RowTypes' /\ CounterTypes'
        /\ UNCHANGED <<school, stale, price, Media>> /\ asked \subseteq asked'
    BY <1>0, <1>8, <2>1, <2>5 DEF BeginPrice, Begin, SchoolRows, OfferRows, Media,
       RowTypes, CounterTypes
  <2>7. [fees |-> f.fees, of |-> f.want] \in asked'
    BY <2>1, <2>4
  <2> QED
    BY <2>1, <2>4, <2>6, <2>7, <2>3, PriceMoves DEF PriceSteps
<1>9. CASE FindPrice(h)
  <2>1. PICK free \in BOOLEAN : free <=> WithoutFees(h)
    OBVIOUS
  <2>2. PICK want \in PriceList :
          want = IF WithoutFees(h) THEN Zeroed(frame[h].want) ELSE frame[h].want
    BY <1>0 DEF Zeroed, PriceList, Tuition, Frame
  <2>3. SentAs(free, want)
    <3>1. [fees |-> frame[h].fees, of |-> frame[h].want] \in asked
      BY <1>9 DEF FindPrice, At, IInv, PriceInv, HoldsPrice, PriceSteps
    <3>2. ASSUME free PROVE \E sent \in asked : sent.fees = "free"
      <4>1. CASE frame[h].fees = "free"
        BY <3>1, <4>1
      <4>2. CASE price.free
        BY <4>2 DEF IInv, PriceInv, SentAs
      <4> QED
        BY <2>1, <3>2, <4>1, <4>2 DEF WithoutFees
    <3> QED
      BY <2>1, <2>2, <3>1, <3>2 DEF SentAs, WithoutFees
  <2>4. PICK at \in {"price.create", "price.lock"} :
          /\ at = IF price.id = 0 THEN "price.create" ELSE "price.lock"
          /\ at = "price.lock" => price.id # 0
    OBVIOUS
  <2> DEFINE f == [frame[h] EXCEPT !.at = at, !.pid = price.id, !.free = free, !.want = want]
  <2>5. Become(h, f)
    <3>1. free = WithoutFees(h)
      BY <2>1 DEF WithoutFees
    <3> QED
      BY <1>9, <2>2, <2>4, <3>1 DEF FindPrice
  <2>6. RowTypes' /\ CounterTypes' /\ UNCHANGED <<school, stale, price, asked, Media>>
    BY <1>0, <1>9 DEF FindPrice, counters, SchoolRows, OfferRows, PriceRows, Media,
       RowTypes, CounterTypes
  <2>7. price.id \in 0..MaxPrices
    BY <1>0 DEF RowTypes, Price
  <2>8. PICK g \in Frame : g = f
    BY <1>0, <2>7 DEF Frame, Steps
  <2>9. /\ g.at = at /\ g.copy = frame[h].copy /\ g.next = frame[h].next
        /\ g.free = free /\ g.want = want /\ g.pid = price.id
    BY <1>0, <2>8 DEF Frame
  <2> HIDE DEF f
  <2>10. SentAs(g.free, g.want)'
    BY <2>3, <2>6, <2>9, SentStays
  <2> QED
    BY <2>4, <2>5, <2>6, <2>8, <2>9, <2>10, PriceMoves DEF PriceSteps
<1>10. CASE CreatePrice(h)
  <2>1. /\ price' = [id |-> priceIds', free |-> frame[h].free, of |-> frame[h].want]
        /\ price'.id = priceIds' /\ price'.free = frame[h].free /\ price'.of = frame[h].want
        /\ priceIds' = priceIds + 1 /\ priceIds < MaxPrices
    BY <1>10 DEF CreatePrice
  <2>2. price' \in Price /\ priceIds' \in 0..MaxPrices
    BY <1>0, <2>1, BoundsAssumption DEF RowTypes, Price, Frame
  <2>3. /\ RowTypes' /\ CounterTypes' /\ UNCHANGED <<school, stale, asked, Media>>
    BY <1>0, <1>10, <2>2 DEF CreatePrice, counters, SchoolRows, OfferRows, Media,
       RowTypes, CounterTypes
  <2>4. SentAs(price.free, price.of)' /\ price'.id # 0
    <3>1. SentAs(frame[h].free, frame[h].want)
      BY <1>10 DEF CreatePrice, At, IInv, PriceInv, HoldsPrice, PriceSteps
    <3>2. price'.id # 0
      BY <1>0, <2>1 DEF RowTypes
    <3> QED
      BY <2>1, <2>3, <3>1, <3>2 DEF SentAs
  <2>5. PriceUnlocked
    BY <1>10 DEF CreatePrice, PriceUnlocked, At, IInv, PriceInv, HoldsPrice
  <2> QED
    BY <1>10, <2>3, <2>4, <2>5, PriceWritten DEF CreatePrice
<1>11. CASE LockPrice(h)
  <2>1. PICK f \in Frame : f = [frame[h] EXCEPT !.at = "price.commit", !.seen = Listed(price.of)]
    BY <1>0 DEF Frame, Steps, Listed
  <2>2. /\ f.at = "price.commit" /\ f.copy = frame[h].copy /\ f.next = frame[h].next
        /\ f.free = frame[h].free /\ f.want = frame[h].want /\ f.seen = Listed(price.of)
    BY <1>0, <2>1 DEF Frame
  <2>3. RowTypes' /\ CounterTypes' /\ UNCHANGED <<school, stale, price, asked, Media>>
    BY <1>0, <1>11 DEF LockPrice, counters, SchoolRows, OfferRows, PriceRows, Media,
       RowTypes, CounterTypes
  <2>4. SentAs(f.free, f.want) /\ price.id # 0
    BY <1>11, <2>2 DEF LockPrice, At, IInv, PriceInv, HoldsPrice, PriceSteps
  <2>5. Become(h, f) /\ PriceUnlocked
    BY <1>11, <2>1 DEF LockPrice
  <2>6. SentAs(f.free, f.want)'
    BY <2>3, <2>4, SentStays
  <2> QED
    BY <2>2, <2>3, <2>4, <2>5, <2>6, PriceMoves DEF PriceSteps
<1>12. CASE CommitPrice(h)
  <2>1. /\ frame[h].seen = Listed(price.of)
        /\ SentAs(frame[h].free, frame[h].want) /\ price.id # 0
    BY <1>12 DEF CommitPrice, At, IInv, PriceInv, HoldsPrice, PriceSteps
  <2>2. price \in Price /\ frame[h].want \in PriceList /\ frame[h].free \in BOOLEAN
    BY <1>0 DEF RowTypes, Frame
  <2> DEFINE of == [l \in Levels |-> IF l \in Listed(frame[h].want) \cup frame[h].seen
                                     THEN frame[h].want[l] ELSE price.of[l]]
  <2>3. \A l \in Levels : of[l] = frame[h].want[l]
    BY <2>1 DEF Listed
  <2>4. of = frame[h].want
    BY <2>2, <2>3 DEF PriceList
  <2>5. price' = [price EXCEPT !.free = frame[h].free, !.of = frame[h].want]
    BY <1>12, <2>4 DEF CommitPrice
  <2>6. /\ price' \in Price /\ price'.free = frame[h].free /\ price'.of = frame[h].want
        /\ price'.id = price.id
    BY <2>2, <2>5 DEF Price
  <2>7. RowTypes' /\ CounterTypes' /\ UNCHANGED <<school, stale, asked, Media>>
    BY <1>0, <1>12, <2>6 DEF CommitPrice, counters, SchoolRows, OfferRows, Media,
       RowTypes, CounterTypes
  <2>8. \A g \in Handlers : g # h => ~At(g, "price.commit")
    BY <1>12 DEF CommitPrice, IInv, PriceInv
  <2>9. SentAs(price.free, price.of)' /\ price'.id # 0
    BY <2>1, <2>6, <2>7 DEF SentAs
  <2> QED
    BY <1>12, <2>7, <2>8, <2>9, PriceWritten DEF CommitPrice
<1>13. CASE DeletePrice(h)
  <2>1. RowTypes' /\ CounterTypes' /\ UNCHANGED <<school, stale, asked, Media, frame>>
    BY <1>0, <1>13, IdleType, BoundsAssumption DEF DeletePrice, Begin, SchoolRows, OfferRows,
       Media, RowTypes, CounterTypes, Price, NoPrice
  <2>2. price'.id = 0 /\ ~price'.free /\ PriceUnlocked
    BY <1>13 DEF DeletePrice, NoPrice
  <2> QED
    BY <2>1, <2>2, PriceDeleted
<1> QED
  BY <1>1, <1>2, <1>3, <1>4, <1>5, <1>6, <1>7, <1>8, <1>9, <1>10, <1>11, <1>12, <1>13
     DEF OfferStep

-----------------------------------------------------------------------------
(* The status of the school and its subscription.                          *)

\* The fields of a frame that only moves.
LEMMA GotoFields ==
    ASSUME IInv, NEW h \in Handlers, NEW step \in Steps, NEW f, f = [frame[h] EXCEPT !.at = step]
    PROVE  /\ f \in Frame /\ f.at = step /\ f.copy = frame[h].copy /\ f.next = frame[h].next
           /\ f.old = frame[h].old /\ f.new = frame[h].new
BY DEF IInv, TypeOK, Frame

\* A request goes on without writing, with the frame it has.
LEMMA GoesTo ==
    ASSUME IInv, NEW h \in Handlers, NEW step \in ReadingSteps, Goto(h, step),
           RowTypes', CounterTypes', UNCHANGED <<school, price, asked, Media>>,
           stale \subseteq stale'
    PROVE  IInv'
<1> DEFINE f == [frame[h] EXCEPT !.at = step]
<1>1. step \in Steps
  BY DEF ReadingSteps, Steps
<1>2. f \in Frame /\ f.at = step /\ f.copy = frame[h].copy /\ f.next = frame[h].next
  BY <1>1, GotoFields
<1> QED
  BY <1>2, GoesOn DEF Goto

\* Completion, submission, decisions, payments and expiry keep IInv.
LEMMA StatusIInv ==
    ASSUME IInv, NEW h \in Handlers, StatusStep(h)
    PROVE  IInv'
<1>0. /\ frame[h] \in Frame /\ Sound(frame[h])
      /\ school \in SchoolRow /\ WithReason(school)
      /\ RowTypes /\ CounterTypes
  BY Facts
<1>a. StatusSteps \subseteq Steps /\ ReadingSteps \subseteq Steps
  BY DEF StatusSteps, ReadingSteps, Steps
<1>1. CASE BeginComplete(h)
  <2> DEFINE f == [Idle EXCEPT !.at = "complete.free"]
  <2>1. f \in Frame /\ f.at = "complete.free" /\ f.copy = NoSchool /\ f.next = NoSchool
    BY <1>0, IdleType, IdleFields DEF Frame, Steps, RowTypes
  <2>2. RowTypes' /\ CounterTypes' /\ UNCHANGED <<school, stale, price, asked, Media>>
    BY <1>0, <1>1 DEF BeginComplete, Begin, SchoolRows, OfferRows, PriceRows, Media,
       RowTypes, CounterTypes
  <2> QED
    BY <1>1, <2>1, <2>2, GoesOn DEF BeginComplete, ReadingSteps
<1>2. CASE ReadForFreePlan(h)
  <2> DEFINE f == [Idle EXCEPT !.at = "free.find", !.copy = school, !.next = school, !.old = {}]
    <2>1. f \in Frame /\ f.at = "free.find" /\ f.copy = school /\ f.next = school
      <3>1. f \in Frame
        BY <1>0, IdleType DEF Frame, Steps
      <3>2. f.at = "free.find" /\ f.copy = school /\ f.next = school
        BY <1>0, IdleType DEF Frame
      <3> QED
        BY <3>1, <3>2
  <2>2. RowTypes' /\ CounterTypes' /\ UNCHANGED <<school, stale, price, asked, Media>>
    BY <1>0, <1>2 DEF ReadForFreePlan, counters, SchoolRows, OfferRows, PriceRows, Media,
       RowTypes, CounterTypes
  <2> QED
    BY <1>2, <2>1, <2>2, GoesOn DEF ReadForFreePlan, Holding, ReadingSteps
<1>3. CASE FindFreePlan(h)
  <2>1. RowTypes' /\ CounterTypes' /\ UNCHANGED <<school, stale, price, asked, Media>>
    BY <1>0, <1>3 DEF FindFreePlan, counters, SchoolRows, OfferRows, PriceRows, Media,
       RowTypes, CounterTypes, Plan, Ended
  <2>2. CASE plan.free /\ plan.state = "DUE" /\ frame[h].copy.status = "ACTIVE"
    <3> DEFINE f == [frame[h] EXCEPT !.at = "free.expire", !.next = Expire(frame[h].copy)]
    <3>1. Expire(frame[h].copy) \in SchoolRow /\ frame[h].copy \in SchoolRow
          /\ WithReason(frame[h].copy)
      BY <1>0, RowRules DEF Frame, Sound
    <3>2. /\ f \in Frame /\ f.at = "free.expire" /\ f.copy = frame[h].copy
          /\ f.next = Expire(frame[h].copy)
      BY <1>0, <3>1 DEF Frame, Steps
    <3>3. WithReason(f.next) /\ f.next.logo = f.copy.logo /\ HoldsStatus(f)
      BY <2>2, <3>1, <3>2, DecisionRules, StatusRules DEF HoldsStatus, CreateSteps, UpdateSteps,
         ActorOf, LegalSteps
    <3>4. Become(h, f)
      BY <1>3, <2>2 DEF FindFreePlan
    <3> QED
      BY <2>1, <3>2, <3>3, <3>4, Decides DEF StatusSteps
  <2>3. CASE ~(plan.free /\ plan.state = "DUE" /\ frame[h].copy.status = "ACTIVE")
    <3>1. Goto(h, "free.create") \/ Goto(h, "complete.latest")
      BY <1>3, <2>3 DEF FindFreePlan, Goto
    <3> QED
      BY <2>1, <3>1, GoesTo DEF ReadingSteps
  <2> QED
    BY <2>2, <2>3
<1>4. CASE CreateFreePlan(h)
  <2>1. RowTypes' /\ CounterTypes' /\ UNCHANGED <<school, stale, price, asked, Media>>
    BY <1>0, <1>4 DEF CreateFreePlan, counters, SchoolRows, OfferRows, PriceRows, Media,
       RowTypes, CounterTypes, Plan, FreePlan
  <2> QED
    BY <1>4, <2>1, GoesTo, Returns DEF CreateFreePlan, ReadingSteps
<1>5. CASE ExpireFreeSchool(h)
  <2> DEFINE f == [frame[h] EXCEPT !.at = "complete.latest"]
  <2>1. f \in Frame
    BY <1>a, GotoFields DEF ReadingSteps
  <2> QED
    BY <1>5, <2>1, StatusSaved DEF ExpireFreeSchool, At, Goto, StatusSteps
<1>6. CASE ReadLatest(h)
  <2>1. RowTypes' /\ CounterTypes' /\ UNCHANGED <<school, stale, price, asked, Media>>
    BY <1>0, <1>6 DEF ReadLatest, counters, SchoolRows, OfferRows, PriceRows, Media,
       RowTypes, CounterTypes
  <2> QED
    BY <1>6, <2>1, GoesTo, Returns DEF ReadLatest, ReadingSteps
<1>7. CASE FindForSubmission(h)
  <2>1. RowTypes' /\ CounterTypes' /\ UNCHANGED <<school, stale, price, asked, Media>>
    BY <1>0, <1>7 DEF FindForSubmission, counters, SchoolRows, OfferRows, PriceRows, Media,
       RowTypes, CounterTypes
  <2>2. CASE Return(h)
    BY <2>1, <2>2, Returns
  <2>3. CASE ~Return(h)
    <3> DEFINE ready == school.described /\ located /\ class # "NONE"
               f == [frame[h] EXCEPT !.at = "submit.plan", !.copy = school,
                                     !.next = SubmitForActivation(school),
                                     !.ready = ready]
    <3>1. Become(h, f)
      BY <1>7, <2>3 DEF FindForSubmission
    <3>2. SubmitForActivation(school) \in SchoolRow
      BY <1>0, RowRules
    <3>3. ready \in BOOLEAN
      BY <1>0 DEF SchoolRow, RowTypes
    <3>4. f \in Frame
      <4> HIDE DEF ready
      <4> QED
        BY <1>0, <3>2, <3>3 DEF Frame, Steps
    <3>5. f.at = "submit.plan" /\ f.copy = school /\ f.next = SubmitForActivation(school)
      <4> HIDE DEF ready
      <4> QED
        BY <1>0 DEF Frame
    <3>6. WithReason(f.next) /\ f.next.logo = f.copy.logo /\ HoldsStatus(f)
      <4> HIDE DEF f
      <4> QED
        BY <1>0, <3>5, DecisionRules, StatusRules DEF HoldsStatus, CreateSteps, UpdateSteps,
           ActorOf
    <3> QED
      <4> HIDE DEF f
      <4> QED
        BY <2>1, <3>1, <3>4, <3>5, <3>6, Decides DEF StatusSteps
  <2> QED
    BY <2>2, <2>3
<1>8. CASE CheckPlanForSubmission(h)
  <2>1. RowTypes' /\ CounterTypes' /\ UNCHANGED <<school, stale, price, asked, Media>>
    BY <1>0, <1>8 DEF CheckPlanForSubmission, counters, SchoolRows, OfferRows, PriceRows, Media,
       RowTypes, CounterTypes, Plan, Ended
  <2>2. CASE Goto(h, "submit.save") /\ CanSubmit(frame[h].copy)
    <3> DEFINE f == [frame[h] EXCEPT !.at = "submit.save"]
    <3>1. /\ f \in Frame /\ f.at = "submit.save"
          /\ f.copy = frame[h].copy /\ f.next = frame[h].next
      BY <1>a, GotoFields DEF StatusSteps
    <3>2. frame[h].at = "submit.plan"
      BY <1>8 DEF CheckPlanForSubmission, At
    <3>3. WithReason(f.next) /\ f.next.logo = f.copy.logo /\ HoldsStatus(f)
      BY <1>0, <2>2, <3>1, <3>2 DEF Sound, HoldsStatus, HoldsLogo, StatusSteps, CreateSteps,
         UpdateSteps, ActorOf, LegalSteps, CanSubmit
    <3> QED
      BY <2>1, <2>2, <3>1, <3>3, Decides DEF Goto, StatusSteps
  <2>3. CASE Goto(h, "job.school") \/ Return(h)
    BY <2>1, <2>3, GoesTo, Returns DEF ReadingSteps
  <2> QED
    BY <1>8, <2>2, <2>3 DEF CheckPlanForSubmission
<1>9. CASE SaveSubmitted(h)
  BY <1>9, IdleType, StatusSaved DEF SaveSubmitted, At, Return, StatusSteps
<1>10. CASE BeginApprove(h)
  <2> DEFINE f == [Idle EXCEPT !.at = "approve.save", !.copy = school,
                               !.next = ApproveFromReview(school), !.old = {}]
  <2>1. /\ ApproveFromReview(school) \in SchoolRow
        /\ WithReason(ApproveFromReview(school))
        /\ ApproveFromReview(school).logo = school.logo
    BY <1>0, RowRules, DecisionRules, StatusRules
    <2>2. /\ f \in Frame
          /\ f.at = "approve.save"
          /\ f.copy = school
          /\ f.next = ApproveFromReview(school)
      <3>1. f \in Frame
        BY <1>0, <2>1, IdleType DEF Frame, Steps
      <3>2. f.at = "approve.save" /\ f.copy = school /\ f.next = ApproveFromReview(school)
        BY <1>0, <2>1, IdleType DEF Frame
      <3> QED
        BY <3>1, <3>2
  <2>3. HoldsStatus(f)
    BY <1>0, <1>10, <2>2, StatusRules DEF BeginApprove, HoldsStatus, CreateSteps,
       UpdateSteps, ActorOf, LegalSteps
  <2>4. RowTypes' /\ CounterTypes' /\ UNCHANGED <<school, stale, price, asked, Media>>
    BY <1>0, <1>10 DEF BeginApprove, Begin, SchoolRows, OfferRows, PriceRows, Media,
       RowTypes, CounterTypes
  <2> QED
    BY <1>10, <2>1, <2>2, <2>3, <2>4, Decides DEF BeginApprove, Holding, StatusSteps
<1>11. CASE SaveApproved(h)
  BY <1>11, IdleType, StatusSaved DEF SaveApproved, At, Return, StatusSteps
<1>12. CASE BeginReject(h)
  <2> DEFINE f == [Idle EXCEPT !.at = "reject.save", !.copy = school,
                               !.next = RejectFromReview(school), !.old = {}]
  <2>1. /\ RejectFromReview(school) \in SchoolRow
        /\ WithReason(RejectFromReview(school))
        /\ RejectFromReview(school).logo = school.logo
    BY <1>0, RowRules, DecisionRules, StatusRules
    <2>2. /\ f \in Frame
          /\ f.at = "reject.save"
          /\ f.copy = school
          /\ f.next = RejectFromReview(school)
      <3>1. f \in Frame
        BY <1>0, <2>1, IdleType DEF Frame, Steps
      <3>2. f.at = "reject.save" /\ f.copy = school /\ f.next = RejectFromReview(school)
        BY <1>0, <2>1, IdleType DEF Frame
      <3> QED
        BY <3>1, <3>2
  <2>3. HoldsStatus(f)
    BY <1>0, <1>12, <2>2, StatusRules DEF BeginReject, HoldsStatus, CreateSteps,
       UpdateSteps, ActorOf, LegalSteps
  <2>4. RowTypes' /\ CounterTypes' /\ UNCHANGED <<school, stale, price, asked, Media>>
    BY <1>0, <1>12 DEF BeginReject, Begin, SchoolRows, OfferRows, PriceRows, Media,
       RowTypes, CounterTypes
  <2> QED
    BY <1>12, <2>1, <2>2, <2>3, <2>4, Decides DEF BeginReject, Holding, StatusSteps
<1>13. CASE SaveRejected(h)
  BY <1>13, IdleType, StatusSaved DEF SaveRejected, At, Return, StatusSteps
<1>14. CASE BeginChangeStatus(h)
  <2>0. PICK to \in SchoolStatus : Holding(h, "admin.plan", ApplyAdminStatus(school, to), {})
    BY <1>14 DEF BeginChangeStatus
  <2> DEFINE f == [Idle EXCEPT !.at = "admin.plan", !.copy = school,
                               !.next = ApplyAdminStatus(school, to), !.old = {}]
  <2>1. /\ ApplyAdminStatus(school, to) \in SchoolRow
        /\ WithReason(ApplyAdminStatus(school, to))
        /\ ApplyAdminStatus(school, to).logo = school.logo
    BY <1>0, <2>0, RowRules, DecisionRules, StatusRules
    <2>2. /\ f \in Frame
          /\ f.at = "admin.plan"
          /\ f.copy = school
          /\ f.next = ApplyAdminStatus(school, to)
      <3>1. f \in Frame
        BY <1>0, <2>1, IdleType DEF Frame, Steps
      <3>2. f.at = "admin.plan" /\ f.copy = school /\ f.next = ApplyAdminStatus(school, to)
        BY <1>0, <2>1, IdleType DEF Frame
      <3> QED
        BY <3>1, <3>2
  <2>3. HoldsStatus(f)
    BY <1>0, <1>14, <2>0, <2>2, StatusRules DEF BeginChangeStatus, HoldsStatus, CreateSteps,
       UpdateSteps, ActorOf, LegalSteps
  <2>4. RowTypes' /\ CounterTypes' /\ UNCHANGED <<school, stale, price, asked, Media>>
    BY <1>0, <1>14 DEF BeginChangeStatus, Begin, SchoolRows, OfferRows, PriceRows, Media,
       RowTypes, CounterTypes
  <2> QED
    BY <2>0, <2>1, <2>2, <2>3, <2>4, Decides DEF Holding, StatusSteps
<1>15. CASE ChangePlan(h)
  <2> DEFINE f == [frame[h] EXCEPT !.at = "admin.save"]
  <2>1. plan' \in Plan
    <3>1. plan \in Plan
      BY <1>0 DEF RowTypes
    <3>2. PaidPlan \in Plan /\ FreePlan \in Plan /\ Ended(plan) \in Plan
      BY <3>1 DEF Plan, Ended, FreePlan, PaidPlan
    <3>3. CASE frame[h].next.status = "ACTIVE"
      BY <1>15, <3>2, <3>3 DEF ChangePlan
    <3>4. CASE frame[h].next.status # "ACTIVE" /\ frame[h].copy.status = "ACTIVE"
      BY <1>15, <3>2, <3>4 DEF ChangePlan
    <3>5. CASE frame[h].next.status # "ACTIVE" /\ frame[h].copy.status # "ACTIVE"
      BY <1>15, <3>1, <3>5 DEF ChangePlan
    <3> QED
      BY <3>3, <3>4, <3>5
  <2>2. RowTypes' /\ CounterTypes' /\ UNCHANGED <<school, stale, price, asked, Media>>
    BY <1>0, <1>15, <2>1 DEF ChangePlan, counters, OfferRows, PriceRows, Media,
       RowTypes, CounterTypes
  <2>3. f \in Frame /\ f.at = "admin.save" /\ f.copy = frame[h].copy /\ f.next = frame[h].next
    BY <1>a, GotoFields DEF StatusSteps
  <2>4. Become(h, f) /\ frame[h].at = "admin.plan"
    BY <1>15 DEF ChangePlan, Goto, At
  <2>5. WithReason(f.next) /\ f.next.logo = f.copy.logo /\ HoldsStatus(f)
    BY <1>0, <2>3, <2>4 DEF Sound, HoldsStatus, HoldsLogo, StatusSteps, CreateSteps,
       UpdateSteps, ActorOf
  <2> QED
    BY <2>2, <2>3, <2>4, <2>5, Decides DEF StatusSteps
<1>16. CASE SaveAdminStatus(h)
  BY <1>16, IdleType, StatusSaved DEF SaveAdminStatus, At, Return, StatusSteps
<1>17. CASE ConfirmPayment(h)
  <2> DEFINE f == [Idle EXCEPT !.at = "pay.school"]
  <2>1. f \in Frame /\ f.at = "pay.school" /\ f.copy = NoSchool /\ f.next = NoSchool
    BY <1>0, IdleType, IdleFields DEF Frame, Steps, RowTypes
  <2>2. RowTypes' /\ CounterTypes' /\ UNCHANGED <<school, stale, price, asked, Media>>
    BY <1>0, <1>17 DEF ConfirmPayment, Begin, SchoolRows, OfferRows, PriceRows, Media,
       RowTypes, CounterTypes, Plan, PaidPlan
  <2> QED
    BY <1>17, <2>1, <2>2, GoesOn DEF ConfirmPayment, ReadingSteps
<1>18. CASE FindPaidSchool(h)
  <2> DEFINE f == [Idle EXCEPT !.at = "pay.save", !.copy = school,
                               !.next = ActivateAfterPaidSubscription(school), !.old = {}]
  <2>1. /\ ActivateAfterPaidSubscription(school) \in SchoolRow
        /\ WithReason(ActivateAfterPaidSubscription(school))
        /\ ActivateAfterPaidSubscription(school).logo = school.logo
    BY <1>0, RowRules, DecisionRules, StatusRules
    <2>2. /\ f \in Frame
          /\ f.at = "pay.save"
          /\ f.copy = school
          /\ f.next = ActivateAfterPaidSubscription(school)
      <3>1. f \in Frame
        BY <1>0, <2>1, IdleType DEF Frame, Steps
      <3>2. f.at = "pay.save" /\ f.copy = school /\ f.next = ActivateAfterPaidSubscription(school)
        BY <1>0, <2>1, IdleType DEF Frame
      <3> QED
        BY <3>1, <3>2
  <2>3. HoldsStatus(f)
    BY <1>0, <1>18, <2>2, StatusRules DEF FindPaidSchool, HoldsStatus, CreateSteps,
       UpdateSteps, ActorOf, LegalSteps
  <2>4. RowTypes' /\ CounterTypes' /\ UNCHANGED <<school, stale, price, asked, Media>>
    BY <1>0, <1>18 DEF FindPaidSchool, counters, SchoolRows, OfferRows, PriceRows, Media,
       RowTypes, CounterTypes
  <2> QED
    BY <1>18, <2>1, <2>2, <2>3, <2>4, Decides, Returns DEF FindPaidSchool, Holding, StatusSteps
<1>19. CASE SavePaidSchool(h)
  BY <1>19, IdleType, StatusSaved DEF SavePaidSchool, At, Return, StatusSteps
<1>20. CASE ExpirePlan(h)
  <2> DEFINE f == [Idle EXCEPT !.at = "job.school"]
  <2>1. f \in Frame /\ f.at = "job.school" /\ f.copy = NoSchool /\ f.next = NoSchool
    BY <1>0, IdleType, IdleFields DEF Frame, Steps, RowTypes
  <2>2. RowTypes' /\ CounterTypes' /\ UNCHANGED <<school, stale, price, asked, Media>>
    BY <1>0, <1>20 DEF ExpirePlan, Begin, SchoolRows, OfferRows, PriceRows, Media,
       RowTypes, CounterTypes, Plan, Ended
  <2> QED
    BY <1>20, <2>1, <2>2, GoesOn DEF ExpirePlan, ReadingSteps
<1>21. CASE FindDueSchool(h)
  <2>1. RowTypes' /\ CounterTypes' /\ UNCHANGED <<school, stale, price, asked, Media>>
    BY <1>0, <1>21 DEF FindDueSchool, counters, SchoolRows, OfferRows, PriceRows, Media,
       RowTypes, CounterTypes
  <2>2. CASE Return(h)
    BY <2>1, <2>2, Returns
  <2>3. CASE school.status = "ACTIVE"
    <3> DEFINE f == [Idle EXCEPT !.at = "job.save", !.copy = school,
                                 !.next = Expire(school), !.old = {}]
    <3>1. /\ Expire(school) \in SchoolRow
          /\ WithReason(Expire(school))
          /\ Expire(school).logo = school.logo
      BY <1>0, RowRules, DecisionRules, StatusRules
      <3>2. f \in Frame /\ f.at = "job.save" /\ f.copy = school /\ f.next = Expire(school)
        <4>1. f \in Frame
          BY <1>0, <3>1, IdleType DEF Frame, Steps
        <4>2. f.at = "job.save" /\ f.copy = school /\ f.next = Expire(school)
          BY <1>0, <3>1, IdleType DEF Frame
        <4> QED
          BY <4>1, <4>2
    <3>3. HoldsStatus(f)
      BY <1>0, <2>3, <3>2, StatusRules DEF HoldsStatus, CreateSteps, UpdateSteps, ActorOf,
         LegalSteps
    <3> QED
      BY <1>21, <2>1, <2>3, <3>1, <3>2, <3>3, Decides DEF FindDueSchool, Holding, StatusSteps
  <2> QED
    BY <1>21, <2>2, <2>3 DEF FindDueSchool
<1>22. CASE SaveExpiredSchool(h)
  BY <1>22, IdleType, StatusSaved DEF SaveExpiredSchool, At, Return, StatusSteps
<1>23. CASE BeginNifSuspension(h)
  <2> DEFINE f == [Idle EXCEPT !.at = "nif.plan", !.copy = school,
                               !.next = Suspend(school), !.old = {}]
  <2>1. /\ Suspend(school) \in SchoolRow
        /\ WithReason(Suspend(school))
        /\ Suspend(school).logo = school.logo
    BY <1>0, RowRules, DecisionRules, StatusRules
  <2>2. f \in Frame
    BY <1>0, <2>1, IdleType DEF Frame, Steps
  <2>3. f.at = "nif.plan" /\ f.copy = school /\ f.next = Suspend(school)
    BY <1>0, <2>1, IdleType DEF Frame
  <2>4. HoldsStatus(f)
    BY <1>0, <1>23, <2>3, StatusRules DEF BeginNifSuspension, HoldsStatus, CreateSteps,
       UpdateSteps, ActorOf
  <2>5. RowTypes' /\ CounterTypes' /\ UNCHANGED <<school, stale, price, asked, Media>>
    BY <1>0, <1>23 DEF BeginNifSuspension, Begin, SchoolRows, OfferRows, PriceRows, Media,
       RowTypes, CounterTypes
  <2> QED
    BY <1>23, <2>1, <2>2, <2>3, <2>4, <2>5, Decides DEF BeginNifSuspension, Holding, StatusSteps
<1>24. CASE ClosePlanForNif(h)
  <2> DEFINE f == [frame[h] EXCEPT !.at = "nif.save"]
  <2>1. RowTypes' /\ CounterTypes' /\ UNCHANGED <<school, stale, price, asked, Media>>
    BY <1>0, <1>24 DEF ClosePlanForNif, counters, OfferRows, PriceRows, Media, RowTypes,
       CounterTypes, Plan, Ended
  <2>2. f \in Frame /\ f.at = "nif.save" /\ f.copy = frame[h].copy /\ f.next = frame[h].next
    BY <1>a, GotoFields DEF StatusSteps
  <2>3. Become(h, f) /\ frame[h].at = "nif.plan"
    BY <1>24 DEF ClosePlanForNif, Goto, At
  <2>4. WithReason(f.next) /\ f.next.logo = f.copy.logo /\ HoldsStatus(f)
    BY <1>0, <2>2, <2>3 DEF Sound, HoldsStatus, HoldsLogo, StatusSteps, CreateSteps,
       UpdateSteps, ActorOf, LegalSteps
  <2> QED
    BY <2>1, <2>2, <2>3, <2>4, Decides DEF StatusSteps
<1>25. CASE SaveSuspended(h)
  BY <1>25, IdleType, StatusSaved DEF SaveSuspended, At, Return, StatusSteps
<1> QED
  BY <1>1, <1>2, <1>3, <1>4, <1>5, <1>6, <1>7, <1>8, <1>9, <1>10, <1>11, <1>12, <1>13,
     <1>14, <1>15, <1>16, <1>17, <1>18, <1>19, <1>20, <1>21, <1>22, <1>23, <1>24, <1>25
     DEF StatusStep

-----------------------------------------------------------------------------
(* Files: uploads, deletions, and the rows that refer to them.             *)

\* A file is uploaded.
LEMMA Uploads ==
    ASSUME IInv, NEW h \in Handlers, NEW step, Upload(h, step),
           <<frame[h].at, step>> \in {<<"create.upload", "create.save">>,
                                      <<"update.upload", "update.save">>,
                                      <<"gallery.upload", "gallery.delete">>},
           UNCHANGED <<SchoolRows, OfferRows, PriceRows, counters, stale>>
    PROVE  IInv'
<1>0. /\ frame[h] \in Frame /\ Sound(frame[h]) /\ RowTypes /\ CounterTypes
  BY Facts
<1>1. /\ uploaded' \in Files /\ uploaded' \in 0..MaxFiles /\ files' \in SUBSET Files
      /\ files \subseteq files' /\ gallery' = gallery /\ named' = named /\ step \in Steps
  BY <1>0, BoundsAssumption DEF Upload, RowTypes, Files, Steps
<1>2. PICK f \in Frame : f = [frame[h] EXCEPT !.at = step, !.new = uploaded']
  BY <1>0, <1>1 DEF Frame
<1>3. /\ f.at = step /\ f.new = uploaded' /\ f.copy = frame[h].copy /\ f.next = frame[h].next
      /\ f.old = frame[h].old
  BY <1>0, <1>2 DEF Frame
<1>4. Become(h, f)
  BY <1>2 DEF Upload
<1>5. Sound(f)
  <2>1. f.new # NoFile
    BY <1>1, <1>3, NoFiles
  <2> QED
    BY <1>0, <1>3, <2>1 DEF Sound, HoldsStatus, HoldsLogo, CreateSteps, UpdateSteps,
       StatusSteps, ActorOf
<1>6. TypeOK'
  <2>1. RowTypes' /\ CounterTypes'
    BY <1>0, <1>1 DEF RowTypes, CounterTypes, SchoolRows, OfferRows, PriceRows, counters
  <2>2. FrameTypes'
    BY <1>4, BecomeType DEF IInv, TypeOK, FrameTypes
  <2> QED
    BY <2>1, <2>2 DEF TypeOK, RowTypes, CounterTypes, FrameTypes
<1>7. (\A g \in Handlers : Sound(frame[g]))'
  BY <1>4, <1>5, SoundKept DEF IInv
<1>8. PriceInv'
  <2>1. HoldsPrice(f)' /\ f.at # "price.commit"
    BY <1>3 DEF HoldsPrice, PriceSteps
  <2> QED
    BY <1>4, <2>1, PriceKept DEF IInv, PriceRows
<1>9. MediaInv'
  BY MediaUploaded DEF IInv, SchoolRows
<1>10. LogoInv'
  <2>1. SentLogo(f)'
    BY <1>1, <1>3 DEF IInv, LogoInv, SentLogo, CreateSteps, UpdateSteps
  <2> QED
    BY <1>1, <1>3, <1>4, <2>1, LogoKept DEF IInv, SchoolRows
<1> QED
  BY <1>6, <1>7, <1>8, <1>9, <1>10 DEF IInv, WithReason, SchoolRows

\* Files are deleted, and the request is over.
LEMMA Cleans ==
    ASSUME IInv, NEW h \in Handlers, DeleteFiles(frame[h].old), Return(h),
           frame[h].at \in {"update.delete", "logo.delete", "gallery.clean", "item.clean"},
           UNCHANGED <<SchoolRows, OfferRows, PriceRows, counters, stale>>
    PROVE  IInv'
<1>0. RowTypes /\ CounterTypes
  BY Facts
<1>1. Become(h, Idle) /\ Idle \in Frame
  BY IdleType DEF Return
<1>2. TypeOK'
  <2>1. RowTypes' /\ CounterTypes'
    BY <1>0 DEF DeleteFiles, RowTypes, CounterTypes, SchoolRows, OfferRows, PriceRows, counters
  <2>2. FrameTypes'
    BY <1>1, BecomeType DEF IInv, TypeOK, FrameTypes
  <2> QED
    BY <2>1, <2>2 DEF TypeOK, RowTypes, CounterTypes, FrameTypes
<1>3. (\A g \in Handlers : Sound(frame[g]))'
  BY <1>1, IdleSound, SoundKept DEF IInv
<1>4. PriceInv'
  <2>1. HoldsPrice(Idle)' /\ Idle.at # "price.commit"
    BY IdleFields DEF HoldsPrice, PriceSteps
  <2> QED
    BY <1>1, <2>1, PriceKept DEF IInv, PriceRows
<1>5. MediaInv'
  BY FilesDeleted DEF IInv, SchoolRows
<1>6. LogoInv'
  BY LogoSurvivesDeletion DEF IInv, SchoolRows
<1> QED
  BY <1>2, <1>3, <1>4, <1>5, <1>6 DEF IInv, WithReason, SchoolRows

\* What the gallery shows are files.
LEMMA ShownAreFiles == ASSUME RowTypes PROVE FilesOf(gallery) \in SUBSET Files
BY DEF RowTypes, FilesOf, GalleryItem

\* A request on the gallery goes on: it knows what the gallery shows, or what
\* it knew before.
LEMMA GalleryMoves ==
    ASSUME IInv, NEW h \in Handlers, NEW f \in Frame, Become(h, f), f.at \in GallerySteps,
           \/ f.copy = NoSchool /\ f.next = NoSchool
           \/ f.copy = frame[h].copy /\ f.next = frame[h].next,
           f.at \in {"gallery.delete", "gallery.commit"} =>
               f.new # NoFile /\ f.new = frame[h].new /\ frame[h].at \in PendingSteps,
           f.old \subseteq FilesOf(gallery) \cup GalleryFilesOf(frame[h]),
           Unshown(f), RowTypes', CounterTypes', UNCHANGED <<school, stale, price, asked, Media>>
    PROVE  IInv'
<1>1. Sound(frame[h])
  BY DEF IInv
<1>2. Sound(f)
  BY <1>1, IdleSound DEF Sound, HoldsStatus, HoldsLogo, GallerySteps, StatusSteps,
     CreateSteps, UpdateSteps, ActorOf
<1>3. HoldsPrice(f)' /\ f.at # "price.commit"
  BY DEF HoldsPrice, PriceSteps, GallerySteps
<1>4. Carries(h, f)
  <2>1. Pending(f) \subseteq Pending(frame[h])
    BY DEF Pending, PendingSteps, GallerySteps
  <2>2. GalleryFilesOf(f) \subseteq FilesOf(gallery) \cup GalleryFilesOf(frame[h])
    BY DEF GalleryFilesOf
  <2>3. LogoFilesOf(f) \subseteq {school.logo, NoFile, Link} \cup LogoFilesOf(frame[h])
    BY DEF GallerySteps, LogoFilesOf, LogoSteps, NoSchool
  <2> QED
    BY <2>1, <2>2, <2>3 DEF Carries, GallerySteps
<1>5. SentLogo(f)'
  BY SendsNoLogo DEF GallerySteps, CreateSteps, UpdateSteps
<1> QED
  BY <1>2, <1>3, <1>4, <1>5, Quiet DEF Media

\* The gallery's rows are written: none is new, or the one whose file the
\* request had pending.
LEMMA GalleryWritten ==
    ASSUME IInv, NEW h \in Handlers, NEW f \in Frame, Become(h, f),
           f.at \in {"gallery.clean", "item.clean"},
           f.copy = frame[h].copy, f.next = frame[h].next, f.old = frame[h].old,
           frame[h].at \in GallerySteps,
           gallery' \in SUBSET GalleryItem,
           FilesOf(gallery') \subseteq FilesOf(gallery) \cup Pending(frame[h]),
           f.old \cap FilesOf(gallery') \subseteq named,
           UNCHANGED <<SchoolRows, OfferRows, PriceRows, files, uploaded, named, counters, stale>>
    PROVE  IInv'
<1>0. Sound(frame[h]) /\ RowTypes /\ CounterTypes
  BY Facts
<1>1. Sound(f)
  BY <1>0 DEF Sound, HoldsStatus, HoldsLogo, StatusSteps, CreateSteps, UpdateSteps, ActorOf
<1>2. TypeOK'
  <2>1. RowTypes' /\ CounterTypes'
    BY <1>0 DEF RowTypes, CounterTypes, SchoolRows, OfferRows, PriceRows, counters
  <2>2. FrameTypes'
    BY BecomeType DEF IInv, TypeOK, FrameTypes
  <2> QED
    BY <2>1, <2>2 DEF TypeOK, RowTypes, CounterTypes, FrameTypes
<1>3. (\A g \in Handlers : Sound(frame[g]))'
  BY <1>1, SoundKept DEF IInv
<1>4. PriceInv'
  <2>1. HoldsPrice(f)' /\ f.at # "price.commit"
    BY DEF HoldsPrice, PriceSteps
  <2> QED
    BY <2>1, PriceKept DEF IInv, PriceRows
<1>5. MediaInv'
  <2>1. Pending(f) = {} /\ Unshown(f)'
    BY DEF Pending, PendingSteps, Unshown
  <2>2. GalleryFilesOf(f) \subseteq GalleryFilesOf(frame[h])
    BY DEF GalleryFilesOf
  <2>3. \A x \in Files : x \in FilesOf(gallery') \cup GalleryFilesOf(f) =>
               InGallery(x) \/ x \in Pending(frame[h]) \ Pending(f)
    BY <2>1, <2>2 DEF InGallery
  <2>4. \A x \in Files : x \in {school'.logo} \cup LogoFilesOf(f) => InLogo(x)
    BY DEF LogoFilesOf, LogoSteps, InLogo, SchoolRows
  <2> QED
    BY <2>1, <2>3, <2>4, MediaKept DEF IInv
<1>6. LogoInv'
  BY SendsNoLogo, LogoKept DEF IInv, SchoolRows, CreateSteps, UpdateSteps
<1> QED
  BY <1>2, <1>3, <1>4, <1>5, <1>6 DEF IInv, WithReason, SchoolRows

\* The requests on the gallery keep IInv.
LEMMA GalleryIInv ==
    ASSUME IInv, NEW h \in Handlers, GalleryStepOf(h)
    PROVE  IInv'
<1>0. /\ frame[h] \in Frame /\ Sound(frame[h])
      /\ school \in SchoolRow /\ WithReason(school)
      /\ RowTypes /\ CounterTypes
  BY Facts
<1>1. CASE BeginGallery(h)
  <2>1. PICK kind \in {"PHOTO", "VIDEO"} :
          Become(h, [Idle EXCEPT !.at = "gallery.find", !.kind = kind])
    BY <1>1 DEF BeginGallery
  <2> DEFINE f == [Idle EXCEPT !.at = "gallery.find", !.kind = kind]
  <2>2. f \in Frame /\ f.at = "gallery.find" /\ f.copy = NoSchool /\ f.next = NoSchool
    BY IdleType, IdleFields DEF Frame, Steps
  <2>3. RowTypes' /\ CounterTypes' /\ UNCHANGED <<school, stale, price, asked, Media>>
    BY <1>0, <1>1 DEF BeginGallery, Begin, SchoolRows, OfferRows, PriceRows, Media,
       RowTypes, CounterTypes
  <2> QED
    BY <2>1, <2>2, <2>3, GoesOn DEF ReadingSteps
<1>2. CASE FindGallery(h)
  <2> DEFINE f == [frame[h] EXCEPT !.at = "gallery.upload", !.old = FilesOf(gallery)]
  <2>1. /\ f \in Frame /\ f.at = "gallery.upload" /\ f.old = FilesOf(gallery)
        /\ f.copy = frame[h].copy /\ f.next = frame[h].next
    BY <1>0, ShownAreFiles DEF Frame, Steps
  <2>2. RowTypes' /\ CounterTypes' /\ UNCHANGED <<school, stale, price, asked, Media>>
    BY <1>0, <1>2 DEF FindGallery, counters, SchoolRows, OfferRows, PriceRows, Media,
       RowTypes, CounterTypes
  <2>3. Unshown(f)
    BY <2>1 DEF Unshown
  <2> QED
    BY <1>2, <2>1, <2>2, <2>3, GalleryMoves DEF FindGallery, GallerySteps
<1>3. CASE UploadGallery(h)
  BY <1>3, Uploads DEF UploadGallery, At
<1>4. CASE DeleteGalleryRows(h)
  <2> DEFINE f == [frame[h] EXCEPT !.at = "gallery.commit", !.gone = FilesOf(gallery)]
  <2>1. /\ f \in Frame /\ f.at = "gallery.commit" /\ f.old = frame[h].old
        /\ f.gone = FilesOf(gallery) /\ f.new = frame[h].new
        /\ f.copy = frame[h].copy /\ f.next = frame[h].next
    BY <1>0, ShownAreFiles DEF Frame, Steps
  <2>2. RowTypes' /\ CounterTypes' /\ UNCHANGED <<school, stale, price, asked, Media>>
    BY <1>0, <1>4 DEF DeleteGalleryRows, counters, SchoolRows, OfferRows, PriceRows, Media,
       RowTypes, CounterTypes
  <2>3. frame[h].at = "gallery.delete" /\ Become(h, f)
    BY <1>4 DEF DeleteGalleryRows, At
  <2>4. Unshown(f)
    BY <2>1 DEF Unshown
  <2>5. f.new # NoFile /\ f.old \subseteq GalleryFilesOf(frame[h])
    BY <1>0, <2>1, <2>3 DEF Sound, GalleryFilesOf, GallerySteps
  <2> QED
    BY <2>1, <2>2, <2>3, <2>4, <2>5, GalleryMoves DEF GallerySteps, PendingSteps
<1>5. CASE CommitGallery(h)
  <2> DEFINE f == [frame[h] EXCEPT !.at = "gallery.clean"]
             item == [file |-> frame[h].new, kind |-> frame[h].kind]
  <2>1. /\ f \in Frame /\ f.at = "gallery.clean" /\ f.old = frame[h].old
        /\ f.copy = frame[h].copy /\ f.next = frame[h].next
    BY <1>0 DEF Frame, Steps
  <2>2. frame[h].at = "gallery.commit" /\ Become(h, f)
    BY <1>5 DEF CommitGallery, At, Goto
  <2>3. frame[h].new \in Files /\ frame[h].kind \in {"PHOTO", "VIDEO"}
    BY <1>0, <2>2 DEF Sound, Frame
  <2>4. frame[h].new \in Pending(frame[h])
    BY <2>2, <2>3 DEF Pending, PendingSteps
  <2>5. item \in GalleryItem /\ item.file = frame[h].new
    BY <2>3 DEF GalleryItem
  <2>6. gallery' = {i \in gallery : i.file \notin frame[h].gone} \cup {item}
    BY <1>5 DEF CommitGallery
  <2>7. gallery' \in SUBSET GalleryItem
    BY <1>0, <2>5, <2>6 DEF RowTypes
  <2>8. FilesOf(gallery') \subseteq (FilesOf(gallery) \ frame[h].gone) \cup {frame[h].new}
    BY <2>5, <2>6 DEF FilesOf
  <2>9. f.old \cap FilesOf(gallery') \subseteq named
    <3>1. f.old \cap FilesOf(gallery) \subseteq frame[h].gone \cup named
      BY <2>1, <2>2 DEF IInv, MediaInv, Unshown
    <3>2. frame[h].new \in f.old => frame[h].new \in named
      BY <2>1, <2>2, <2>3, <2>4 DEF IInv, MediaInv, Apart, InGallery, GalleryFilesOf, GallerySteps
    <3> QED
      BY <2>8, <3>1, <3>2
  <2> QED
    BY <1>5, <2>1, <2>2, <2>4, <2>7, <2>8, <2>9, GalleryWritten DEF CommitGallery, GallerySteps
<1>6. CASE CleanGallery(h)
  BY <1>6, Cleans DEF CleanGallery, At
<1>7. CASE BeginDeleteItem(h)
  <2>1. PICK item \in gallery : Become(h, [Idle EXCEPT !.at = "item.delete", !.old = {item.file}])
    BY <1>7 DEF BeginDeleteItem
  <2> DEFINE f == [Idle EXCEPT !.at = "item.delete", !.old = {item.file}]
  <2>2. item.file \in FilesOf(gallery) /\ item.file \in Files
    BY <1>0, ShownAreFiles DEF FilesOf
  <2>3. /\ f \in Frame /\ f.at = "item.delete" /\ f.old = {item.file}
        /\ f.copy = NoSchool /\ f.next = NoSchool
    <3>1. f \in Frame
      BY <2>2, IdleType DEF Frame, Steps
    <3>2. f.at = "item.delete" /\ f.old = {item.file} /\ f.copy = Idle.copy /\ f.next = Idle.next
      BY IdleType DEF Frame
    <3> QED
      BY <3>1, <3>2, IdleFields
  <2>4. RowTypes' /\ CounterTypes' /\ UNCHANGED <<school, stale, price, asked, Media>>
    BY <1>0, <1>7 DEF BeginDeleteItem, Begin, SchoolRows, OfferRows, PriceRows, Media,
       RowTypes, CounterTypes
  <2>5. Unshown(f)
    BY <2>3 DEF Unshown
  <2> QED
    BY <2>1, <2>2, <2>3, <2>4, <2>5, GalleryMoves DEF GallerySteps
<1>8. CASE DeleteItem(h)
  <2> DEFINE f == [frame[h] EXCEPT !.at = "item.clean"]
  <2>1. /\ f \in Frame /\ f.at = "item.clean" /\ f.old = frame[h].old
        /\ f.copy = frame[h].copy /\ f.next = frame[h].next
    BY <1>0 DEF Frame, Steps
  <2>2. frame[h].at = "item.delete" /\ Become(h, f)
    BY <1>8 DEF DeleteItem, At, Goto
  <2>3. gallery' = {i \in gallery : i.file \notin frame[h].old}
    BY <1>8 DEF DeleteItem
  <2>4. gallery' \in SUBSET GalleryItem
    BY <1>0, <2>3 DEF RowTypes
  <2>5. FilesOf(gallery') \subseteq FilesOf(gallery) \ frame[h].old
    BY <2>3 DEF FilesOf
  <2> QED
    BY <1>8, <2>1, <2>2, <2>4, <2>5, GalleryWritten DEF DeleteItem, GallerySteps
<1>9. CASE CleanItem(h)
  BY <1>9, Cleans DEF CleanItem, At
<1> QED
  BY <1>1, <1>2, <1>3, <1>4, <1>5, <1>6, <1>7, <1>8, <1>9 DEF GalleryStepOf

-----------------------------------------------------------------------------
(* Creation, profile and logo.                                             *)

\* A request has read the school, its logo's file to be deleted in the end, or
\* it brings the first row.
LEMMA HoldsLogoOf ==
    ASSUME IInv, NEW h \in Handlers, NEW f \in Frame, Become(h, f),
           f.at \in CreateSteps \cup UpdateSteps \cup {"logo.save"}, f.new = NoFile,
           f.copy = school, WithReason(f.next), HoldsStatus(f),
           f.next.logo \in {school.logo, NoFile, Link} \cup named',
           SentLogo(f)',
           f.at = "update.save" => f.old = {},
           f.at = "logo.save" => f.next.logo = NoFile,
           f.old \subseteq FileBehind(school.logo),
           RowTypes', CounterTypes', named \subseteq named',
           UNCHANGED <<school, stale, price, asked, gallery, files, uploaded>>
    PROVE  IInv'
<1>1. WithReason(school)
  BY DEF IInv
<1>2. Sound(f)
  BY <1>1 DEF Sound, HoldsLogo, CreateSteps, UpdateSteps, StatusSteps
<1>3. Carries(h, f)
  <2>1. Pending(f) = {}
    BY NoFiles DEF Pending
  <2>2. GalleryFilesOf(f) = {} /\ Unshown(f)
    BY DEF GalleryFilesOf, GallerySteps, Unshown, CreateSteps, UpdateSteps
  <2>3. LogoFilesOf(f) \subseteq {school.logo, NoFile, Link} \cup LogoFilesOf(frame[h]) \cup named'
    BY DEF LogoFilesOf, FileBehind
  <2> QED
    BY <2>1, <2>2, <2>3 DEF Carries, CreateSteps, UpdateSteps
<1>4. HoldsPrice(f)' /\ f.at # "price.commit"
  BY DEF HoldsPrice, PriceSteps, CreateSteps, UpdateSteps
<1> QED
  BY <1>2, <1>3, <1>4, Quiet

\* The school's row is created, or saved with another logo: none, a URL, the
\* one the request read, or the file it uploaded.
LEMMA LogoWritten ==
    ASSUME IInv, NEW h \in Handlers, NEW f \in Frame, Become(h, f),
           frame[h].at \in {"create.save", "update.save", "logo.save"},
           \/ f.at = "idle" /\ f.copy = NoSchool /\ f.next = NoSchool /\ f.old = {}
           \/ /\ f.at \in {"update.delete", "logo.delete"}
              /\ frame[h].at \in {"update.save", "logo.save"}
              /\ f.copy = frame[h].copy /\ f.next = frame[h].next /\ f.old = frame[h].old,
           school' \in SchoolRow, WithReason(school'),
           school'.logo \in {NoFile, Link, frame[h].copy.logo, frame[h].next.logo}
                            \cup Pending(frame[h]),
           RowTypes', UNCHANGED <<price, asked, Media, counters>>,
           LogoInv'
    PROVE  IInv'
<1>0. Sound(frame[h]) /\ CounterTypes
  BY Facts
<1>1. TypeOK'
  <2>1. CounterTypes' /\ FrameTypes'
    BY <1>0, BecomeType DEF CounterTypes, counters, IInv, TypeOK, FrameTypes
  <2> QED
    BY <2>1 DEF TypeOK, RowTypes, CounterTypes, FrameTypes
<1>2. Sound(f)
  BY <1>0, IdleSound DEF Sound, HoldsStatus, HoldsLogo, CreateSteps, UpdateSteps,
     StatusSteps, ActorOf
<1>3. (\A g \in Handlers : Sound(frame[g]))'
  BY <1>2, SoundKept DEF IInv
<1>4. PriceInv'
  <2>1. HoldsPrice(f)' /\ f.at # "price.commit"
    BY DEF HoldsPrice, PriceSteps
  <2> QED
    BY <2>1, PriceKept DEF IInv
<1>5. MediaInv'
  <2>1. UNCHANGED <<gallery, files, uploaded, named>> /\ gallery' \in SUBSET GalleryItem
    BY DEF Media, RowTypes
  <2>2. FilesOf(gallery') = FilesOf(gallery)
    BY <2>1
  <2>3. Pending(f) = {} /\ GalleryFilesOf(f) = {} /\ Unshown(f)'
    BY DEF Pending, PendingSteps, GalleryFilesOf, GallerySteps, Unshown
  <2>4. \A x \in Files : x \in FilesOf(gallery') \cup GalleryFilesOf(f) => InGallery(x)
    BY <2>2, <2>3 DEF InGallery
  <2>5. \A x \in Files : x \in LogoFilesOf(f) => InLogo(x)
    BY NoFiles DEF LogoFilesOf, LogoSteps, InLogo, NoSchool
  <2>6. \A x \in Files : x = school'.logo => InLogo(x) \/ x \in Pending(frame[h])
    BY NoFiles DEF InLogo, LogoFilesOf
  <2>7. \A x \in Pending(frame[h]) \ named : x \in Files /\ ~InGallery(x)
    BY DEF Pending, IInv, MediaInv, Apart
  <2>8. \A x \in Pending(frame[h]) \ named : ~InGallery(x)'
    BY <2>2, <2>3, <2>7, InGalleryAfter DEF IInv, InGallery
  <2> QED
    BY <2>1, <2>2, <2>3, <2>4, <2>5, <2>6, <2>8, MediaKept DEF IInv
<1> QED
  BY <1>1, <1>3, <1>4, <1>5 DEF IInv

\* The logo a request saves.
LEMMA SavedLogo ==
    ASSUME IInv, NEW h \in Handlers, frame[h].at \in {"create.save", "update.save"}
    PROVE  /\ LogoOf(h) \in Files \cup {NoFile, Link}
           /\ LogoOf(h) \in {frame[h].next.logo} \cup Pending(frame[h])
           /\ frame[h].new # NoFile =>
                 /\ LogoOf(h) \in Pending(frame[h])
                 /\ LogoOf(h) \notin named => LogoOf(h) \in files /\ ~InLogo(LogoOf(h))
           /\ frame[h].new = NoFile => LogoOf(h) = frame[h].next.logo
<1>1. frame[h].new \in Files \cup {NoFile} /\ frame[h].next \in SchoolRow
  BY Facts DEF Frame
<1>2. frame[h].new # NoFile => frame[h].new \in Pending(frame[h])
  BY <1>1 DEF Pending, PendingSteps
<1> QED
  BY <1>1, <1>2 DEF LogoOf, SchoolRow, IInv, MediaInv, Apart

\* A URL that is sent is one a logo may have.
LEMMA UrlsAreLogos ==
    ASSUME RowTypes
    PROVE  LogoUrls \subseteq Files \cup {NoFile, Link}
BY BoundsAssumption DEF RowTypes, LogoUrls, Files

\* Creation, profile and logo keep IInv.
LEMMA ProfileIInv ==
    ASSUME IInv, NEW h \in Handlers, ProfileStep(h)
    PROVE  IInv'
<1>0. /\ frame[h] \in Frame /\ Sound(frame[h])
      /\ school \in SchoolRow /\ WithReason(school)
      /\ RowTypes /\ CounterTypes
  BY Facts
<1>1. CASE BeginCreate(h)
  <2>1. PICK described \in BOOLEAN, logo \in LogoUrls, step \in {"create.upload", "create.save"} :
          Name(FileBehind(logo)) /\ Holding(h, step, Create(described, logo), {})
    <3>1. NoFile \in LogoUrls /\ FileBehind(NoFile) = {}
      BY NoFiles DEF LogoUrls, FileBehind
    <3> QED
      BY <1>1, <3>1 DEF BeginCreate
  <2> DEFINE next == Create(described, logo)
             f == [Idle EXCEPT !.at = step, !.copy = school, !.next = next, !.old = {}]
  <2>a. /\ logo \in Files \cup {NoFile, Link} /\ named' = named \cup FileBehind(logo)
        /\ UNCHANGED <<gallery, files, uploaded>>
    BY <1>0, <2>1, UrlsAreLogos DEF Name
  <2>2. next \in SchoolRow /\ WithReason(next)
    BY <1>0, <2>1, <2>a, RowRules, DecisionRules
  <2>3. next.status = "DRAFT" /\ next.logo = logo
    BY DEF Create, NoSchool
  <2> HIDE DEF next
  <2>4. f \in Frame
    BY <1>0, <2>1, <2>2, IdleType DEF Frame, Steps
  <2>5. f.at = step /\ f.copy = school /\ f.next = next /\ f.old = {} /\ f.new = NoFile
    BY IdleType, IdleFields DEF Frame
  <2>6. Become(h, f)
    BY <2>1 DEF Holding, next
  <2> HIDE DEF f
  <2>7. HoldsStatus(f)
    BY <2>1, <2>3, <2>5 DEF HoldsStatus, CreateSteps, UpdateSteps, ActorOf
  <2>8. RowTypes' /\ CounterTypes' /\ UNCHANGED <<school, stale, price, asked>>
    BY <1>0, <1>1, <2>a DEF BeginCreate, SchoolRows, OfferRows, PriceRows, RowTypes, CounterTypes,
       FileBehind
  <2>9. FileBehind(logo) \subseteq named' /\ logo \in {NoFile, Link} \cup named'
    BY <2>a DEF FileBehind
  <2>b. PICK g \in Frame : g = f
    BY <2>4
  <2>10. SentLogo(g)'
    <3>1. g.at = step /\ g.next.logo = logo
      BY <2>3, <2>5, <2>b
    <3> QED
      BY <2>1, <2>9, <3>1 DEF SentLogo, UpdateSteps
  <2> QED
    BY <2>1, <2>2, <2>3, <2>b, <2>5, <2>6, <2>7, <2>8, <2>9, <2>10, <2>a, HoldsLogoOf DEF CreateSteps
<1>2. CASE UploadFirstLogo(h)
  BY <1>2, Uploads DEF UploadFirstLogo, At
<1>3. CASE CreateWithOwner(h)
  <2>1. frame[h].at = "create.save" /\ Become(h, Idle) /\ Idle \in Frame
    BY <1>3, IdleType DEF CreateWithOwner, At, Return
  <2>2. LogoOf(h) \in Files \cup {NoFile, Link} /\ frame[h].next \in SchoolRow
    BY <1>0, <2>1, SavedLogo DEF Frame
  <2>3. /\ school' = [frame[h].next EXCEPT !.logo = LogoOf(h)]
        /\ located' \in BOOLEAN
        /\ UNCHANGED <<plan, services, levels, class, synced, PriceRows, Media, counters, stale>>
    BY <1>3 DEF CreateWithOwner
  <2>4. school' \in SchoolRow /\ school'.logo = LogoOf(h)
    BY <2>2, <2>3, RowRules DEF SchoolRow
  <2>5. WithReason(school')
    BY <1>0, <2>2, <2>3, DecisionRules DEF Sound
  <2>6. RowTypes'
    BY <1>0, <2>3, <2>4 DEF RowTypes, PriceRows, Media
  <2>7. LogoInv'
    <3>1. \A g \in Handlers : frame'[g] = IF g = h THEN Idle ELSE frame[g]
      BY <2>1, FramesAfter DEF IInv
    <3>2. named' = named /\ files' = files
      BY <2>3 DEF Media
    <3>3. FileBehind(LogoOf(h)) \ named \subseteq files
      BY <1>0, <2>1, SavedLogo DEF IInv, LogoInv, SentLogo, CreateSteps, FileBehind
    <3>4. ASSUME NEW g \in Handlers, frame'[g].at \in {"update.delete", "logo.delete"}
          PROVE  FileBehind(LogoOf(h)) \cap frame'[g].old \subseteq named
      <4>1. frame[g] \in Frame /\ frame'[g] = frame[g]
        BY <3>1, <3>4, IdleFields, Facts
      <4>2. \A x \in frame[g].old : InLogo(x)
        BY <3>4, <4>1 DEF InLogo, LogoFilesOf, LogoSteps
      <4>3. CASE frame[h].new # NoFile
        BY <2>1, <4>1, <4>2, <4>3, SavedLogo DEF FileBehind
      <4>4. CASE frame[h].new = NoFile
        BY <2>1, <4>4, SavedLogo DEF IInv, LogoInv, SentLogo, CreateSteps
      <4> QED
        BY <4>3, <4>4
    <3>5. (\A g \in Handlers : SentLogo(frame[g]))'
      BY <3>1, <3>2, IdleFields DEF IInv, LogoInv, SentLogo, CreateSteps, UpdateSteps, FileBehind
    <3> QED
      BY <2>4, <3>2, <3>3, <3>4, <3>5 DEF LogoInv, FileBehind
  <2> QED
    BY <2>1, <2>2, <2>3, <2>4, <2>5, <2>6, <2>7, SavedLogo, LogoWritten, IdleFields DEF PriceRows
<1>4. CASE BeginUpdate(h)
  <2>1. PICK described \in BOOLEAN :
          \/ \E logo \in LogoUrls \cup {school.logo} :
               /\ Name(FileBehind(logo) \ {school.logo})
               /\ Holding(h, "update.save", UpdateProfile(school, described, logo), {})
          \/ /\ Name({})
             /\ Holding(h, "update.upload", UpdateProfile(school, described, school.logo),
                        FileBehind(school.logo))
    BY <1>4 DEF BeginUpdate
  <2>2. PICK logo \in LogoUrls \cup {school.logo}, step \in UpdateSteps,
             old \in SUBSET FileBehind(school.logo) :
          /\ Name(FileBehind(logo) \ {school.logo})
          /\ Holding(h, step, UpdateProfile(school, described, logo), old)
          /\ step = "update.save" => old = {}
    <3>1. FileBehind(school.logo) \ {school.logo} = {}
      BY DEF FileBehind
    <3> QED
      BY <2>1, <3>1 DEF UpdateSteps
  <2> DEFINE next == UpdateProfile(school, described, logo)
             f == [Idle EXCEPT !.at = step, !.copy = school, !.next = next, !.old = old]
  <2>3. /\ logo \in Files \cup {NoFile, Link} /\ old \in SUBSET Files
        /\ named' = named \cup (FileBehind(logo) \ {school.logo})
        /\ UNCHANGED <<gallery, files, uploaded>>
    BY <1>0, <2>2, UrlsAreLogos DEF SchoolRow, FileBehind, Name
  <2>4. next \in SchoolRow /\ WithReason(next)
    BY <1>0, <2>1, <2>3, RowRules, DecisionRules
  <2>5. next.status = school.status /\ next.logo = logo
    BY <1>0 DEF UpdateProfile, SchoolRow
  <2> HIDE DEF next
  <2>6. f \in Frame
    BY <1>0, <2>3, <2>4, IdleType DEF Frame, Steps, UpdateSteps
  <2>7. f.at = step /\ f.copy = school /\ f.next = next /\ f.old = old /\ f.new = NoFile
    BY IdleType, IdleFields DEF Frame
  <2>8. Become(h, f)
    BY <2>2 DEF Holding, next
  <2> HIDE DEF f
  <2>9. HoldsStatus(f)
    BY <2>5, <2>7 DEF HoldsStatus, CreateSteps, UpdateSteps, ActorOf
  <2>10. RowTypes' /\ CounterTypes' /\ UNCHANGED <<school, stale, price, asked>>
    BY <1>0, <1>4, <2>3 DEF BeginUpdate, Begin, SchoolRows, OfferRows, PriceRows, RowTypes,
       CounterTypes, FileBehind
  <2>11. /\ logo = school.logo \/ FileBehind(logo) \subseteq named'
         /\ logo \in {school.logo, NoFile, Link} \cup named'
    BY <2>3 DEF FileBehind
  <2>a. PICK g \in Frame : g = f
    BY <2>6
  <2>12. SentLogo(g)'
    <3>1. g.at = step /\ g.next.logo = logo /\ g.copy.logo = school.logo
      BY <2>5, <2>7, <2>a
    <3> QED
      BY <2>2, <2>11, <3>1 DEF SentLogo, FileBehind, CreateSteps, UpdateSteps
  <2> QED
    BY <2>2, <2>3, <2>4, <2>5, <2>a, <2>7, <2>8, <2>9, <2>10, <2>11, <2>12, HoldsLogoOf
       DEF CreateSteps, UpdateSteps
<1>5. CASE UploadLogo(h)
  BY <1>5, Uploads DEF UploadLogo, At
<1>6. CASE SaveProfile(h)
  <2>1. /\ frame[h].at = "update.save"
        /\ school' = [frame[h].next EXCEPT !.logo = LogoOf(h)]
        /\ stale' = IF school = frame[h].copy THEN stale ELSE stale \cup {"school"}
        /\ UNCHANGED <<plan, OfferRows, PriceRows, Media, counters>>
    BY <1>6 DEF SaveProfile, At, SaveSchoolRow
  <2>2. LogoOf(h) \in Files \cup {NoFile, Link} /\ frame[h].next \in SchoolRow
    BY <1>0, <2>1, SavedLogo DEF Frame
  <2>3. school' \in SchoolRow /\ school'.logo = LogoOf(h)
    BY <2>1, <2>2, RowRules DEF SchoolRow
  <2>4. WithReason(school')
    BY <1>0, <2>1, <2>2, DecisionRules DEF Sound
  <2>5. RowTypes'
    BY <1>0, <2>1, <2>3 DEF RowTypes, OfferRows, PriceRows, Media, Copied
  <2>6. PICK f \in Frame : /\ Become(h, f)
                           /\ \/ f = Idle /\ frame[h].old = {}
                              \/ f = [frame[h] EXCEPT !.at = "update.delete"] /\ frame[h].old # {}
    <3>1. [frame[h] EXCEPT !.at = "update.delete"] \in Frame
      BY <1>0 DEF Frame, Steps
    <3> QED
      BY <1>6, <3>1, IdleType DEF SaveProfile, Return, Goto
  <2>7. \/ /\ f.at = "idle" /\ f.copy = NoSchool /\ f.next = NoSchool /\ f.old = {}
           /\ frame[h].old = {}
        \/ /\ f.at = "update.delete" /\ f.copy = frame[h].copy /\ f.next = frame[h].next
           /\ f.old = frame[h].old /\ frame[h].old # {}
    BY <1>0, <2>6, IdleFields DEF Frame
  <2>8. LogoInv'
    <3>1. \A g \in Handlers : frame'[g] = IF g = h THEN f ELSE frame[g]
      BY <2>6, FramesAfter DEF IInv
    <3>0. named' = named /\ files' = files /\ SentLogo(f)'
      BY <2>1, <2>7, SendsNoLogo DEF Media, CreateSteps, UpdateSteps
    <3>a. (\A g \in Handlers : SentLogo(frame[g]))'
      BY <3>0, <3>1 DEF IInv, LogoInv, SentLogo, FileBehind
    <3>2. CASE school # frame[h].copy
      BY <2>1, <3>2, <3>a DEF LogoInv
    <3>3. CASE school = frame[h].copy /\ frame[h].new = NoFile
      <4>1. LogoOf(h) = frame[h].next.logo /\ frame[h].old = {}
        BY <1>0, <2>1, <3>3, SavedLogo DEF Sound, HoldsLogo
      <4>2. LogoOf(h) = school.logo \/ FileBehind(LogoOf(h)) \subseteq named
        BY <2>1, <3>3, <4>1 DEF IInv, LogoInv, SentLogo, UpdateSteps
      <4>3. ASSUME NEW g \in Handlers, frame'[g].at \in {"update.delete", "logo.delete"}
            PROVE  frame'[g] = frame[g]
        BY <2>7, <3>1, <4>1, <4>3
      <4> QED
        BY <2>1, <2>3, <3>0, <3>3, <3>a, <4>2, <4>3 DEF IInv, LogoInv, FileBehind
    <3>4. CASE school = frame[h].copy /\ frame[h].new # NoFile
      <4>1. LogoOf(h) \notin named => LogoOf(h) \in files /\ ~InLogo(LogoOf(h))
        BY <2>1, <3>4, SavedLogo
      <4>2. ASSUME NEW g \in Handlers, frame'[g].at \in {"update.delete", "logo.delete"}
            PROVE  LogoOf(h) \in frame'[g].old => LogoOf(h) \in named
        <5>1. CASE g = h
          <6>1. frame'[g].old = frame[h].old
            BY <2>7, <3>1, <4>2, <5>1
          <6> QED
            BY <2>1, <4>1, <6>1 DEF InLogo, LogoFilesOf, LogoSteps
        <5>2. CASE g # h
          BY <3>1, <4>1, <4>2, <5>2 DEF InLogo, LogoFilesOf, LogoSteps
        <5> QED
          BY <5>1, <5>2
      <4> QED
        BY <2>3, <3>0, <3>a, <4>1, <4>2 DEF LogoInv, FileBehind
    <3> QED
      BY <3>2, <3>3, <3>4
  <2> QED
    BY <2>1, <2>3, <2>4, <2>5, <2>6, <2>7, <2>8, SavedLogo, LogoWritten DEF PriceRows
<1>7. CASE DeletePreviousLogo(h)
  BY <1>7, Cleans DEF DeletePreviousLogo, At
<1>8. CASE BeginDeleteLogo(h)
  <2> DEFINE next == [school EXCEPT !.logo = NoFile]
             old == FileBehind(school.logo)
             f == [Idle EXCEPT !.at = "logo.save", !.copy = school, !.next = next, !.old = old]
  <2>1. next \in SchoolRow /\ WithReason(next) /\ old \in SUBSET Files
    BY <1>0, RowRules, DecisionRules DEF FileBehind
  <2>2. next.status = school.status /\ next.logo = NoFile
    BY <1>0 DEF SchoolRow
  <2> HIDE DEF next, old
  <2>3. f \in Frame
    BY <1>0, <2>1, IdleType DEF Frame, Steps
  <2>4. f.at = "logo.save" /\ f.copy = school /\ f.next = next /\ f.old = old /\ f.new = NoFile
    BY IdleType, IdleFields DEF Frame
  <2>5. Become(h, f)
    BY <1>8 DEF BeginDeleteLogo, Holding, next, old
  <2> HIDE DEF f
  <2>6. HoldsStatus(f)
    BY <2>2, <2>4 DEF HoldsStatus, CreateSteps, UpdateSteps, ActorOf
  <2>7. RowTypes' /\ CounterTypes' /\ UNCHANGED <<school, stale, price, asked, Media>>
    BY <1>0, <1>8 DEF BeginDeleteLogo, Begin, SchoolRows, OfferRows, PriceRows, Media,
       RowTypes, CounterTypes
  <2>a. PICK g \in Frame : g = f
    BY <2>3
  <2>8. SentLogo(g)'
    BY <2>4, <2>a, SendsNoLogo DEF CreateSteps, UpdateSteps
  <2> QED
    BY <2>1, <2>2, <2>a, <2>4, <2>5, <2>6, <2>7, <2>8, HoldsLogoOf DEF CreateSteps, old, Media
<1>9. CASE SaveWithoutLogo(h)
  <2> DEFINE f == [frame[h] EXCEPT !.at = "logo.delete"]
  <2>1. /\ frame[h].at = "logo.save" /\ Become(h, f) /\ school' = frame[h].next
        /\ stale' = IF school = frame[h].copy THEN stale ELSE stale \cup {"school"}
        /\ UNCHANGED <<plan, OfferRows, PriceRows, Media, counters>>
    BY <1>9 DEF SaveWithoutLogo, At, Goto, SaveSchoolRow
  <2>2. /\ f \in Frame /\ f.at = "logo.delete" /\ f.old = frame[h].old
        /\ f.copy = frame[h].copy /\ f.next = frame[h].next
    BY <1>0 DEF Frame, Steps
  <2>3. school' \in SchoolRow /\ WithReason(school') /\ school'.logo = NoFile
    BY <1>0, <2>1 DEF Frame, Sound, HoldsLogo
  <2>4. RowTypes'
    BY <1>0, <2>1, <2>3 DEF RowTypes, OfferRows, PriceRows, Media, Copied
  <2>5. LogoInv'
    <3>1. TypeOK'
      <4>1. CounterTypes' /\ FrameTypes'
        BY <1>0, <2>1, <2>2, BecomeType DEF CounterTypes, counters, IInv, TypeOK, FrameTypes
      <4> QED
        BY <2>4, <4>1 DEF TypeOK, RowTypes, CounterTypes, FrameTypes
    <3>2. \A g \in Handlers : frame'[g] = IF g = h THEN f ELSE frame[g]
      BY <2>1, <2>2, FramesAfter DEF IInv
    <3>3. named' = named
      BY <2>1 DEF Media
    <3>4. (\A g \in Handlers : SentLogo(frame[g]))'
      BY <2>2, <3>2, <3>3 DEF CreateSteps, UpdateSteps, IInv, LogoInv, SentLogo, FileBehind
    <3>5. FileBehind(school'.logo) = {}
      BY <2>3, NoFiles DEF FileBehind
    <3> QED
      BY <3>4, <3>5 DEF LogoInv, FileBehind
  <2> QED
    BY <2>1, <2>2, <2>3, <2>4, <2>5, LogoWritten DEF PriceRows
<1>10. CASE DeleteLogoFile(h)
  BY <1>10, Cleans DEF DeleteLogoFile, At
<1> QED
  BY <1>1, <1>2, <1>3, <1>4, <1>5, <1>6, <1>7, <1>8, <1>9, <1>10 DEF ProfileStep

-----------------------------------------------------------------------------
(* IInv is inductive.                                                      *)

\* IInv holds at the start.
LEMMA InitIInv == Init => IInv
<1> SUFFICES ASSUME Init PROVE IInv
  OBVIOUS
<1>1. TypeOK
  BY InitType
<1>2. \A h \in Handlers : frame[h] = Idle
  BY DEF Init
<1>3. PICK start \in Starts :
        LET exists == start # "NONE" IN
        /\ school = [NoSchool EXCEPT !.status = start, !.described = exists]
        /\ price = IF exists THEN [id |-> 1, free |-> TRUE, of |-> ZeroTuition]
                             ELSE NoPrice
        /\ gallery = IF exists THEN {[file |-> 1, kind |-> "PHOTO"]} ELSE {}
        /\ uploaded = IF exists THEN 1 ELSE 0
        /\ files = 1..uploaded
        /\ asked = IF exists THEN {[fees |-> "free", of |-> ZeroTuition]} ELSE {}
  BY DEF Init
<1>4. WithReason(school) /\ school.logo = NoFile
  BY <1>3, StartsAssumption DEF WithReason, NoSchool
<1>5. \A h \in Handlers : Sound(frame[h])
  BY <1>2, IdleSound
<1>6. PriceInv
  <2>1. Zeroed(ZeroTuition) = ZeroTuition
    BY DEF Zeroed, ZeroTuition
  <2>2. /\ price.id # 0 => SentAs(price.free, price.of)
        /\ price.id = 0 => ~price.free
    <3>1. CASE price.id = 0
      <4>1. price = NoPrice
        BY <1>3, <3>1
      <4> QED
        BY <3>1, <4>1 DEF NoPrice
    <3>2. CASE price.id # 0
      <4>1. /\ price.free = TRUE /\ price.of = ZeroTuition
            /\ asked = {[fees |-> "free", of |-> ZeroTuition]}
        BY <1>3, <3>2 DEF NoPrice
      <4>2. [fees |-> "free", of |-> ZeroTuition].fees = "free"
            /\ [fees |-> "free", of |-> ZeroTuition].of = ZeroTuition
        OBVIOUS
      <4>3. SentAs(TRUE, ZeroTuition)
        BY <2>1, <4>1, <4>2 DEF SentAs
      <4> QED
        BY <3>2, <4>1, <4>3
    <3> QED
      BY <3>1, <3>2
  <2> QED
    BY <1>2, <2>2, IdleFields DEF PriceInv, HoldsPrice, PriceSteps, At
<1>7. MediaInv
  <2>1. FilesOf(gallery) \subseteq 1..uploaded
    BY <1>3 DEF FilesOf
  <2>2. \A h \in Handlers : /\ LogoFilesOf(frame[h]) \cap Files = {}
                            /\ GalleryFilesOf(frame[h]) = {}
                            /\ Pending(frame[h]) = {} /\ Unshown(frame[h])
    BY <1>2, IdleFields, NoFiles DEF LogoFilesOf, GalleryFilesOf, Pending, PendingSteps, Unshown,
       NoSchool
  <2>3. \A x \in Files : ~InLogo(x)
    BY <1>4, <2>2, NoFiles DEF InLogo
  <2>4. \A x : InGallery(x) => x \in FilesOf(gallery)
    BY <2>2 DEF InGallery
  <2>5. uploaded \in Int
    BY <1>3
  <2> QED
    <3>1. files = 1..uploaded
      BY <1>3
    <3>2. GalleryFilesExist /\ Numbered
      BY <2>1, <2>3, <2>4, <2>5, <3>1 DEF GalleryFilesExist, Numbered
    <3>3. Apart
      BY <2>2, <2>3 DEF Apart
    <3> QED
      BY <2>2, <3>2, <3>3 DEF MediaInv
<1>8. LogoInv
  BY <1>2, <1>4, IdleFields, NoFiles DEF LogoInv, SentLogo, FileBehind, CreateSteps, UpdateSteps
<1> QED
  BY <1>1, <1>4, <1>5, <1>6, <1>7, <1>8 DEF IInv

\* Every step keeps it.
LEMMA NextIInv == IInv /\ [Next]_vars => IInv'
<1> SUFFICES ASSUME IInv, [Next]_vars PROVE IInv'
  OBVIOUS
<1>0. RowTypes /\ CounterTypes
  BY TypeParts DEF IInv
<1>1. CASE \E h \in Handlers : Step(h)
  BY <1>1, OfferIInv, GalleryIInv, ProfileIInv, StatusIInv DEF Step
<1>2. CASE \E h \in Handlers : Refuse(h) \/ Fault(h)
  <2>1. PICK h \in Handlers : Refuse(h) \/ Fault(h)
    BY <1>2
  <2>2. /\ Return(h) /\ RowTypes' /\ CounterTypes'
        /\ UNCHANGED <<school, stale, price, asked, Media>>
    BY <1>0, <2>1 DEF Refuse, Fault, counters, SchoolRows, OfferRows, PriceRows, Media,
       RowTypes, CounterTypes
  <2> QED
    BY <2>2, Returns
<1>3. CASE PlanBecomesDue
  <2>1. RowTypes' /\ CounterTypes' /\ UNCHANGED <<school, stale, frame, price, asked, Media>>
    BY <1>0, <1>3 DEF PlanBecomesDue, Plan, counters, OfferRows, PriceRows, Media,
       RowTypes, CounterTypes
  <2> QED
    BY <2>1, Unmoved
<1>4. CASE UNCHANGED vars
  <2>1. RowTypes' /\ CounterTypes' /\ UNCHANGED <<school, stale, frame, price, asked, Media>>
    BY <1>0, <1>4 DEF vars, Media, RowTypes, CounterTypes
  <2> QED
    BY <2>1, Unmoved
<1> QED
  BY <1>1, <1>2, <1>3, <1>4 DEF Next, Finished

\* So it always holds.
LEMMA Inductive == Spec => []IInv
BY InitIInv, NextIInv, PTL DEF Spec

-----------------------------------------------------------------------------
(* What follows from it.                                                   *)

\* The rows and every copy of them always have their types.
THEOREM TypeCorrect == Spec => []TypeOK
<1>1. IInv => TypeOK
  BY DEF IInv
<1> QED
  BY <1>1, Inductive, PTL

\* Every photo and video of the gallery is always in the storage, unless its
\* URL was sent for a logo.
THEOREM GalleryFilesAreStored == Spec => []GalleryFilesExist
<1>1. IInv => GalleryFilesExist
  BY DEF IInv, MediaInv
<1> QED
  BY <1>1, Inductive, PTL

\* So is the logo's file that was uploaded as one, until a row is saved from a
\* copy that is out of date.
THEOREM LogoIsStored == Spec => []LogoExistsUnlessStale
<1>1. IInv => LogoExistsUnlessStale
  BY DEF IInv, LogoInv, LogoExistsUnlessStale
<1> QED
  BY <1>1, Inductive, PTL

\* A rejected school always has the reason and the review in its row, whichever
\* updates of the row are lost.
THEOREM RejectionsAreExplained == Spec => []RejectionHasReason
<1>1. IInv => RejectionHasReason
  BY DEF IInv, WithReason, RejectionHasReason
<1> QED
  BY <1>1, Inductive, PTL

\* The prices are always one list the school has sent, with zeros if it said
\* once that it has no fees and did not say otherwise with this list.
THEOREM PricesAreNeverMixed == Spec => []PricesAreOneList
<1>1. IInv => PricesAreOneList
  BY DEF IInv, PriceInv, SentAs, PricesAreOneList
<1> QED
  BY <1>1, Inductive, PTL

-----------------------------------------------------------------------------
(* Steps.                                                                  *)

\* The offered levels change with a sync only.
LEMMA LevelsStep == LevelsAreTheLastSync /\ IInv /\ [Next]_vars => LevelsAreTheLastSync'
<1> SUFFICES ASSUME LevelsAreTheLastSync, IInv, [Next]_vars PROVE LevelsAreTheLastSync'
  OBVIOUS
<1>1. ASSUME NEW h \in Handlers, CommitLevels(h) PROVE LevelsAreTheLastSync'
  <2>1. /\ levels' = (levels \ (frame[h].seen \ Listed(frame[h].want)))
                       \cup (Listed(frame[h].want) \ frame[h].seen)
        /\ synced' = Listed(frame[h].want)
        /\ stale' = IF levels = frame[h].seen THEN stale ELSE stale \cup {"levels"}
    BY <1>1 DEF CommitLevels
  <2> QED
    BY <2>1 DEF LevelsAreTheLastSync
<1>2. ASSUME NEW h \in Handlers, OfferStep(h), ~CommitLevels(h)
      PROVE  UNCHANGED <<levels, synced, stale>>
  BY <1>2 DEF OfferStep, SaveLocation, DeleteLocation, SyncServices, BeginSyncLevels,
     BeginDeleteLevels, ReadLevels, CreateClass, BeginUpdateClass, DeleteClass, SaveClass,
     BeginPrice, FindPrice, CreatePrice, LockPrice, CommitPrice, DeletePrice, OfferRows
<1>3. ASSUME NEW h \in Handlers, GalleryStepOf(h)
      PROVE  UNCHANGED <<levels, synced, stale>>
  BY <1>3 DEF GalleryStepOf, BeginGallery, FindGallery, UploadGallery, DeleteGalleryRows,
     CommitGallery, CleanGallery, BeginDeleteItem, DeleteItem, CleanItem, OfferRows
<1>4. ASSUME NEW h \in Handlers, ProfileStep(h)
      PROVE  UNCHANGED <<levels, synced>> /\ ("levels" \in stale => "levels" \in stale')
  BY <1>4 DEF ProfileStep, BeginCreate, UploadFirstLogo, CreateWithOwner, BeginUpdate,
     UploadLogo, SaveProfile, DeletePreviousLogo, BeginDeleteLogo, SaveWithoutLogo,
     DeleteLogoFile, OfferRows, SaveSchoolRow
<1>5. ASSUME NEW h \in Handlers, StatusStep(h)
      PROVE  UNCHANGED <<levels, synced>> /\ ("levels" \in stale => "levels" \in stale')
  BY <1>5 DEF StatusStep, BeginComplete, ReadForFreePlan, FindFreePlan, CreateFreePlan,
     ExpireFreeSchool, ReadLatest, FindForSubmission, CheckPlanForSubmission, SaveSubmitted,
     BeginApprove, SaveApproved, BeginReject, SaveRejected, BeginChangeStatus, ChangePlan,
     SaveAdminStatus, ConfirmPayment, FindPaidSchool, SavePaidSchool, ExpirePlan,
     FindDueSchool, SaveExpiredSchool, BeginNifSuspension, ClosePlanForNif, SaveSuspended,
     OfferRows, SaveSchoolRow
<1>6. ASSUME (\E h \in Handlers : Refuse(h) \/ Fault(h)) \/ PlanBecomesDue \/ UNCHANGED vars
      PROVE  UNCHANGED <<levels, synced, stale>>
  BY <1>6 DEF Refuse, Fault, PlanBecomesDue, vars, OfferRows
<1> QED
  BY <1>1, <1>2, <1>3, <1>4, <1>5, <1>6 DEF LevelsAreTheLastSync, Next, Step, Finished

\* The offered levels are those of the last sync, unless one was overtaken
\* between its read and its commit.
THEOREM LevelsFollowTheLastSync == Spec => []LevelsAreTheLastSync
<1>1. Init => LevelsAreTheLastSync
  BY DEF Init, LevelsAreTheLastSync
<1> QED
  BY <1>1, Inductive, LevelsStep, PTL DEF Spec

\* The steps that save the school's row; the others leave its status alone.
LEMMA SchoolRowSteps ==
    ASSUME IInv, [Next]_vars, school'.status # school.status
    PROVE  \E h \in Handlers :
              \/ SaveProfile(h) \/ SaveWithoutLogo(h) \/ CreateWithOwner(h)
              \/ ExpireFreeSchool(h) \/ SaveSubmitted(h) \/ SaveApproved(h) \/ SaveRejected(h)
              \/ SaveAdminStatus(h) \/ SavePaidSchool(h) \/ SaveExpiredSchool(h)
              \/ SaveSuspended(h)
<1>1. ASSUME NEW h \in Handlers, OfferStep(h) PROVE UNCHANGED school
  BY <1>1 DEF OfferStep, SaveLocation, DeleteLocation, SyncServices, BeginSyncLevels,
     BeginDeleteLevels, ReadLevels, CommitLevels, CreateClass, BeginUpdateClass, DeleteClass,
     SaveClass, BeginPrice, FindPrice, CreatePrice, LockPrice, CommitPrice, DeletePrice, SchoolRows
<1>2. ASSUME NEW h \in Handlers, GalleryStepOf(h) PROVE UNCHANGED school
  BY <1>2 DEF GalleryStepOf, BeginGallery, FindGallery, UploadGallery, DeleteGalleryRows,
     CommitGallery, CleanGallery, BeginDeleteItem, DeleteItem, CleanItem, SchoolRows
<1>3. ASSUME NEW h \in Handlers, ProfileStep(h),
             ~(SaveProfile(h) \/ SaveWithoutLogo(h) \/ CreateWithOwner(h))
      PROVE  UNCHANGED school
  BY <1>3 DEF ProfileStep, BeginCreate, UploadFirstLogo, BeginUpdate, UploadLogo,
     DeletePreviousLogo, BeginDeleteLogo, DeleteLogoFile, SchoolRows
<1>4. ASSUME NEW h \in Handlers, StatusStep(h),
             ~(\/ ExpireFreeSchool(h) \/ SaveSubmitted(h) \/ SaveApproved(h) \/ SaveRejected(h)
               \/ SaveAdminStatus(h) \/ SavePaidSchool(h) \/ SaveExpiredSchool(h)
               \/ SaveSuspended(h))
      PROVE  UNCHANGED school
  BY <1>4 DEF StatusStep, BeginComplete, ReadForFreePlan, FindFreePlan, CreateFreePlan,
     ReadLatest, FindForSubmission, CheckPlanForSubmission, BeginApprove, BeginReject,
     BeginChangeStatus, ChangePlan, ConfirmPayment, FindPaidSchool, ExpirePlan,
     FindDueSchool, BeginNifSuspension, ClosePlanForNif, SchoolRows
<1>5. ASSUME (\E h \in Handlers : Refuse(h) \/ Fault(h)) \/ PlanBecomesDue \/ UNCHANGED vars
      PROVE  UNCHANGED school
  BY <1>5 DEF Refuse, Fault, PlanBecomesDue, vars, SchoolRows
<1> QED
  BY <1>1, <1>2, <1>3, <1>4, <1>5 DEF Next, Step, Finished

\* The school's status changes only as the actor may change it.
LEMMA StatusStepIsLegal ==
    ASSUME IInv, [Next]_vars, school'.status # school.status, "school" \notin stale'
    PROVE  \E h \in Handlers :
              /\ frame'[h] # frame[h]
              /\ \/ At(h, "admin.save")
                 \/ /\ ActorOf(frame[h].at) # "none"
                    /\ <<school.status, school'.status>> \in LegalSteps[ActorOf(frame[h].at)]
<1>1. PICK h \in Handlers :
              \/ SaveProfile(h) \/ SaveWithoutLogo(h) \/ CreateWithOwner(h)
              \/ ExpireFreeSchool(h) \/ SaveSubmitted(h) \/ SaveApproved(h) \/ SaveRejected(h)
              \/ SaveAdminStatus(h) \/ SavePaidSchool(h) \/ SaveExpiredSchool(h)
              \/ SaveSuspended(h)
  BY SchoolRowSteps
<1>0. frame[h] \in Frame /\ Sound(frame[h]) /\ frame[h].next \in SchoolRow /\ FrameTypes
  BY Facts DEF Frame, IInv, TypeOK, FrameTypes
<1>2. frame[h].at \notin {"idle", "update.delete", "logo.delete", "complete.latest"}
  BY <1>1 DEF SaveProfile, SaveWithoutLogo, CreateWithOwner, ExpireFreeSchool, SaveSubmitted,
     SaveApproved, SaveRejected, SaveAdminStatus, SavePaidSchool, SaveExpiredSchool,
     SaveSuspended, At
<1>3. frame'[h].at \in {"idle", "update.delete", "logo.delete", "complete.latest"}
  BY <1>0, <1>1, IdleFields DEF SaveProfile, SaveWithoutLogo, CreateWithOwner, ExpireFreeSchool,
     SaveSubmitted, SaveApproved, SaveRejected, SaveAdminStatus, SavePaidSchool,
     SaveExpiredSchool, SaveSuspended, Return, Goto, Become, FrameTypes, Frame
<1>4. frame'[h] # frame[h]
  BY <1>2, <1>3
<1>5. CASE SaveProfile(h) \/ SaveWithoutLogo(h)
  <2>1. frame[h].at \in UpdateSteps \cup {"logo.save"} /\ school = frame[h].copy
    BY <1>5 DEF SaveProfile, SaveWithoutLogo, SaveSchoolRow, At, UpdateSteps
  <2>2. school'.status = frame[h].next.status
    BY <1>0, <1>5 DEF SaveProfile, SaveWithoutLogo, SaveSchoolRow, SchoolRow
  <2> QED
    BY <1>0, <2>1, <2>2 DEF Sound, HoldsStatus
<1>6. CASE CreateWithOwner(h)
  <2>1. frame[h].at = "create.save" /\ school.status = "NONE"
    BY <1>6 DEF CreateWithOwner, At
  <2>2. school'.status = "DRAFT"
    BY <1>0, <1>6, <2>1 DEF CreateWithOwner, Sound, HoldsStatus, CreateSteps, SchoolRow
  <2> QED
    BY <1>4, <2>1, <2>2 DEF ActorOf, LegalSteps
<1>7. CASE SaveAdminStatus(h)
  BY <1>4, <1>7 DEF SaveAdminStatus, At
<1>8. CASE \/ ExpireFreeSchool(h) \/ SaveSubmitted(h) \/ SaveApproved(h) \/ SaveRejected(h)
           \/ SavePaidSchool(h) \/ SaveExpiredSchool(h) \/ SaveSuspended(h)
  <2>1. /\ school = frame[h].copy /\ school' = frame[h].next
        /\ frame[h].at \in {"free.expire", "submit.save", "approve.save", "reject.save",
                            "pay.save", "job.save", "nif.save"}
    BY <1>8 DEF ExpireFreeSchool, SaveSubmitted, SaveApproved, SaveRejected, SavePaidSchool,
       SaveExpiredSchool, SaveSuspended, SaveSchoolRow, At
  <2>2. ActorOf(frame[h].at) \notin {"none", "create"}
    BY <2>1 DEF ActorOf
  <2> QED
    BY <1>0, <1>4, <2>1, <2>2 DEF Sound, HoldsStatus
<1> QED
  BY <1>1, <1>5, <1>6, <1>7, <1>8

\* ... at every step.
THEOREM StatusStepsLegal == Spec => StatusStepsAreLegal
<1>1. IInv /\ [Next]_vars =>
        [school'.status # school.status =>
           \/ "school" \in stale'
           \/ \E h \in Handlers :
                 /\ frame'[h] # frame[h]
                 /\ \/ At(h, "admin.save")
                    \/ /\ ActorOf(frame[h].at) # "none"
                       /\ <<school.status, school'.status>> \in LegalSteps[ActorOf(frame[h].at)]]_vars
  BY StatusStepIsLegal
<1> QED
  BY <1>1, Inductive, PTL DEF Spec, StatusStepsAreLegal

-----------------------------------------------------------------------------
(* The refinement.                                                         *)

\* A step leaves the files alone, uploads one, or deletes some the gallery
\* does not show; it names a file only if it leaves them alone.
LEMMA FileSteps ==
    ASSUME IInv, [Next]_vars
    PROVE  \/ files' = files
           \/ /\ UNCHANGED <<gallery, named>>
              /\ \E f \in Files : f \notin files /\ files' = files \cup {f}
           \/ /\ UNCHANGED <<gallery, named>>
              /\ \E fs \in SUBSET Files :
                    fs \cap (FilesOf(gallery) \ named) = {} /\ files' = files \ fs
<1>1. ASSUME NEW h \in Handlers,
             UploadGallery(h) \/ UploadFirstLogo(h) \/ UploadLogo(h)
      PROVE  /\ UNCHANGED <<gallery, named>>
             /\ \E f \in Files : f \notin files /\ files' = files \cup {f}
  <2>1. /\ uploaded < MaxFiles /\ uploaded' = uploaded + 1
        /\ files' = files \cup {uploaded'} /\ gallery' = gallery /\ named' = named
    BY <1>1 DEF UploadGallery, UploadFirstLogo, UploadLogo, Upload
  <2>2. uploaded \in Nat /\ files \subseteq 1..uploaded
    BY BoundsAssumption DEF IInv, TypeOK, MediaInv, Numbered
  <2>3. uploaded' \in Files /\ uploaded' \notin files
    BY <2>1, <2>2, BoundsAssumption DEF Files
  <2> QED
    BY <2>1, <2>3
<1>2. ASSUME NEW h \in Handlers,
             CleanGallery(h) \/ CleanItem(h) \/ DeletePreviousLogo(h) \/ DeleteLogoFile(h)
      PROVE  /\ UNCHANGED <<gallery, named>>
             /\ \E fs \in SUBSET Files :
                   fs \cap (FilesOf(gallery) \ named) = {} /\ files' = files \ fs
  <2>1. PICK fs \in SUBSET frame[h].old :
          files' = files \ fs /\ gallery' = gallery /\ named' = named
    BY <1>2 DEF CleanGallery, CleanItem, DeletePreviousLogo, DeleteLogoFile, DeleteFiles
  <2>2. fs \in SUBSET Files
    BY Facts DEF Frame
  <2>3. frame[h].old \cap (FilesOf(gallery) \ named) = {}
    <3>1. CASE frame[h].at \in {"gallery.clean", "item.clean"}
      BY <3>1 DEF IInv, MediaInv, Unshown
    <3>2. CASE frame[h].at \in {"update.delete", "logo.delete"}
      <4>1. \A x \in frame[h].old : x \in Files /\ InLogo(x)
        BY <3>2, Facts DEF Frame, InLogo, LogoFilesOf, LogoSteps
      <4> QED
        BY <4>1 DEF IInv, MediaInv, Apart, InGallery
    <3> QED
      BY <1>2, <3>1, <3>2 DEF CleanGallery, CleanItem, DeletePreviousLogo, DeleteLogoFile, At
  <2> QED
    BY <2>1, <2>2, <2>3
<1>3. ASSUME NEW h \in Handlers, OfferStep(h) PROVE files' = files
  BY <1>3 DEF OfferStep, SaveLocation, DeleteLocation, SyncServices, BeginSyncLevels,
     BeginDeleteLevels, ReadLevels, CommitLevels, CreateClass, BeginUpdateClass, DeleteClass,
     SaveClass, BeginPrice, FindPrice, CreatePrice, LockPrice, CommitPrice, DeletePrice, Media
<1>4. ASSUME NEW h \in Handlers, GalleryStepOf(h),
             ~(UploadGallery(h) \/ CleanGallery(h) \/ CleanItem(h))
      PROVE  files' = files
  BY <1>4 DEF GalleryStepOf, BeginGallery, FindGallery, DeleteGalleryRows, CommitGallery,
     BeginDeleteItem, DeleteItem, Media
<1>5. ASSUME NEW h \in Handlers, ProfileStep(h),
             ~(\/ UploadFirstLogo(h) \/ UploadLogo(h) \/ DeletePreviousLogo(h)
               \/ DeleteLogoFile(h))
      PROVE  files' = files
  BY <1>5 DEF ProfileStep, BeginCreate, CreateWithOwner, BeginUpdate, SaveProfile,
     BeginDeleteLogo, SaveWithoutLogo, Name, Media
<1>6. ASSUME NEW h \in Handlers, StatusStep(h) PROVE files' = files
  BY <1>6 DEF StatusStep, BeginComplete, ReadForFreePlan, FindFreePlan, CreateFreePlan,
     ExpireFreeSchool, ReadLatest, FindForSubmission, CheckPlanForSubmission, SaveSubmitted,
     BeginApprove, SaveApproved, BeginReject, SaveRejected, BeginChangeStatus, ChangePlan,
     SaveAdminStatus, ConfirmPayment, FindPaidSchool, SavePaidSchool, ExpirePlan,
     FindDueSchool, SaveExpiredSchool, BeginNifSuspension, ClosePlanForNif, SaveSuspended, Media
<1>7. ASSUME (\E h \in Handlers : Refuse(h) \/ Fault(h)) \/ PlanBecomesDue \/ UNCHANGED vars
      PROVE  files' = files
  BY <1>7 DEF Refuse, Fault, PlanBecomesDue, vars, Media
<1> QED
  BY <1>1, <1>2, <1>3, <1>4, <1>5, <1>6, <1>7 DEF Next, Step, Finished

\* The requests on the gallery and the logo implement FileReferences, for the
\* files no URL of a logo ever named: each of their steps is one of its steps,
\* or changes nothing of it.
THEOREM FileReferencesImplemented == Spec => ImplementsFileReferences
<1>1. Init => Visible!Init
  <2> SUFFICES ASSUME Init PROVE Visible!Init
    OBVIOUS
  <2>1. IInv
    BY InitIInv
  <2> QED
    BY <2>1 DEF Visible!Init, IInv, TypeOK, MediaInv, GalleryFilesExist
<1>2. IInv /\ IInv' /\ [Next]_vars => [Visible!Next]_Visible!vars
  <2> SUFFICES ASSUME IInv, IInv', [Next]_vars PROVE [Visible!Next]_Visible!vars
    OBVIOUS
  <2>1. files' \subseteq Files /\ FilesOf(gallery') \ named' \subseteq files'
    BY DEF IInv, TypeOK, MediaInv, GalleryFilesExist
  <2>2. UNCHANGED <<gallery, named>> =>
          FilesOf(gallery') \ named' = FilesOf(gallery) \ named
    OBVIOUS
  <2>3. CASE files' = files
    <3>1. Visible!Refer(FilesOf(gallery') \ named')
      BY <2>1, <2>3 DEF Visible!Refer
    <3>2. FilesOf(gallery') \ named' \in SUBSET Files
      BY <2>1
    <3> QED
      BY <3>1, <3>2 DEF Visible!Next
  <2>4. CASE /\ UNCHANGED <<gallery, named>>
             /\ \E f \in Files : f \notin files /\ files' = files \cup {f}
    BY <2>2, <2>4 DEF Visible!Next, Visible!Upload
  <2>5. CASE /\ UNCHANGED <<gallery, named>>
             /\ \E fs \in SUBSET Files :
                   fs \cap (FilesOf(gallery) \ named) = {} /\ files' = files \ fs
    BY <2>2, <2>5 DEF Visible!Next, Visible!Delete
  <2> QED
    BY <2>3, <2>4, <2>5, FileSteps
<1> QED
  BY <1>1, <1>2, Inductive, PTL DEF Spec, ImplementsFileReferences, Visible!Spec
=============================================================================
