---------------------------- MODULE SchoolPortal ----------------------------
(***************************************************************************)
(* All the requests on one school's profile together, what they promise    *)
(* however they overlap, and what they promise only while no save was made *)
(* from a copy that was out of date (history variable stale).              *)
(***************************************************************************)
EXTENDS SchoolProfileHandlers

\* An exception that the rows cause: a unique key that is taken, a row that is
\* gone, a storage that takes no more files.  A transaction is rolled back.
Refuse(h) ==
    /\ \/ At(h, "create.save") /\ school.status # "NONE"
       \/ At(h, "levels.commit")
          /\ (Listed(frame[h].want) \ frame[h].seen) \cap levels # {}
       \/ At(h, "price.create") /\ (price.id # 0 \/ priceIds = MaxPrices)
       \/ At(h, "price.lock") /\ price.id # frame[h].pid
       \/ At(h, "price.commit")
          /\ Listed(frame[h].want) \cap (Listed(price.of) \ frame[h].seen) # {}
       \/ At(h, "item.delete") /\ ~(frame[h].old \subseteq FilesOf(gallery))
       \/ /\ frame[h].at \in {"create.upload", "update.upload", "gallery.upload"}
          /\ uploaded = MaxFiles
    /\ Return(h)
    /\ UNCHANGED <<SchoolRows, OfferRows, PriceRows, Media, counters, stale>>

\* Any other exception, or the loss of the server: what was written stays.
Fault(h) ==
    /\ ~At(h, "idle")
    /\ faults < MaxFaults
    /\ faults' = faults + 1
    /\ Return(h)
    /\ UNCHANGED <<SchoolRows, OfferRows, PriceRows, Media, requests, agenda, stale>>

\* The bound of the instance is used up.
Finished ==
    /\ requests = MaxRequests
    /\ \A h \in Handlers : At(h, "idle")
    /\ UNCHANGED vars

Step(h) == OfferStep(h) \/ GalleryStepOf(h) \/ ProfileStep(h) \/ StatusStep(h)

Next ==
    \/ \E h \in Handlers : Step(h) \/ Refuse(h) \/ Fault(h)
    \/ PlanBecomesDue
    \/ Finished

Spec == Init /\ [][Next]_vars

-----------------------------------------------------------------------------
(***************************************************************************)
(* Every photo and video of the gallery is in the storage: however uploads, *)
(* replacements and deletions overlap, and whichever of them is cut off, a *)
(* file is deleted only when no row shows it, and a row comes after its    *)
(* file ("best-effort cleanup" in CreateOrUpdateSchoolGallery).            *)
(* The one way to lose a file the gallery shows is to send its URL for a   *)
(* logo: the URL is any string, and whoever deletes or replaces that logo  *)
(* deletes the file.                                                       *)
(***************************************************************************)
GalleryFilesExist == FilesOf(gallery) \ named \subseteq files

(***************************************************************************)
(* The requests on the gallery and the logo implement FileReferences, in   *)
(* which every change is one indivisible step, for the files of the        *)
(* gallery that no URL of a logo ever named.                               *)
(***************************************************************************)
Visible ==
    INSTANCE FileReferences
        WITH Files <- Files, stored <- files, referenced <- FilesOf(gallery) \ named
ImplementsFileReferences == Visible!Spec

(***************************************************************************)
(* A logo that was uploaded as one is there, as long as no school row was  *)
(* saved from a copy that was out of date.  (Without that condition a      *)
(* profile saved while the logo is deleted brings back the URL of the      *)
(* deleted file; a logo whose URL was sent goes when the file it names is  *)
(* replaced or deleted where it belongs.)                                  *)
(***************************************************************************)
LogoExistsUnlessStale ==
    "school" \notin stale => FileBehind(school.logo) \ named \subseteq files

(***************************************************************************)
(* A rejected school can read why, and that it was reviewed: the columns   *)
(* of a decision are saved together, so this survives every lost update of *)
(* the row.  (A suspended one cannot count on it: the NIF job suspends     *)
(* without a reason or a review in the row.)                               *)
(***************************************************************************)
RejectionHasReason ==
    school.status = "REJECTED" => school.reason /\ school.reviewed

(***************************************************************************)
(* The prices shown are one list the school has sent, never a mixture of   *)
(* two: the update of the price row comes first in its transaction and     *)
(* makes the others wait.  A list is shown with zeros when it was sent as  *)
(* free, or left feesAreFree unsaid and found a free one in its place, so  *)
(* a school "without fees" lists no fee and said once that it has none.    *)
(***************************************************************************)
PricesAreOneList ==
    price.id # 0 =>
        /\ \E sent \in asked :
              /\ sent.fees = "free" => price.free
              /\ sent.fees = "charged" => ~price.free
              /\ price.of = IF price.free THEN Zeroed(sent.of) ELSE sent.of
        /\ price.free => \E sent \in asked : sent.fees = "free"

(***************************************************************************)
(* The offered levels are exactly those the last sync that took effect     *)
(* asked for, unless one committed levels it had read before another sync  *)
(* changed them: then they can be the union of what two requests wanted.   *)
(***************************************************************************)
LevelsAreTheLastSync == "levels" \notin stale => levels = synced

(***************************************************************************)
(* A step of the status is one its actor may take from the status the      *)
(* school has, unless the row was saved from a copy that was out of date:  *)
(* an owner only submits, a reviewer decides on a submission, a payment    *)
(* never overrules a decision, time and the NIF job end a published school *)
(* only, and the admin alone sets any status.                              *)
(***************************************************************************)
LegalSteps ==
    [create  |-> {<<"NONE", "DRAFT">>},
     submit  |-> {"DRAFT", "REJECTED", "PENDING_PAYMENT"} \X {"PENDING_REVIEW"},
     review  |-> {"PENDING_REVIEW"} \X {"ACTIVE", "REJECTED"},
     pay     |-> {"DRAFT", "PENDING_PAYMENT", "EXPIRED"} \X {"ACTIVE"},
     expire  |-> {<<"ACTIVE", "EXPIRED">>},
     nif     |-> {<<"ACTIVE", "SUSPENDED">>}]

ActorOf(step) ==
    CASE step = "create.save" -> "create"
      [] step = "submit.save" -> "submit"
      [] step \in {"approve.save", "reject.save"} -> "review"
      [] step = "pay.save" -> "pay"
      [] step \in {"job.save", "free.expire"} -> "expire"
      [] step = "nif.save" -> "nif"
      [] OTHER -> "none"

StatusStepsAreLegal ==
    [][school'.status # school.status =>
           \/ "school" \in stale'
           \/ \E h \in Handlers :
                 /\ frame'[h] # frame[h]
                 /\ \/ At(h, "admin.save")
                    \/ /\ ActorOf(frame[h].at) # "none"
                       /\ <<school.status, school'.status>> \in LegalSteps[ActorOf(frame[h].at)]]_vars
=============================================================================
