------------------------- MODULE SchoolOfferHandlers -------------------------
(***************************************************************************)
(* What a school offers, and its gallery: location, services, education    *)
(* levels, classes, prices, photos and videos.                             *)
(*                                                                         *)
(* The database is PostgreSQL at READ COMMITTED: a statement sees what was *)
(* committed when it began, a transaction's writes are seen at its commit, *)
(* and an UPDATE of a row waits for the transaction that updated it.       *)
(***************************************************************************)
EXTENDS SchoolState

-----------------------------------------------------------------------------
(* Location and services: found or created by the school's id; a row that  *)
(* another request removed or created meanwhile makes the request throw.   *)

SaveLocation(h) ==
    /\ Begin(h, "location")
    /\ located' = TRUE
    /\ UNCHANGED <<SchoolRows, services, levels, class, synced, PriceRows, Media, frame, stale>>

DeleteLocation(h) ==
    /\ Begin(h, "deleteLocation")
    /\ located
    /\ located' = FALSE
    /\ UNCHANGED <<SchoolRows, services, levels, class, synced, PriceRows, Media, frame, stale>>

\* Also when the list that was sent is empty, and when the services are deleted.
SyncServices(h) ==
    /\ Begin(h, "services")
    /\ services' = TRUE
    /\ UNCHANGED <<SchoolRows, located, levels, class, synced, PriceRows, Media, frame, stale>>

-----------------------------------------------------------------------------
(* Education levels: a transaction that reads the rows, removes those not  *)
(* wanted and adds those missing.                                          *)

BeginSyncLevels(h) ==
    /\ Begin(h, "levels")
    /\ \E wanted \in SUBSET Levels :
        Become(h, [Idle EXCEPT !.at = "levels.read",
                               !.want = [l \in Levels |-> IF l \in wanted THEN "set" ELSE "none"]])
    /\ UNCHANGED <<SchoolRows, OfferRows, PriceRows, Media, stale>>

\* Deleting the levels is a sync with none, refused when there are none.
BeginDeleteLevels(h) ==
    /\ Begin(h, "deleteLevels")
    /\ levels # {}
    /\ Become(h, [Idle EXCEPT !.at = "levels.read"])
    /\ UNCHANGED <<SchoolRows, OfferRows, PriceRows, Media, stale>>

ReadLevels(h) ==
    /\ At(h, "levels.read")
    /\ Become(h, [frame[h] EXCEPT !.at = "levels.commit", !.seen = levels])
    /\ UNCHANGED <<SchoolRows, OfferRows, PriceRows, Media, counters, stale>>

CommitLevelsRemovingNone(h) ==
    LET added == Listed(frame[h].want) \ frame[h].seen
    IN  /\ At(h, "levels.commit")
        /\ added \cap levels = {}
        /\ levels' = levels \cup added
        /\ synced' = Listed(frame[h].want)
        /\ stale' = IF levels = frame[h].seen THEN stale ELSE stale \cup {"levels"}
        /\ Return(h)
        /\ UNCHANGED <<SchoolRows, located, services, class, PriceRows, Media, counters>>

\* The unique key (schoolId, level) refuses a row another sync has added.
CommitLevels(h) ==
    LET wanted == Listed(frame[h].want)
        removed == frame[h].seen \ wanted
        added == wanted \ frame[h].seen
    IN  /\ At(h, "levels.commit")
        /\ added \cap levels = {}
        /\ synced' = wanted
        /\ levels' = (levels \ removed) \cup added
        /\ stale' = IF levels = frame[h].seen THEN stale ELSE stale \cup {"levels"}
        /\ Return(h)
        /\ UNCHANGED <<SchoolRows, located, services, class, PriceRows, Media, counters>>

-----------------------------------------------------------------------------
(* Classes: an update writes the whole row that was read; a deletion sets  *)
(* isActive to false and keeps the row.                                    *)

\* A new class takes the place of one that was deleted.
CreateClass(h) ==
    /\ Begin(h, "class")
    /\ class # "ACTIVE"
    /\ class' = "ACTIVE"
    /\ UNCHANGED <<SchoolRows, located, services, levels, synced, PriceRows, Media, frame, stale>>

BeginUpdateClass(h) ==
    /\ Begin(h, "class")
    /\ class # "NONE"
    /\ Become(h, [Idle EXCEPT !.at = "class.save", !.class = class])
    /\ UNCHANGED <<SchoolRows, OfferRows, PriceRows, Media, stale>>

\* A class that is inactive is left as it is.
DeleteClass(h) ==
    /\ Begin(h, "deleteClass")
    /\ class = "ACTIVE"
    /\ class' = "INACTIVE"
    /\ UNCHANGED <<SchoolRows, located, services, levels, synced, PriceRows, Media, frame, stale>>

SaveClass(h) ==
    /\ At(h, "class.save")
    /\ class' = frame[h].class
    /\ Return(h)
    /\ UNCHANGED <<SchoolRows, located, services, levels, synced, PriceRows, Media, counters, stale>>

-----------------------------------------------------------------------------
(* Prices: one row of school_prices and the rows of its levels.  Every     *)
(* level of the list that was sent must be offered when the list comes in. *)

BeginPrice(h) ==
    /\ Begin(h, "price")
    /\ \E sent \in [fees : {"free", "charged", "unsaid"}, of : PriceLists] :
        /\ Listed(sent.of) \subseteq levels
        /\ Become(h, [Idle EXCEPT !.at = "price.find", !.want = sent.of, !.fees = sent.fees])
        /\ asked' = asked \cup {sent}
    /\ UNCHANGED <<SchoolRows, OfferRows, price, priceIds, Media, stale>>

\* Left unsaid, feesAreFree stays as it is in the row that was found; a new row
\* then has fees.  A list without fees is saved with zeros, whatever was sent.
WithoutFees(h) ==
    frame[h].fees = "free" \/ (frame[h].fees = "unsaid" /\ price.free)

FindPrice(h) ==
    /\ At(h, "price.find")
    /\ Become(h, [frame[h] EXCEPT
                      !.at = IF price.id = 0 THEN "price.create" ELSE "price.lock",
                      !.pid = price.id,
                      !.free = WithoutFees(h),
                      !.want = IF WithoutFees(h) THEN Zeroed(@) ELSE @])
    /\ UNCHANGED <<SchoolRows, OfferRows, PriceRows, Media, counters, stale>>

\* schoolId is unique: the row must still be missing.
CreatePrice(h) ==
    /\ At(h, "price.create")
    /\ price.id = 0
    /\ priceIds < MaxPrices
    /\ priceIds' = priceIds + 1
    /\ price' = [id |-> priceIds', free |-> frame[h].free, of |-> frame[h].want]
    /\ Return(h)
    /\ UNCHANGED <<SchoolRows, OfferRows, asked, Media, counters, stale>>

\* The transaction's update of the price row: the row is locked from here to
\* the commit, so nobody else is between his update of it and his commit.
LockPriceShared(h) ==
    /\ At(h, "price.lock")
    /\ price.id = frame[h].pid
    /\ Become(h, [frame[h] EXCEPT !.at = "price.commit", !.seen = Listed(price.of)])
    /\ UNCHANGED <<SchoolRows, OfferRows, PriceRows, Media, counters, stale>>

PriceUnlocked == \A g \in Handlers : ~At(g, "price.commit")

LockPrice(h) ==
    /\ At(h, "price.lock")
    /\ price.id = frame[h].pid
    /\ PriceUnlocked
    /\ Become(h, [frame[h] EXCEPT !.at = "price.commit", !.seen = Listed(price.of)])
    /\ UNCHANGED <<SchoolRows, OfferRows, PriceRows, Media, counters, stale>>

\* The level rows that were there are deleted, those of the list are created.
CommitPrice(h) ==
    /\ At(h, "price.commit")
    /\ Listed(frame[h].want) \cap (Listed(price.of) \ frame[h].seen) = {}
    /\ price' =
        [price EXCEPT
            !.free = frame[h].free,
            !.of = [l \in Levels |->
                       IF l \in Listed(frame[h].want) \cup frame[h].seen
                       THEN frame[h].want[l] ELSE price.of[l]]]
    /\ Return(h)
    /\ UNCHANGED <<SchoolRows, OfferRows, priceIds, asked, Media, counters, stale>>

\* The price row and, by cascade, its level rows.
DeletePrice(h) ==
    /\ Begin(h, "deletePrice")
    /\ price.id # 0
    /\ PriceUnlocked
    /\ price' = NoPrice
    /\ UNCHANGED <<SchoolRows, OfferRows, priceIds, asked, Media, frame, stale>>

-----------------------------------------------------------------------------
(* Gallery: new files are uploaded, the rows replaced in one transaction,  *)
(* and the files of the rows that were there before are deleted.           *)

\* With or without an id: the rows that are there when the request comes in
\* are the ones whose files it deletes.
BeginGallery(h) ==
    /\ Begin(h, "gallery")
    /\ \E kind \in {"PHOTO", "VIDEO"} :
        Become(h, [Idle EXCEPT !.at = "gallery.find", !.kind = kind])
    /\ UNCHANGED <<SchoolRows, OfferRows, PriceRows, Media, stale>>

FindGalleryWithoutFiles(h) ==
    /\ At(h, "gallery.find")
    /\ Become(h, [frame[h] EXCEPT !.at = "gallery.delete", !.old = FilesOf(gallery)])
    /\ UNCHANGED <<SchoolRows, OfferRows, PriceRows, Media, counters, stale>>

FindGallery(h) ==
    /\ At(h, "gallery.find")
    /\ Become(h, [frame[h] EXCEPT !.at = "gallery.upload", !.old = FilesOf(gallery)])
    /\ UNCHANGED <<SchoolRows, OfferRows, PriceRows, Media, counters, stale>>

UploadGallery(h) ==
    /\ At(h, "gallery.upload")
    /\ Upload(h, "gallery.delete")
    /\ UNCHANGED <<SchoolRows, OfferRows, PriceRows, counters, stale>>

\* replaceAll: deleteMany reaches the rows committed by now, not those another
\* transaction has yet to commit.
DeleteGalleryRows(h) ==
    /\ At(h, "gallery.delete")
    /\ Become(h, [frame[h] EXCEPT !.at = "gallery.commit", !.gone = FilesOf(gallery)])
    /\ UNCHANGED <<SchoolRows, OfferRows, PriceRows, Media, counters, stale>>

CommitGalleryKeepingRows(h) ==
    /\ At(h, "gallery.commit")
    /\ gallery' = gallery \cup {[file |-> frame[h].new, kind |-> frame[h].kind]}
    /\ Goto(h, "gallery.clean")
    /\ UNCHANGED <<SchoolRows, OfferRows, PriceRows, files, uploaded, named, counters, stale>>

CommitGallery(h) ==
    /\ At(h, "gallery.commit")
    /\ gallery' = {item \in gallery : item.file \notin frame[h].gone}
                  \cup {[file |-> frame[h].new, kind |-> frame[h].kind]}
    /\ Goto(h, "gallery.clean")
    /\ UNCHANGED <<SchoolRows, OfferRows, PriceRows, files, uploaded, named, counters, stale>>

CleanGallery(h) ==
    /\ At(h, "gallery.clean")
    /\ DeleteFiles(frame[h].old)
    /\ Return(h)
    /\ UNCHANGED <<SchoolRows, OfferRows, PriceRows, counters, stale>>

BeginDeleteItem(h) ==
    /\ Begin(h, "deleteItem")
    /\ \E item \in gallery : Become(h, [Idle EXCEPT !.at = "item.delete", !.old = {item.file}])
    /\ UNCHANGED <<SchoolRows, OfferRows, PriceRows, Media, stale>>

DeleteItemFileOnly(h) ==
    /\ At(h, "item.delete")
    /\ frame[h].old \subseteq FilesOf(gallery)
    /\ Goto(h, "item.clean")
    /\ UNCHANGED <<SchoolRows, OfferRows, PriceRows, Media, counters, stale>>

\* deleteById: one transaction, refused when the row is gone.
DeleteItem(h) ==
    /\ At(h, "item.delete")
    /\ frame[h].old \subseteq FilesOf(gallery)
    /\ gallery' = {item \in gallery : item.file \notin frame[h].old}
    /\ Goto(h, "item.clean")
    /\ UNCHANGED <<SchoolRows, OfferRows, PriceRows, files, uploaded, named, counters, stale>>

CleanItem(h) ==
    /\ At(h, "item.clean")
    /\ DeleteFiles(frame[h].old)
    /\ Return(h)
    /\ UNCHANGED <<SchoolRows, OfferRows, PriceRows, counters, stale>>

OfferStep(h) ==
    \/ SaveLocation(h) \/ DeleteLocation(h) \/ SyncServices(h)
    \/ BeginSyncLevels(h) \/ BeginDeleteLevels(h) \/ ReadLevels(h) \/ CommitLevels(h)
    \/ CreateClass(h) \/ BeginUpdateClass(h) \/ DeleteClass(h) \/ SaveClass(h)
    \/ BeginPrice(h) \/ FindPrice(h) \/ CreatePrice(h) \/ LockPrice(h)
    \/ CommitPrice(h) \/ DeletePrice(h)

GalleryStepOf(h) ==
    \/ BeginGallery(h) \/ FindGallery(h) \/ UploadGallery(h) \/ DeleteGalleryRows(h)
    \/ CommitGallery(h) \/ CleanGallery(h)
    \/ BeginDeleteItem(h) \/ DeleteItem(h) \/ CleanItem(h)
=============================================================================
