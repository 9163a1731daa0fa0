----------------------------- MODULE Marketplace -----------------------------
(***************************************************************************)
(* What the public sees of the schools: which are found, how they fit what *)
(* is asked, and the favourites and reviews the families leave.            *)
(*                                                                         *)
(* Left out: the free text of a search, the page of it that is shown, its  *)
(* facets, distances (no coordinates are sent), and the texts of a card.   *)
(***************************************************************************)
EXTENDS Requests, Integers, SequencesExt

CONSTANTS
    Schools,
    Offers,        \* what a school may have in its profile
    Authors,       \* users, and devices nobody logged in at
    Limit          \* cards a conversation shows: 5, or 10 of a wide search

ASSUME OffersAssumption ==
    \A o \in Offers : o.feesAreFree \in BOOLEAN /\ o.tuition \subseteq Nat

None == -1         \* null, of an amount

VARIABLES
    market,        \* the rows of each school that the search looks at
    favourites,    \* favorites: pairs of an author and a school
    reviews,       \* the review of each author of each school
    reviewIds,     \* ids given to reviews so far
    reviewAsked    \* history: the stars each author last gave, 0 for none

marketVars == <<market, favourites, reviews, reviewIds, reviewAsked>>

Stars == {1, 5}
NoReview == [id |-> 0, stars |-> 0]

MarketFrames ==
    [at : {"favourite.sub", "favourite.add", "review.find", "review.save", "review.delete"},
     author : Authors,
     school : Schools,
     stars : {0} \cup Stars,
     seen : [id : Nat, stars : {0} \cup Stars]]

MarketTypeOK ==
    /\ market \in [Schools -> [active : BOOLEAN, subscribed : BOOLEAN, offer : Offers]]
    /\ favourites \subseteq Authors \X Schools
    /\ reviews \in [Authors \X Schools -> [id : Nat, stars : {0} \cup Stars]]
    /\ reviewIds \in Nat
    /\ reviewAsked \in [Authors \X Schools -> {0} \cup Stars]

MarketInit ==
    /\ \E offer \in [Schools -> Offers] :
        market = [s \in Schools |-> [active |-> TRUE, subscribed |-> TRUE, offer |-> offer[s]]]
    /\ favourites = {}
    /\ reviews = [x \in Authors \X Schools |-> NoReview]
    /\ reviewIds = 0
    /\ reviewAsked = [x \in Authors \X Schools |-> 0]

-----------------------------------------------------------------------------
(* The search.                                                             *)

Visible(s) == market[s].active /\ market[s].subscribed

buildWhereAnyLevel(o, f) ==
    /\ f.province # "" => o.province = f.province
    /\ f.municipality # "" => o.municipality = f.municipality
    /\ f.classLabel # "" => f.classLabel \in o.classes
    /\ f.fullDay => o.fullDay
    /\ f.teachingType # "" => o.teachingType = f.teachingType
    /\ f.serviceIds \subseteq o.services

\* Nobody is SEMI_PRIVATE or INTERNATIONAL.
buildWhere(o, f) ==
    /\ f.province # "" => o.province = f.province
    /\ f.municipality # "" => o.municipality = f.municipality
    /\ f.classLabel # "" => f.classLabel \in o.classes
    /\ f.fullDay => o.fullDay
    /\ f.teachingType # "" => o.teachingType = f.teachingType
    /\ f.tuitionMax # None =>
        (f.tuitionMax = 0 /\ o.feesAreFree) \/ \E t \in o.tuition : t <= f.tuitionMax
    /\ f.serviceIds \subseteq o.services

findVisibleSchools(f) == {s \in Schools : Visible(s) /\ buildWhere(market[s].offer, f)}
findVisibleByIds(ids) == {s \in ids : Visible(s)}

\* The price on the card: free, or the lowest of the levels.
tuitionFrom(o) ==
    IF o.feesAreFree THEN 0 ELSE IF o.tuition = {} THEN None ELSE Min(o.tuition)

Ratings(s) == {a \in Authors : reviews[<<a, s>>].id # 0}
RatingSum(s) == SumFunctionOnSet([a \in Authors |-> reviews[<<a, s>>].stars], Ratings(s))

\* In tenths, rounded.
averageRating(s) ==
    IF Ratings(s) = {} THEN 0
    ELSE (20 * RatingSum(s) + Cardinality(Ratings(s))) \div (2 * Cardinality(Ratings(s)))

Points(condition, n) == IF condition THEN n ELSE 0

\* At most 100: 40 and all of these are 115, of which 8 need a distance.
computeCompatibility(s, f) ==
    LET o == market[s].offer
        price == tuitionFrom(o)
    IN  Min({100,
          40 + Points(f.province # "" /\ o.province = f.province, 12)
             + Points(f.municipality # "" /\ o.municipality = f.municipality, 8)
             + Points(f.tuitionMax # None /\ price # None /\ price <= f.tuitionMax, 15)
             + Points(f.serviceIds # {} /\ f.serviceIds \subseteq o.services, 12)
             + Points(f.fullDay /\ o.fullDay, 8)
             + Points(f.classLabel # "" /\ f.classLabel \in o.classes, 8)
             + Points(o.vacancies, 7)
             + Points(averageRating(s) >= 40, 5)})

\* Recommended: by compatibility, then by rating (no order is left between equals).
RanksBefore(s, t, f) ==
    \/ computeCompatibility(s, f) > computeCompatibility(t, f)
    \/ /\ computeCompatibility(s, f) = computeCompatibility(t, f)
       /\ averageRating(s) > averageRating(t)

\* The cards shown are first in the order: none that is left out ranks before one of them.
FirstCards(f) ==
    LET found == findVisibleSchools(f)
    IN  {ids \in SUBSET found :
            /\ Cardinality(ids) = Min({Limit, Cardinality(found)})
            /\ \A s \in ids, t \in found \ ids : ~RanksBefore(t, s, f)}

\* The favourites of an author are shown although the school is no longer visible.
MyFavourites(author) == {s \in Schools : <<author, s>> \in favourites}

-----------------------------------------------------------------------------

\* A school is suspended or comes back, its plan ends or begins, its profile changes.
MarketChanges(h) ==
    /\ Serve(h, "market")
    /\ \E s \in Schools :
        \/ market' = [market EXCEPT ![s].active = ~@]
        \/ market' = [market EXCEPT ![s].subscribed = ~@]
        \/ \E o \in Offers : market' = [market EXCEPT ![s].offer = o]
    /\ UNCHANGED <<favourites, reviews, reviewIds, reviewAsked, stale>>

Visiting(step, author, school) ==
    [at |-> step, author |-> author, school |-> school, stars |-> 0, seen |-> NoReview]

\* The school is read, then its subscription, then the favourite is created; one
\* that is there already (found, or a unique key that is taken) is the answer.
AddFavourite(h) ==
    /\ Begin(h, "favourite")
    /\ \E a \in Authors, s \in Schools :
        market[s].active /\ Become(h, Visiting("favourite.sub", a, s))
    /\ UNCHANGED <<marketVars, stale>>

CheckListing(h) ==
    /\ At(h, "favourite.sub")
    /\ IF market[frame[h].school].subscribed THEN Goto(h, "favourite.add") ELSE Return(h)
    /\ UNCHANGED <<marketVars, counters, stale>>

SaveFavourite(h) ==
    /\ At(h, "favourite.add")
    /\ favourites' = favourites \cup {<<frame[h].author, frame[h].school>>}
    /\ Return(h)
    /\ UNCHANGED <<market, reviews, reviewIds, reviewAsked, counters, stale>>

RemoveFavourite(h) ==
    /\ Serve(h, "favourite")
    /\ \E x \in favourites : favourites' = favourites \ {x}
    /\ UNCHANGED <<market, reviews, reviewIds, reviewAsked, stale>>

-----------------------------------------------------------------------------
(* A review: one for each author and school, saved by its id.              *)

BeginReview(h) ==
    /\ Begin(h, "review")
    /\ \E a \in Authors, s \in Schools, n \in Stars :
        Visible(s) /\ Become(h, [Visiting("review.find", a, s) EXCEPT !.stars = n])
    /\ UNCHANGED <<marketVars, stale>>

FindReview(h) ==
    /\ At(h, "review.find")
    /\ Become(h, [frame[h] EXCEPT !.at = "review.save",
                                  !.seen = reviews[<<frame[h].author, frame[h].school>>]])
    /\ UNCHANGED <<marketVars, counters, stale>>

\* The one it found is written although it was deleted: an upsert; but not next
\* to another one of the same author.
SaveReview(h) ==
    LET x == <<frame[h].author, frame[h].school>>
        seen == frame[h].seen
    IN  /\ At(h, "review.save")
        /\ reviews[x].id \in {0, seen.id}
        /\ reviewIds' = IF seen.id = 0 THEN reviewIds + 1 ELSE reviewIds
        /\ reviews' = [reviews EXCEPT ![x] =
               [id |-> IF seen.id = 0 THEN reviewIds' ELSE seen.id, stars |-> frame[h].stars]]
        /\ reviewAsked' = [reviewAsked EXCEPT ![x] =
               IF reviews[x].id = seen.id THEN frame[h].stars ELSE @]
        /\ Mark("reviews", reviews[x] = seen)
        /\ Return(h)
        /\ UNCHANGED <<market, favourites, counters>>

FindOwnReview(h) ==
    /\ Begin(h, "review")
    /\ \E a \in Authors, s \in Schools :
        /\ reviews[<<a, s>>].id # 0
        /\ Become(h, [Visiting("review.delete", a, s) EXCEPT !.seen = reviews[<<a, s>>]])
    /\ UNCHANGED <<marketVars, stale>>

DeleteReview(h) ==
    LET x == <<frame[h].author, frame[h].school>>
    IN  /\ At(h, "review.delete")
        /\ reviews[x].id = frame[h].seen.id
        /\ reviews' = [reviews EXCEPT ![x] = NoReview]
        /\ reviewAsked' = [reviewAsked EXCEPT ![x] = 0]
        /\ Return(h)
        /\ UNCHANGED <<market, favourites, reviewIds, counters, stale>>

\* Another one of the same author was there first; the row is gone.
ReviewRefused(h) ==
    LET x == <<frame[h].author, frame[h].school>>
    IN  /\ \/ At(h, "review.save") /\ reviews[x].id \notin {0, frame[h].seen.id}
           \/ At(h, "review.delete") /\ reviews[x].id # frame[h].seen.id
        /\ Return(h)
        /\ UNCHANGED <<marketVars, counters, stale>>

MarketStep(h) ==
    \/ MarketChanges(h) \/ AddFavourite(h) \/ CheckListing(h) \/ SaveFavourite(h)
    \/ RemoveFavourite(h) \/ BeginReview(h) \/ FindReview(h) \/ SaveReview(h)
    \/ FindOwnReview(h) \/ DeleteReview(h) \/ ReviewRefused(h)

-----------------------------------------------------------------------------
(***************************************************************************)
(* A review is the one its author last gave, and a deleted one is gone;    *)
(* unless it was saved from a copy that another request had changed.       *)
(***************************************************************************)
ReviewsAreAsLastAsked ==
    "reviews" \notin stale => \A x \in DOMAIN reviews : reviews[x].stars = reviewAsked[x]
=============================================================================
