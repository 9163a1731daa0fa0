-------------------------------- MODULE Lists --------------------------------
(***************************************************************************)
(* A long list read page by page (skip and take) while others write to the *)
(* table.  Each list of the platform is the rows that pass its filter, in  *)
(* its order; a client asks for page after page until one is short.        *)
(*                                                                         *)
(* A row is what the filters and the orders look at.  Left out: the search *)
(* text, the columns shown, the totals, and two rows created in the same   *)
(* millisecond, whose order the queries leave open.                        *)
(***************************************************************************)
EXTENDS Requests, Sequences

CONSTANTS PageSize, MaxRows      \* normalizePage caps a page at 50; a bound

ASSUME ListsAssumption == PageSize \in Nat \ {0} /\ MaxRows \in Nat /\ MaxRows >= 3

VARIABLES
    list,          \* the list that is read in this behaviour, and its filter
    rows,          \* the table, in the order of creation
    clock,         \* the last value of an order column
    shifted        \* history: the readers during whose reading a row left or moved

listVars == <<list, rows, clock, shifted>>

ListName ==
    {"applications", "users", "payments", "subscriptions", "schools", "activity", "reviews",
     "transactions", "waitlist", "beta", "schoolVisits", "myVisits", "sessions"}
Filter == {"all", "open"}
Row == [there : BOOLEAN,     \* not deleted
        open : BOOLEAN,      \* its status is the one that is filtered for
        due : BOOLEAN,       \* its end date is past
        at : Nat]            \* the date, the submission (0: none) or the last update
NoList == [name |-> "applications", filter |-> "all"]

There == {i \in DOMAIN rows : rows[i].there}
Passing == IF list.filter = "open" THEN {i \in There : rows[i].open} ELSE There

\* A list is the order its rows are shown in: the pairs whose first row is not
\* after the second one.
NewestFirst(ids) == {p \in ids \X ids : p[1] >= p[2]}

\* One definition for each list, as its query selects and orders.
ListApplications == NewestFirst(Passing)
ViewUsers == NewestFirst(Passing)
ViewPayments == NewestFirst(Passing)
ListAdminActivity == NewestFirst(There)
ListWalletTransactions == NewestFirst(There)
ListWaitlist == NewestFirst(Passing)
ListRequests == NewestFirst(Passing)

\* Only what is published.
ListSchoolReviews == NewestFirst({i \in There : rows[i].open})

\* An ACTIVE row whose end is past counts as EXPIRED before the job gets to it.
ViewSubscriptions ==
    NewestFirst(IF list.filter = "open" THEN {i \in Passing : ~rows[i].due} ELSE Passing)

\* The last submitted first, those never submitted before all (NULLS FIRST).
ViewSchools ==
    {p \in Passing \X Passing :
        LET one == rows[p[1]].at
            other == rows[p[2]].at
        IN  \/ one = 0 /\ other # 0
            \/ other # 0 /\ one > other
            \/ one = other /\ p[1] >= p[2]}

\* The next visits first, or the last ones.
ListSchoolConciergeVisits ==
    {p \in Passing \X Passing :
        \/ rows[p[1]].at < rows[p[2]].at
        \/ rows[p[1]].at = rows[p[2]].at /\ p[1] >= p[2]}
ListMyConciergeVisits ==
    {p \in There \X There :
        \/ rows[p[1]].at > rows[p[2]].at
        \/ rows[p[1]].at = rows[p[2]].at /\ p[1] >= p[2]}

\* The conversation that was last updated first.
ListSessions == {p \in There \X There : rows[p[1]].at >= rows[p[2]].at}

Shown ==
    CASE list.name = "applications" -> ListApplications
      [] list.name = "users" -> ViewUsers
      [] list.name = "payments" -> ViewPayments
      [] list.name = "subscriptions" -> ViewSubscriptions
      [] list.name = "schools" -> ViewSchools
      [] list.name = "activity" -> ListAdminActivity
      [] list.name = "reviews" -> ListSchoolReviews
      [] list.name = "transactions" -> ListWalletTransactions
      [] list.name = "waitlist" -> ListWaitlist
      [] list.name = "beta" -> ListRequests
      [] list.name = "schoolVisits" -> ListSchoolConciergeVisits
      [] list.name = "myVisits" -> ListMyConciergeVisits
      [] list.name = "sessions" -> ListSessions

ShownRows == {i \in DOMAIN rows : <<i, i>> \in Shown}
Place(i) == Cardinality({j \in ShownRows : <<j, i>> \in Shown})

-----------------------------------------------------------------------------

ListFrames ==
    [at : {"list.page", "list.done"},
     page : Nat,
     seen : SUBSET (1..MaxRows),     \* the rows the pages showed so far
     had  : SUBSET (1..MaxRows)]     \* history: the rows of the list when the reading began

ListTypeOK ==
    /\ list \in [name : ListName, filter : Filter]
    /\ rows \in Seq(Row) /\ Len(rows) <= MaxRows
    /\ clock \in Nat
    /\ shifted \in SUBSET Handlers

NewRow(date) == [there |-> TRUE, open |-> TRUE, due |-> FALSE, at |-> date]
Dated == {"schoolVisits", "myVisits"}

\* What a new row has in the order column.
FirstDates == CASE list.name = "sessions" -> {clock + 1}
                [] list.name \in Dated -> 0..1
                [] OTHER -> {0}

ListInit ==
    /\ list \in IF "list" \in agenda THEN [name : ListName, filter : Filter] ELSE {NoList}
    /\ rows = IF "list" \in agenda
              THEN [i \in 1..3 |-> NewRow(IF list.name = "sessions" THEN i ELSE 0)]
              ELSE <<>>
    /\ clock = 3
    /\ shifted = {}

\* A row that was shown is no longer there or no longer in its place among the others.
Shifts == ~(Shown \subseteq Shown')

Written ==
    /\ UNCHANGED list
    /\ shifted' = IF Shifts THEN {h \in Handlers : ~At(h, "idle")} ELSE shifted

InsertRow(h) ==
    /\ Serve(h, "list")
    /\ Len(rows) < MaxRows
    /\ \E date \in FirstDates : rows' = Append(rows, NewRow(date))
    /\ clock' = clock + 1
    /\ Written
    /\ UNCHANGED stale

\* A decision, a payment, an expiration, a suspension; a school or a user may come back.
ChangeStatus(h) ==
    /\ Serve(h, "list")
    /\ list.name \notin {"activity", "transactions", "sessions", "reviews"}
    /\ \E i \in There :
        \/ rows' = [rows EXCEPT ![i].open = FALSE]
        \/ list.name \in {"users", "schools", "beta"} /\ rows' = [rows EXCEPT ![i].open = TRUE]
        \/ list.name = "subscriptions" /\ rows' = [rows EXCEPT ![i].due = TRUE]
    /\ Written
    /\ UNCHANGED <<clock, stale>>

\* A message in a conversation, a school submitted for review.
MoveRow(h) ==
    /\ Serve(h, "list")
    /\ list.name \in {"sessions", "schools"}
    /\ \E i \in There : rows' = [rows EXCEPT ![i].at = clock + 1]
    /\ clock' = clock + 1
    /\ Written
    /\ UNCHANGED stale

\* A family deletes its review or its conversation.
DeleteRow(h) ==
    /\ Serve(h, "list")
    /\ list.name \in {"sessions", "reviews"}
    /\ \E i \in There : rows' = [rows EXCEPT ![i].there = FALSE]
    /\ Written
    /\ UNCHANGED <<clock, stale>>

-----------------------------------------------------------------------------

StartReading(h) ==
    /\ Begin(h, "list")
    /\ Become(h, [at |-> "list.page", page |-> 1, seen |-> {}, had |-> ShownRows])
    /\ shifted' = shifted \ {h}
    /\ UNCHANGED <<list, rows, clock, stale>>

skipLate(page) == page * PageSize

\* normalizePage.
skip(page) == (page - 1) * PageSize

ReadPage(h) ==
    LET before == skip(frame[h].page)
        items == {i \in ShownRows : Place(i) \in (before + 1)..(before + PageSize)}
    IN  /\ At(h, "list.page")
        /\ Become(h, [frame[h] EXCEPT
               !.at = IF Cardinality(items) < PageSize THEN "list.done" ELSE @,
               !.page = @ + 1,
               !.seen = @ \cup items])
        /\ UNCHANGED <<listVars, counters, stale>>

StopReading(h) ==
    /\ At(h, "list.done")
    /\ Return(h)
    /\ UNCHANGED <<listVars, counters, stale>>

ListStep(h) ==
    \/ InsertRow(h) \/ ChangeStatus(h) \/ MoveRow(h) \/ DeleteRow(h)
    \/ StartReading(h) \/ ReadPage(h) \/ StopReading(h)

-----------------------------------------------------------------------------
(***************************************************************************)
(* A reader who went through the pages of a list has seen every row that   *)
(* was in it when he began, although rows were added meanwhile (he may see *)
(* one twice); unless a row left the list or moved in it, which shifts the *)
(* others past the page he is at.  Rows added in the middle of a list by   *)
(* date push the others towards the pages still to come.                   *)
(***************************************************************************)
PagesMissNothing ==
    \A h \in Handlers : At(h, "list.done") /\ h \notin shifted => frame[h].had \subseteq frame[h].seen
=============================================================================
