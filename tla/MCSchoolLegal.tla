---------------------------- MODULE MCSchoolLegal ----------------------------
(***************************************************************************)
(* Small instances of SchoolLegal for TLC.                                 *)
(***************************************************************************)
EXTENDS SchoolLegal, TLC

CONSTANTS s1, s2, h1, h2, cron, good, bad, none

TwoSchools == {s1, s2}
OneSchool == {s1}
TwoNifs == {good, bad}
MCRegistry == (good :> "ACTIVE") @@ (bad :> "INACTIVE")
MCNifsOf == (s1 :> {good, bad}) @@ (s2 :> {bad})
OneNif == s1 :> {bad}
OneNifEach == (s1 :> {bad}) @@ (s2 :> {good})
OneHandler == {h1}
TwoHandlers == {h1, h2}
AllDecisions == [s \in Schools |-> SchoolStatus]
SomeDecisions == (s1 :> {}) @@ (s2 :> {"ACTIVE"})
NoDecisions == [s \in Schools |-> {}]

\* One school submits, and is asked everything meanwhile; the other submits too.
MCOperations ==
    (h1 :> {<<"submit", s1>>})
    @@ (h2 :> ({"auto", "manual", "reject", "view", "notify"} \X {s1})
                \cup {<<"submit", s2>>})

\* Two schools, one request at a time, and the job.
JobOperations == h1 :> (({"submit", "view"} \X {s1}) \cup {<<"view", s2>>})

\* The story of one rejection.
OneByOneOperations == h1 :> ({"submit", "reject", "view"} \X {s1})
=============================================================================
