--------------------------- MODULE FileReferences ---------------------------
(***************************************************************************)
(* What the rows that refer to files promise: every file they show is      *)
(* there.  Files are uploaded before a row refers to them, and deleted     *)
(* only when no row does.  Each happens in one indivisible step.           *)
(***************************************************************************)

CONSTANT Files

VARIABLES
    stored,       \* the files of the storage service
    referenced    \* the files that rows of the database point to

vars == <<stored, referenced>>

Init ==
    /\ stored \in SUBSET Files
    /\ referenced \in SUBSET stored

Upload(f) ==
    /\ f \notin stored
    /\ stored' = stored \cup {f}
    /\ UNCHANGED referenced

Refer(fs) ==
    /\ fs \subseteq stored
    /\ referenced' = fs
    /\ UNCHANGED stored

\* A deletion of several files goes one by one, or fails and leaves them all.
Delete(fs) ==
    /\ fs \cap referenced = {}
    /\ stored' = stored \ fs
    /\ UNCHANGED referenced

Next ==
    \/ \E f \in Files : Upload(f)
    \/ \E fs \in SUBSET Files : Refer(fs) \/ Delete(fs)

Spec == Init /\ [][Next]_vars
=============================================================================
