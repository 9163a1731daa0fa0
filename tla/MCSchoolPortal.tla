--------------------------- MODULE MCSchoolPortal ---------------------------
(***************************************************************************)
(* Two requests at a time on one school.  A behaviour draws its requests   *)
(* from one agenda: the operations of two agendas share no row, or only    *)
(* rows that neither of the two leaves in a state the other one minds.     *)
(***************************************************************************)
EXTENDS SchoolPortal, TLC

CONSTANTS primary, secondary

TwoLevels == {primary, secondary}

\* A list is sent for both levels, for one, without a tuition, without fees.
MCPriceLists ==
    {[l \in Levels |-> "set"], [l \in Levels |-> "zero"],
     [NothingListed EXCEPT ![primary] = "set"],
     [NothingListed EXCEPT ![secondary] = "blank"]}

MCAgendas ==
    {\* files behind the logo and the gallery
     {"create", "update", "deleteLogo", "gallery", "deleteItem"},
     \* what the evaluator reads
     {"location", "deleteLocation", "services", "levels", "deleteLevels", "class",
      "deleteClass", "complete"},
     {"price", "deletePrice", "levels", "complete"},
     \* the status of the school and its subscription
     {"update", "deleteItem", "complete", "approve", "reject", "admin", "pay", "expire",
      "nif"}}

Symmetry == Permutations(Handlers)
=============================================================================
