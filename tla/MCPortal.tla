------------------------------ MODULE MCPortal ------------------------------
(***************************************************************************)
(* A small instance of Portal for TLC: two requests at a time.  The        *)
(* operations of two agendas share no row, but for the needs of a          *)
(* conversation, which an agenda of their own brings together.             *)
(***************************************************************************)
EXTENDS Portal

MCAgendas ==
    {\* seats and sessions of testers
     {"beta.settings", "beta.request", "beta.review"},
     {"beta.request", "beta.review", "beta.verify", "beta.logout"},
     \* accounts, with the beta and without
     {"beta.request", "beta.review", "register"}, {"register", "confirm", "legacy", "createAdmin"},
     {"confirm"}, {"forgot", "reset", "patchUser"}, {"profile", "patchUser"},
     \* applications, visits and what the family is told
     {"apply", "decide", "markRead"}, {"visit", "decideVisit"},
     \* the plan MANAGEMENT
     {"rollout", "plan"}, {"rollout", "waitlist"},
     \* pages of a list
     {"list"},
     \* the marketplace and the conversation
     {"favourite", "market"}, {"review"},
     {"turn", "patch"}, {"turn", "search"}, {"patch", "search"}, {"session", "search"},
     {"market", "search"}}

Asked(operations) == agenda \cap operations # {}

\* Three schools' worth of profiles: in the municipality but without transport, in
\* the province and dearer, and free in another province.
Offer(place, classes, prices, services) ==
    [province |-> place[1], municipality |-> place[2], classes |-> classes, fullDay |-> FALSE,
     teachingType |-> "PRIVATE", feesAreFree |-> 0 \in prices, tuition |-> prices,
     services |-> services, vacancies |-> TRUE]
InTalatona == Offer(<<"Luanda", "Talatona">>, {"5"}, {100, 160}, {})
InViana == Offer(<<"Luanda", "Viana">>, {"6"}, {120}, {"transporte"})
InHuambo == Offer(<<"Huambo", "Huambo">>, {"5"}, {0}, {})
MCOffers == {InTalatona, InViana, InHuambo}

MCNames == {"", "Luanda", "Talatona", "5"}

Message(talk, patch, browse, soft, compare) ==
    [talk |-> talk, patch |-> patch, browse |-> browse, soft |-> soft, compare |-> compare]
MCMessages ==
    {Message("needs", [municipio |-> "Talatona", provincia |-> "Luanda"], "no", "none", FALSE),
     Message("needs", [classe |-> "5", precoMax |-> 100, transporte |-> "yes"], "no", "none", FALSE),
     Message("needs", <<>>, "list", "none", FALSE),
     Message("followUp", <<>>, "anyClass", "cheaper", FALSE),
     Message("offTopic", <<>>, "no", "none", FALSE),
     Message("distance", <<>>, "no", "none", FALSE),
     Message("needs", <<>>, "no", "no_transport", TRUE)}
MCReadings ==
    {Reading("ask_question", [precoMax |-> 0], FALSE, "none", FALSE),
     Reading("answer_from_results", <<>>, FALSE, "none", TRUE),
     Reading("off_topic", <<>>, FALSE, "none", FALSE),
     Reading("soft_adjust", <<>>, TRUE, "only_transport", FALSE)}
MCPatches ==
    {[precoMax |-> 80, provincia |-> ""], [municipio |-> "Luanda", browseWide |-> TRUE]}
MCFirstNeeds ==
    {[EMPTY_NEEDS EXCEPT !.municipio = "Talatona", !.provincia = "Luanda", !.classe = "5",
                         !.precoMax = 100, !.transporte = "yes"]}

\* What nobody asks about starts in one way only.
MCInit ==
    /\ Init
    /\ ~Asked({"beta.request", "register"}) => ~betaEnabled
    /\ ~Asked({"register", "createAdmin", "forgot", "profile"}) => \A e \in Emails : users[e] = NoUser
    /\ agenda = {"confirm"} <=> issued = 1
    /\ ~Asked({"apply"}) => classActive
    /\ ~Asked({"turn", "patch", "search"}) => ~session.there
    /\ ~Asked({"turn"}) => ~llmEnabled
    /\ \A s \in Schools :
        ~Asked({"search"}) \/ Asked({"turn", "patch"}) => market[s].offer = InTalatona
MCSpec == MCInit /\ [][Next]_vars

Symmetry == Permutations(Handlers) \cup Permutations(Emails)
=============================================================================
